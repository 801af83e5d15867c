--------------------------- MODULE LevelDBRefinement ---------------------------
(***************************************************************************)
(* LevelDB implements DurableStore: what a writer and a reader see of the  *)
(* queue, the memtables, the logs, the tables and the manifests is what    *)
(* DurableStore allows, for any number of threads, capacities, starts,     *)
(* losses of power and failed calls, of appends to a log too.              *)
(***************************************************************************)
EXTENDS LevelDBProofs

\* The record is recovered if the process ends now; a reader sees it.
Lasts(r) == r \in Recoverable
Seen(r) == IF db = None THEN Lasts(r) ELSE InMemory(db, r) \/ InTables(tables, Files(db), r)

\* The record is in the log n of L; in one from j on, before k; in the synced part of one from
\* k on; and so in what state m still holds after a loss of power.
InLog(L, n, r) == n \in DOMAIN L /\ \E i \in DOMAIN L[n].recs : r = L[n].recs[i]
Between(L, j, k, r) == \E n \in DOMAIN L : j <= n /\ n < k /\ InLog(L, n, r)
InSynced(L, k, r) == \E n \in DOMAIN L : n >= k /\ \E i \in 1 .. L[n].synced : r = L[n].recs[i]
OnSynced(T, L, m, r) == InTables(T, Files(m), r) \/ InSynced(L, m.log, r)

\* Its writers were told ok behind an append that failed.
Unsure(r) == r.batches \subseteq {w \in Writers : result[w] = "unsure"}

\* Whatever state of the manifest is found, recovery finds the same records, but for unsure
\* ones; and the edit in progress and the store at work have them too.
SameInv ==
  /\ \A m \in PossibleStates : \A r : /\ OnDisk(tables, logs, m, r) => Lasts(r)
                                      /\ Lasts(r) => OnDisk(tables, logs, m, r) \/ Unsure(r)
  /\ edit # None => \A r : /\ OnDisk(tables, logs, edit.state, r) => Lasts(r) \/ (edit.owner # "open" /\ Unsure(r))
                           /\ Lasts(r) => OnDisk(tables, logs, edit.state, r) \/ (edit.owner # "open" /\ Unsure(r))
  /\ db # None => \A r : /\ OnDisk(tables, logs, db, r) => Lasts(r)
                         /\ Lasts(r) => OnDisk(tables, logs, db, r) \/ Unsure(r)

\* The memtable written to a table is that of the older logs; the other one is that of the
\* last log, but for a record being written, or one whose sync has failed, and unsure ones.
MemInv ==
  db # None =>
    /\ \A n \in DOMAIN logs : n <= db.logfile
    /\ \A r : Between(logs, db.log, db.logfile, r) => db.imm # None /\ r \in db.imm
    /\ \A r : db.imm # None /\ r \in db.imm => Between(logs, db.log, db.logfile, r) \/ Unsure(r)
    /\ \A r : r \in db.mem => InLog(logs, db.logfile, r) \/ Unsure(r)
    /\ \A r : InLog(logs, db.logfile, r) => r \in db.mem \/ db.bgError \/ NewRecord(r)

\* No state that may be found misses a log the store still has, or starts after its last log.
LogsInv ==
  /\ db # None => \A m \in PossibleStates : db.log <= m.log /\ m.log <= db.logfile
  /\ edit # None /\ edit.owner = "open" =>
       /\ \A n \in DOMAIN logs : n <= edit.state.log
       /\ \A r : ~InLog(logs, edit.state.log, r)

\* Also after an error, which may have left an edit in the manifest, what the manifest adds
\* up to has the tables an edit starts from, and then those it makes.
BehindInv ==
  db # None =>
    /\ (edit = None /\ bg # None) \/ (edit # None /\ edit.at = "append") =>
         db.l0 \subseteq Base.l0 /\ db.deep \subseteq Base.deep
    /\ edit # None /\ edit.at # "append" =>
         edit.state.l0 \subseteq Base.l0 /\ edit.state.deep \subseteq Base.deep

\* An edit loses no record of the tables, and adds only those of the memtable.
CoversInv ==
  edit # None /\ edit.owner # "open" =>
    /\ \A r : InTables(tables, Files(db), r) => InTables(tables, Files(edit.state), r)
    /\ \A r : InTables(tables, Files(edit.state), r) =>
         InTables(tables, Files(db), r) \/ (edit.owner = "flush" /\ r \in db.imm)
    /\ edit.owner = "flush" =>
         /\ db.imm # None /\ edit.state.log = db.logfile
         /\ db.l0 \subseteq edit.state.l0 /\ db.deep \subseteq edit.state.deep
         /\ \A r : r \in db.imm => InTables(tables, Files(edit.state), r)
    /\ edit.owner # "flush" => edit.state.log = db.log

\* A merge has the records of its inputs, which are tables of the store until it ends.
MergeInv ==
  bg # None =>
    /\ bg.level0 \subseteq db.l0 /\ bg.below \subseteq db.deep
    /\ \A r : r \in tables[bg.out] <=> InTables(tables, bg.level0 \cup bg.below, r)

\* Before the store was opened for the first time there is nothing to find.
FirstInv == current < 2 => Recoverable = {}

\* Only the record of the group is of writers that have not returned; a reader sees no such one.
OwnersInv ==
  /\ \A r : Lasts(r) /\ ~NewRecord(r) => \A w \in r.batches : pc[w] \in {"done", "dead"}
  /\ \A r : Seen(r) => \A w \in r.batches : pc[w] \in {"done", "dead"}

\* The group: its writers, its record in the log once it is appended, unless an append to that
\* log has failed, and synced if its first writer asks for it.
GroupInv ==
  group # None =>
    /\ queue[1] \in Writers
    /\ group.record.batches = {queue[i] : i \in 1 .. group.size} \cap Writers
    /\ queue[1] \in SyncWriters \/ group.record.batches \cap SyncWriters = {}
    /\ pc[queue[1]] = "append" => ~InLog(logs, db.logfile, group.record)
    /\ pc[queue[1]] \in {"sync", "insert"} => db.torn \/ InLog(logs, db.logfile, group.record)
    /\ pc[queue[1]] = "insert" /\ queue[1] \in SyncWriters =>
         logs[db.logfile].synced = Len(logs[db.logfile].recs)

\* A write has failed where the append to a log has.
TornInv == db # None /\ db.torn => \E w \in Writers : result[w] = "error"

DiskInv ==
  SameInv /\ MemInv /\ LogsInv /\ BehindInv /\ CoversInv /\ MergeInv /\ FirstInv

RInv == DiskInv /\ OwnersInv /\ GroupInv /\ TornInv

-----------------------------------------------------------------------------
(* The steps of DurableStore *)

\* The writes the end of the process leaves.
Kept == Batches(Recoverable)

\* Each writer keeps its status.
Quiet == \A w \in Writers : Status(w)' = Status(w)

\* The writers of W are given status s.
Given(W, s) == \A w \in Writers : Status(w)' = IF w \in W THEN s ELSE Status(w)

\* Nothing to see.
LEMMA Stutters ==
  ASSUME Quiet, Visible' = Visible, Kept' = Kept, Safe' = Safe
  PROVE  [Store!Next]_(Store!vars)
  BY DEF Quiet, Kept, Store!vars

\* A call of Write.
LEMMA StepCall ==
  ASSUME NEW t \in Writers, Status(t) = "todo", Given({t}, "called"),
         Visible' = Visible, Kept' = Kept, Safe' = Safe
  PROVE  Store!Next
  BY DEF Given, Kept, Store!Next, Store!Call, Store!Set

\* Writes come to be in the log.
LEMMA StepLog ==
  ASSUME NEW W \in SUBSET Writers, \A w \in W : Status(w) = "called", W \cap Visible = {},
         Quiet, Visible' = Visible, Kept' = Kept \cup W, Safe' = Safe
  PROVE  Store!Next
  <1>1. W \in SUBSET Store!Called
    BY DEF Store!Called
  <1>2. Store!Log(W)
    BY DEF Quiet, Kept, Store!Log
  <1> QED
    BY <1>1, <1>2 DEF Store!Next

\* More cannot be lost with power, or with the process.
LEMMA StepHarden ==
  ASSUME Quiet, Visible' = Visible, Kept \subseteq Kept', Kept' \subseteq Kept \cup Visible, Safe \subseteq Safe'
  PROVE  Store!Next
  <1>1. Safe' \subseteq Kept'
    BY DEF Safe, Kept
  <1>2. Safe' \in SUBSET (Visible \cup (Batches(Recoverable) \ Visible))
    BY <1>1 DEF Kept
  <1>3. Store!Harden(Safe')
    BY DEF Quiet, Kept, Store!Harden
  <1> QED
    BY <1>2, <1>3 DEF Store!Next

\* A group returns.
LEMMA StepPublish ==
  ASSUME NEW W \in SUBSET Writers, \A w \in W : Status(w) = "called", W \subseteq Kept,
         W \cap Visible = {}, W \cap SyncWriters \subseteq Safe,
         Given(W, "ok"), Visible' = Visible \cup W, Kept' = Kept, Safe' = Safe
  PROVE  Store!Next
  <1>1. W \in SUBSET Store!Called
    BY DEF Store!Called
  <1>2. Store!Publish(W)
    BY DEF Given, Kept, Store!Publish, Store!Set
  <1> QED
    BY <1>1, <1>2 DEF Store!Next

\* One does behind a failure.
LEMMA StepPublishUnsure ==
  ASSUME NEW W \in SUBSET Writers, \A w \in W : Status(w) = "called",
         NEW v \in Writers, Status(v) = "error",
         Given(W, "unsure"), Visible' = Visible \cup W, Kept' = Kept, Safe' = Safe
  PROVE  Store!Next
  <1>1. W \in SUBSET Store!Called
    BY DEF Store!Called
  <1>2. Store!PublishUnsure(W)
    BY DEF Given, Kept, Store!PublishUnsure, Store!Set
  <1> QED
    BY <1>1, <1>2 DEF Store!Next

\* Or it fails.
LEMMA StepFail ==
  ASSUME NEW W \in SUBSET Writers, \A w \in W : Status(w) = "called",
         Given(W, "error"), Visible' = Visible, Kept' = Kept, Safe' = Safe
  PROVE  Store!Next
  <1>1. W \in SUBSET Store!Called
    BY DEF Store!Called
  <1>2. Store!Fail(W)
    BY DEF Given, Kept, Store!Fail, Store!Set
  <1> QED
    BY <1>1, <1>2 DEF Store!Next

\* The process ends.
LEMMA StepStop ==
  ASSUME \A w \in Writers : Status(w)' = IF Status(w) = "called" THEN "dead" ELSE Status(w),
         \A w \in Visible \ Kept : w \in Writers /\ Status(w) = "unsure",
         Visible' = Kept, Kept' = Kept, Safe' = Safe
  PROVE  Store!Next
  <1>1. Safe \subseteq Kept
    BY DEF Safe, Kept
  <1>2. Store!Stop(Kept)
    BY <1>1 DEF Kept, Store!Stop, Store!Set, Store!Called
  <1>3. Kept \in SUBSET (Visible \cup (Batches(Recoverable) \ Visible))
    BY DEF Kept
  <1> QED
    BY <1>2, <1>3 DEF Store!Next

\* Power is lost.
LEMMA StepPowerLoss ==
  ASSUME \A w \in Writers : Status(w)' = IF Status(w) = "called" THEN "dead" ELSE Status(w),
         Kept' \subseteq Kept, Visible' = Kept', Safe \subseteq Safe'
  PROVE  Store!Next
  <1>1. Safe' \subseteq Kept'
    BY DEF Safe, Kept
  <1>2. Store!PowerLoss(Kept')
    BY <1>1 DEF Kept, Store!PowerLoss, Store!Set, Store!Called
  <1>3. Kept' \in SUBSET (Visible \cup (Batches(Recoverable) \ Visible))
    BY DEF Kept
  <1> QED
    BY <1>2, <1>3 DEF Store!Next

-----------------------------------------------------------------------------
(* Records, and the sets of writes that are seen *)

\* What is recovered from the state a loss of power leaves.
LEMMA HeldOnSynced ==
  ASSUME Types, NEW m, NEW r
  PROVE  r \in Held(m, SyncedLogs) <=> OnSynced(tables, logs, m, r)
  <1> DEFINE S == {k \in DOMAIN logs : k >= m.log}
  <1>1. \A n \in DOMAIN logs : r \in LogRecords(n, SyncedLogs[n]) <=> \E i \in 1 .. logs[n].synced : r = logs[n].recs[i]
    BY DEF LogRecords, SyncedLogs
  <1>2. r \in UNION {LogRecords(n, SyncedLogs[n]) : n \in S} <=> InSynced(logs, m.log, r)
    BY <1>1 DEF InSynced
  <1>3. r \in Contents(Files(m)) <=> InTables(tables, Files(m), r)
    BY DEF Contents, InTables
  <1> QED
    BY <1>2, <1>3 DEF Held, Replayed, OnSynced

\* What the end of the process leaves is what is in the tables and logs of the last state.
LastsAre ==
  IF current = 0 \/ manifests[current].recs = <<>> THEN \A r : ~Lasts(r)
  ELSE Base \in PossibleStates /\ \A r : Lasts(r) <=> OnDisk(tables, logs, Base, r)

\* Where the records are that the end of the process leaves.
LEMMA LastsOnDisk ==
  IInv => LastsAre
  <1> SUFFICES ASSUME IInv PROVE LastsAre
    OBVIOUS
  <1>1. Types
    BY DEF IInv, Core, Types
  <1>2. CASE current = 0 \/ manifests[current].recs = <<>>
    BY <1>2 DEF Lasts, Recoverable, LastsAre
  <1>3. CASE ~(current = 0 \/ manifests[current].recs = <<>>)
    <2>1. Base \in PossibleStates
      BY <1>3, LastIsPossible DEF IInv, Base
    <2>2. \A r : r \in Held(Base, AllOfLogs) <=> OnDisk(tables, logs, Base, r)
      BY <1>1, HeldOnDisk
    <2>3. Recoverable = Held(Base, AllOfLogs)
      BY <1>3 DEF Recoverable, Base
    <2> QED
      BY <1>3, <2>1, <2>2, <2>3 DEF Lasts, LastsAre
  <1> QED
    BY <1>2, <1>3

\* The same of the state after a step.
LEMMA LastsOnDiskNext ==
  IInv' => LastsAre'
  BY LastsOnDisk, PTL

\* No loss of power undoes the writes whose records are synced, in whatever state is found.
SafeWrites ==
  \A w : w \in Safe <=>
    PossibleStates # {} /\ \A m \in PossibleStates : \E r : OnSynced(tables, logs, m, r) /\ w \in r.batches

\* Where the records are that a loss of power leaves, whatever state it finds.
LEMMA SafeAre ==
  IInv => SafeWrites
  <1> SUFFICES ASSUME IInv, NEW w
               PROVE  w \in Safe <=> PossibleStates # {} /\ \A m \in PossibleStates :
                                        \E r : OnSynced(tables, logs, m, r) /\ w \in r.batches
    BY DEF SafeWrites
  <1> DEFINE Held1(m) == \E r : OnSynced(tables, logs, m, r) /\ w \in r.batches
  <1>1. Types
    BY DEF IInv, Core, Types
  <1>2. \A m : w \in Batches(Held(m, SyncedLogs)) <=> Held1(m)
    <2> TAKE m
    <2>1. \A r : r \in Held(m, SyncedLogs) <=> OnSynced(tables, logs, m, r)
      BY <1>1, HeldOnSynced
    <2> QED
      BY <2>1 DEF Batches
  <1>3. w \in Safe <=> w \in Batches(Recoverable) /\ \A m \in PossibleStates : Held1(m)
    BY <1>2 DEF Safe
  <1>4. PossibleStates # {} /\ (\A m \in PossibleStates : Held1(m)) => w \in Batches(Recoverable)
    <2> SUFFICES ASSUME PossibleStates # {}, \A m \in PossibleStates : Held1(m) PROVE w \in Batches(Recoverable)
      OBVIOUS
    <2>1. current # 0 /\ manifests[current].recs # <<>>
      BY DEF PossibleStates
    <2>2. Base \in PossibleStates /\ \A r : Lasts(r) <=> OnDisk(tables, logs, Base, r)
      BY <2>1, LastsOnDisk DEF LastsAre
    <2>3. PICK r : OnSynced(tables, logs, Base, r) /\ w \in r.batches
      BY <2>2
    <2>4. InSynced(logs, Base.log, r) => InLogs(logs, Base.log, r)
      <3>1. \A n \in DOMAIN logs : \A i \in 1 .. logs[n].synced : i \in DOMAIN logs[n].recs
        BY <1>1 DEF Types, FileTypes, FilesOf, File
      <3> QED
        BY <3>1 DEF InSynced, InLogs
    <2>5. Lasts(r)
      BY <2>2, <2>3, <2>4 DEF OnSynced, OnDisk
    <2> QED
      BY <2>3, <2>5 DEF Lasts, Batches
  <1>5. w \in Batches(Recoverable) => PossibleStates # {}
    <2> SUFFICES ASSUME w \in Batches(Recoverable) PROVE PossibleStates # {}
      OBVIOUS
    <2>1. Recoverable # {}
      BY DEF Batches
    <2>2. current # 0 /\ manifests[current].recs # <<>>
      BY <2>1 DEF Recoverable
    <2> QED
      BY <2>2, LastsOnDisk DEF LastsAre
  <1> QED
    BY <1>3, <1>4, <1>5

\* The same of the state after a step.
LEMMA SafeAreNext ==
  IInv' => SafeWrites'
  BY SafeAre, PTL

\* The set of safe writes grows when each state that may be found still holds what one did.
LEMMA SafeGrows ==
  ASSUME IInv, IInv', PossibleStates' = {} => PossibleStates = {},
         \A k \in PossibleStates' : \E m \in PossibleStates :
           \A r : OnSynced(tables, logs, m, r) => OnSynced(tables', logs', k, r)
  PROVE  Safe \subseteq Safe'
  <1> SUFFICES ASSUME NEW w \in Safe PROVE w \in Safe'
    OBVIOUS
  <1>1. PossibleStates # {} /\ \A m \in PossibleStates : \E r : OnSynced(tables, logs, m, r) /\ w \in r.batches
    BY SafeAre DEF SafeWrites
  <1>2. \A k \in PossibleStates' : \E r : OnSynced(tables', logs', k, r) /\ w \in r.batches
    BY <1>1
  <1> QED
    BY <1>1, <1>2, SafeAreNext DEF SafeWrites

\* It is the same when the states are, and what they hold.
LEMMA SafeSame ==
  ASSUME IInv, IInv', PossibleStates' = PossibleStates,
         \A m \in PossibleStates : \A r : OnSynced(tables', logs', m, r) <=> OnSynced(tables, logs, m, r)
  PROVE  Safe' = Safe
  <1>1. \A w : w \in Safe' <=> w \in Safe
    <2> TAKE w
    <2>1. w \in Safe <=> PossibleStates # {} /\ \A m \in PossibleStates : \E r : OnSynced(tables, logs, m, r) /\ w \in r.batches
      BY SafeAre DEF SafeWrites
    <2>2. w \in Safe' <=> PossibleStates' # {} /\ \A m \in PossibleStates' : \E r : OnSynced(tables', logs', m, r) /\ w \in r.batches
      BY SafeAreNext DEF SafeWrites
    <2> QED
      BY <2>1, <2>2
  <1> QED
    BY <1>1

\* The same records, the same writes.
LEMMA KeptSame ==
  ASSUME \A r : Lasts(r)' <=> Lasts(r)
  PROVE  Kept' = Kept
  <1>1. Recoverable' = Recoverable
    BY DEF Lasts
  <1> QED
    BY <1>1 DEF Kept, Batches

\* The writes a reader sees.
LEMMA VisibleAre ==
  \A w : w \in Visible <=> \E r : Seen(r) /\ w \in r.batches
  <1> TAKE w
  <1>1. CASE db = None
    BY <1>1 DEF Visible, Seen, Lasts, Batches
  <1>2. CASE db # None
    <2> DEFINE R == db.mem \cup (IF db.imm = None THEN {} ELSE db.imm) \cup Contents(Files(db))
    <2>1. \A r : r \in R <=> Seen(r)
      BY <1>2 DEF Seen, InMemory, InTables, Contents
    <2>2. Visible = Batches(R)
      BY <1>2 DEF Visible
    <2> HIDE DEF R
    <2> QED
      BY <2>1, <2>2 DEF Batches
  <1> QED
    BY <1>1, <1>2

\* The same of the state after a step.
LEMMA VisibleAreNext ==
  (\A w : w \in Visible <=> \E r : Seen(r) /\ w \in r.batches)'
  BY VisibleAre, PTL

\* The same records seen, the same writes visible.
LEMMA VisibleSame ==
  ASSUME \A r : Seen(r)' <=> Seen(r)
  PROVE  Visible' = Visible
  <1>1. \A w : w \in Visible' <=> w \in Visible
    BY VisibleAre, VisibleAreNext
  <1> QED
    BY <1>1

-----------------------------------------------------------------------------
(* What a step keeps of the disk *)

\* The tables N are there and stay; the logs from k on stay, and new ones are empty.
KeepsTables(N) == \A n \in N : n \in DOMAIN tables /\ n \in DOMAIN tables' /\ tables'[n] = tables[n]
KeepsLogs(k) ==
  /\ \A n \in DOMAIN logs : n >= k => n \in DOMAIN logs' /\ logs'[n] = logs[n]
  /\ \A n \in DOMAIN logs' : n >= k => (n \in DOMAIN logs /\ logs'[n] = logs[n]) \/ logs'[n] = EmptyFile

\* Tables and logs that are kept hold what they held.
LEMMA DiskKept ==
  /\ \A N, r : KeepsTables(N) => (InTables(tables', N, r) <=> InTables(tables, N, r))
  /\ \A k, r : KeepsLogs(k) => /\ InLogs(logs', k, r) <=> InLogs(logs, k, r)
                               /\ InSynced(logs', k, r) <=> InSynced(logs, k, r)
  /\ \A m, r : KeepsTables(Files(m)) /\ KeepsLogs(m.log) =>
       /\ OnDisk(tables', logs', m, r) <=> OnDisk(tables, logs, m, r)
       /\ OnSynced(tables', logs', m, r) <=> OnSynced(tables, logs, m, r)
  <1>1. ASSUME NEW N, NEW r, KeepsTables(N) PROVE InTables(tables', N, r) <=> InTables(tables, N, r)
    BY <1>1 DEF KeepsTables, InTables
  <1>2. ASSUME NEW k, NEW r, KeepsLogs(k)
        PROVE  /\ InLogs(logs', k, r) <=> InLogs(logs, k, r)
               /\ InSynced(logs', k, r) <=> InSynced(logs, k, r)
    <2>1. DOMAIN EmptyFile.recs = {} /\ 1 .. EmptyFile.synced = {}
      BY DEF EmptyFile
    <2>2. ASSUME InLogs(logs', k, r) PROVE InLogs(logs, k, r)
      BY <1>2, <2>1, <2>2 DEF KeepsLogs, InLogs
    <2>3. ASSUME InLogs(logs, k, r) PROVE InLogs(logs', k, r)
      BY <1>2, <2>3 DEF KeepsLogs, InLogs
    <2>4. ASSUME InSynced(logs', k, r) PROVE InSynced(logs, k, r)
      BY <1>2, <2>1, <2>4 DEF KeepsLogs, InSynced
    <2>5. ASSUME InSynced(logs, k, r) PROVE InSynced(logs', k, r)
      BY <1>2, <2>5 DEF KeepsLogs, InSynced
    <2> QED
      BY <2>2, <2>3, <2>4, <2>5
  <1>3. ASSUME NEW m, NEW r, KeepsTables(Files(m)), KeepsLogs(m.log)
        PROVE  /\ OnDisk(tables', logs', m, r) <=> OnDisk(tables, logs, m, r)
               /\ OnSynced(tables', logs', m, r) <=> OnSynced(tables, logs, m, r)
    BY <1>1, <1>2, <1>3 DEF OnDisk, OnSynced
  <1> QED
    BY <1>1, <1>2, <1>3

\* What has been returned stays so, and unsure records with it.
ResultsStay == \A w \in Writers : result[w] # None => result'[w] = result[w]

LEMMA UnsureStays ==
  ASSUME ResultsStay
  PROVE  \A r : Unsure(r) => Unsure(r)'
  <1>1. "unsure" # None
    BY NoneAssumption
  <1> QED
    BY <1>1 DEF ResultsStay, Unsure

\* The states that may be found, and what they hold.
LEMMA StatesKept ==
  ASSUME IInv, IInv', SameInv, ResultsStay,
         current' = current, current # 0 => manifests'[current] = manifests[current],
         \A m \in PossibleStates : KeepsTables(Files(m)) /\ KeepsLogs(m.log)
  PROVE  /\ PossibleStates' = PossibleStates /\ (current # 0 => Base' = Base)
         /\ \A r : Lasts(r)' <=> Lasts(r)
         /\ Safe' = Safe
         /\ \A m \in PossibleStates' : \A r : OnDisk(tables', logs', m, r) => Lasts(r)'
         /\ \A m \in PossibleStates' : \A r : Lasts(r)' => OnDisk(tables', logs', m, r) \/ Unsure(r)'
  <1>1. PossibleStates' = PossibleStates
    BY DEF PossibleStates
  <1>2. current # 0 => Base' = Base
    BY DEF Base
  <1>3. /\ \A m \in PossibleStates : \A r : OnDisk(tables', logs', m, r) <=> OnDisk(tables, logs, m, r)
        /\ \A m \in PossibleStates : \A r : OnSynced(tables', logs', m, r) <=> OnSynced(tables, logs, m, r)
    BY DiskKept
  <1>4. Safe' = Safe
    BY <1>1, <1>3, SafeSame
  <1>5. \A r : Lasts(r)' <=> Lasts(r)
    <2>1. CASE current = 0 \/ manifests[current].recs = <<>>
      <3>1. Recoverable = {} /\ Recoverable' = {}
        BY <2>1 DEF Recoverable
      <3> QED
        BY <3>1 DEF Lasts
    <2>2. CASE ~(current = 0 \/ manifests[current].recs = <<>>)
      <3>1. Base \in PossibleStates /\ \A r : Lasts(r) <=> OnDisk(tables, logs, Base, r)
        BY <2>2, LastsOnDisk DEF LastsAre
      <3>2. \A r : Lasts(r)' <=> OnDisk(tables', logs', Base, r)
        <4>1. ~(current' = 0 \/ manifests'[current'].recs = <<>>)
          BY <2>2
        <4>2. \A r : Lasts(r)' <=> OnDisk(tables', logs', Base', r)
          BY <4>1, LastsOnDiskNext DEF LastsAre
        <4> QED
          BY <1>2, <2>2, <4>2
      <3> QED
        BY <1>3, <3>1, <3>2
    <2> QED
      BY <2>1, <2>2
  <1>6. \A r : Unsure(r) => Unsure(r)'
    BY UnsureStays
  <1>7. \A m \in PossibleStates : \A r : /\ OnDisk(tables, logs, m, r) => Lasts(r)
                                         /\ Lasts(r) => OnDisk(tables, logs, m, r) \/ Unsure(r)
    BY DEF SameInv
  <1>8. \A m \in PossibleStates : \A r : /\ OnDisk(tables', logs', m, r) => Lasts(r)'
                                         /\ Lasts(r)' => OnDisk(tables', logs', m, r) \/ Unsure(r)'
    BY <1>3, <1>5, <1>6, <1>7
  <1> QED
    BY <1>1, <1>2, <1>4, <1>5, <1>8

\* The numbers of the tables in use are below that of the next file.
LEMMA OldTables ==
  ASSUME IInv, DiskInv, db # None
  PROVE  /\ current # 0 /\ Base \in PossibleStates /\ Base \in ManifestStates
         /\ db \in Stores /\ db.next \in Nat /\ db.log \in Nat /\ db.logfile \in Nat /\ db.log <= db.logfile
         /\ \A m \in PossibleStates : /\ m \in ManifestStates /\ Files(m) \subseteq DOMAIN tables
                                      /\ \A n \in Files(m) : n < db.next
         /\ Files(db) \subseteq DOMAIN tables /\ \A n \in Files(db) : n < db.next
         /\ edit # None => /\ edit \in Edits /\ Files(edit.state) \subseteq DOMAIN tables
                           /\ \A n \in Files(edit.state) : n < db.next
                           /\ edit.owner \in {"flush", "compaction", "move"}
         /\ bg # None => bg \in Merges /\ bg.out \in DOMAIN tables /\ bg.out < db.next
  <1>1. /\ current # 0 /\ current \in DOMAIN manifests /\ manifests[current].synced > 0 /\ db \in Stores
        /\ db.log <= db.logfile
    BY DEF IInv, Core, NumbersInv, StoreTypes
  <1>2. manifests[current].recs # <<>>
    <2>1. File(manifests[current], ManifestStates)
      BY <1>1 DEF IInv, Core, FileTypes, FilesOf
    <2>2. /\ manifests[current].synced \in Nat /\ Len(<<>>) = 0
          /\ manifests[current].synced <= Len(manifests[current].recs)
      BY <2>1 DEF File
    <2> QED
      BY <1>1, <2>2
  <1>3. Base \in PossibleStates /\ Base \in ManifestStates
    BY <1>1, <1>2, LastIsPossible DEF IInv, Base
  <1>4. db.next \in Nat /\ db.log \in Nat /\ db.logfile \in Nat /\ Files(db) \in SUBSET Nat
    BY <1>1, Fields
  <1>5. PossibleStates \in SUBSET ManifestStates
    BY Possible DEF IInv
  <1>6. \A m \in PossibleStates : /\ m \in ManifestStates /\ Files(m) \subseteq DOMAIN tables
                                  /\ \A n \in Files(m) : n < db.next
    <2> TAKE m \in PossibleStates
    <2>1. m \in ManifestStates /\ m.next \in Nat /\ Base.next \in Nat /\ Files(m) \in SUBSET Nat
      BY <1>3, <1>5, Fields
    <2>2. m.next <= Base.next /\ Base.next <= db.next /\ \A n \in Files(m) : n < m.next
      BY DEF IInv, RisingInv, Rises, Within
    <2>3. Files(m) \subseteq DOMAIN tables
      BY DEF IInv, Core, TablesInv
    <2> QED
      BY <1>4, <2>1, <2>2, <2>3
  <1>7. Files(db) \subseteq DOMAIN tables /\ \A n \in Files(db) : n < db.next
    BY DEF IInv, Core, TablesInv, RisingInv
  <1>8. edit # None => /\ edit \in Edits /\ Files(edit.state) \subseteq DOMAIN tables
                       /\ \A n \in Files(edit.state) : n < db.next
                       /\ edit.owner \in {"flush", "compaction", "move"}
    <2> SUFFICES ASSUME edit # None
                 PROVE  /\ edit \in Edits /\ Files(edit.state) \subseteq DOMAIN tables
                        /\ \A n \in Files(edit.state) : n < db.next
                        /\ edit.owner \in {"flush", "compaction", "move"}
      OBVIOUS
    <2>1. edit \in Edits /\ edit.owner # "open" /\ Files(edit.state) \subseteq DOMAIN tables
      BY DEF IInv, Core, StoreTypes, StoreInv, TablesInv
    <2>2. edit.state \in ManifestStates /\ edit.owner \in {"flush", "compaction", "move"}
      BY <2>1, Fields
    <2>3. edit.state.next \in Nat /\ Files(edit.state) \in SUBSET Nat
      BY <2>2, Fields
    <2>4. edit.state.next <= db.next /\ \A n \in Files(edit.state) : n < edit.state.next
      BY DEF IInv, RisingInv, Rises, Within
    <2> QED
      BY <1>4, <2>1, <2>2, <2>3, <2>4
  <1>9. bg # None => bg \in Merges /\ bg.out \in DOMAIN tables /\ bg.out < db.next
    BY DEF IInv, Core, StoreTypes, TablesInv, RisingInv
  <1> QED
    BY <1>1, <1>3, <1>4, <1>6, <1>7, <1>8, <1>9

\* Tables as numerous as those of the store, and the records of the memtable.
Covers(T, e) ==
  /\ \A r : InTables(tables, Files(db), r) => InTables(T, Files(e.state), r)
  /\ \A r : InTables(T, Files(e.state), r) =>
       InTables(tables, Files(db), r) \/ (e.owner = "flush" /\ r \in db.imm)
  /\ e.owner = "flush" =>
       /\ db.imm # None /\ e.state.log = db.logfile
       /\ db.l0 \subseteq e.state.l0 /\ db.deep \subseteq e.state.deep
       /\ \A r : r \in db.imm => InTables(T, Files(e.state), r)
  /\ e.owner # "flush" => e.state.log = db.log

\* Logs from j on are those before k and those from k on.
LEMMA LogsSplit ==
  ASSUME Types, NEW j \in Nat, NEW k \in Nat, j <= k
  PROVE  \A r : InLogs(logs, j, r) <=> Between(logs, j, k, r) \/ InLogs(logs, k, r)
  <1>1. \A n \in DOMAIN logs : n \in Nat
    BY DEF Types, FileTypes, FilesOf
  <1> QED
    BY <1>1 DEF InLogs, Between, InLog

\* What a state that covers the store has is what the store has, but for unsure records.
LEMMA CoversLasts ==
  ASSUME IInv, DiskInv, db # None, NEW T, NEW e, Covers(T, e)
  PROVE  \A r : /\ OnDisk(T, logs, e.state, r) => Lasts(r) \/ Unsure(r)
                /\ Lasts(r) => OnDisk(T, logs, e.state, r) \/ Unsure(r)
  <1>1. db.log \in Nat /\ db.logfile \in Nat /\ db.log <= db.logfile /\ Types
    BY OldTables DEF IInv, Core, Types
  <1>2. \A r : /\ InTables(tables, Files(db), r) \/ InLogs(logs, db.log, r) => Lasts(r)
               /\ Lasts(r) => InTables(tables, Files(db), r) \/ InLogs(logs, db.log, r) \/ Unsure(r)
    BY DEF DiskInv, SameInv, OnDisk
  <1>3. CASE e.owner # "flush"
    BY <1>2, <1>3 DEF Covers, OnDisk
  <1>4. CASE e.owner = "flush"
    <2>1. \A r : InLogs(logs, db.log, r) <=> Between(logs, db.log, db.logfile, r) \/ InLogs(logs, db.logfile, r)
      BY <1>1, LogsSplit
    <2>2. \A r : /\ Between(logs, db.log, db.logfile, r) => r \in db.imm
                 /\ r \in db.imm => Between(logs, db.log, db.logfile, r) \/ Unsure(r)
      BY <1>4 DEF DiskInv, MemInv, Covers
    <2> QED
      BY <1>2, <1>4, <2>1, <2>2 DEF Covers, OnDisk
  <1> QED
    BY <1>3, <1>4

\* A step of the store that installs nothing and appends nothing: it may write a table, and
\* begin or end an edit or a merge.
LEMMA StoreWorks ==
  ASSUME IInv, IInv', DiskInv, ResultsStay, db # None, db' # None, UNCHANGED <<logs, manifests, current>>,
         \A n \in DOMAIN tables : n < db.next => n \in DOMAIN tables' /\ tables'[n] = tables[n],
         db'.l0 = db.l0, db'.deep = db.deep, db'.log = db.log, db'.logfile = db.logfile,
         db'.mem = db.mem, db'.imm = db.imm, db.bgError => db'.bgError,
         \A r : NewRecord(r) /\ InLog(logs, db.logfile, r) => NewRecord(r)' \/ db'.bgError,
         edit' # None /\ edit' # edit =>
           edit'.owner # "open" /\ edit'.at = "append" /\ Covers(tables', edit'),
         (edit' # None /\ edit' # edit) \/ (edit' = None /\ bg' # None) =>
           db.l0 \subseteq Base.l0 /\ db.deep \subseteq Base.deep,
         bg' # None =>
           \/ bg' = bg
           \/ /\ bg'.level0 \subseteq db.l0 /\ bg'.below \subseteq db.deep
              /\ \A r : r \in tables'[bg'.out] <=> InTables(tables, bg'.level0 \cup bg'.below, r)
  PROVE  /\ DiskInv' /\ Safe' = Safe
         /\ \A r : Lasts(r)' <=> Lasts(r)
         /\ \A r : Seen(r)' <=> Seen(r)
  <1>1. /\ current # 0 /\ Base \in PossibleStates /\ Base \in ManifestStates
        /\ db \in Stores /\ db.next \in Nat /\ db.log \in Nat /\ db.logfile \in Nat /\ db.log <= db.logfile
        /\ \A m \in PossibleStates : /\ m \in ManifestStates /\ Files(m) \subseteq DOMAIN tables
                                     /\ \A n \in Files(m) : n < db.next
        /\ Files(db) \subseteq DOMAIN tables /\ \A n \in Files(db) : n < db.next
        /\ edit # None => /\ edit \in Edits /\ Files(edit.state) \subseteq DOMAIN tables
                          /\ \A n \in Files(edit.state) : n < db.next
                          /\ edit.owner \in {"flush", "compaction", "move"}
        /\ bg # None => bg \in Merges /\ bg.out \in DOMAIN tables /\ bg.out < db.next
    BY OldTables
  <1>2. Files(db') = Files(db)
    BY DEF Files
  <1>3. /\ \A m \in PossibleStates : KeepsTables(Files(m))
        /\ KeepsTables(Files(db)) /\ (edit # None => KeepsTables(Files(edit.state)))
        /\ \A k : KeepsLogs(k)
    <2>1. \A N \in SUBSET DOMAIN tables : (\A n \in N : n < db.next) => KeepsTables(N)
      BY DEF KeepsTables
    <2> QED
      BY <1>1, <2>1 DEF KeepsLogs
  <1>4. /\ PossibleStates' = PossibleStates /\ Base' = Base
        /\ \A r : Lasts(r)' <=> Lasts(r)
        /\ Safe' = Safe
        /\ \A m \in PossibleStates' : \A r : OnDisk(tables', logs', m, r) => Lasts(r)'
        /\ \A m \in PossibleStates' : \A r : Lasts(r)' => OnDisk(tables', logs', m, r) \/ Unsure(r)'
    BY <1>1, <1>3, StatesKept DEF DiskInv
  <1>5. \A r : InTables(tables', Files(db), r) <=> InTables(tables, Files(db), r)
    BY <1>3, DiskKept
  <1>6. \A r : Seen(r)' <=> Seen(r)
    BY <1>2, <1>5 DEF Seen, InMemory, Files
  <1>7. \A r : Unsure(r) => Unsure(r)'
    BY UnsureStays
  <1>8. SameInv'
    <2>1. edit' # None => edit'.owner # "open"
      BY <1>1
    <2>2. edit' # None => \A r : /\ OnDisk(tables', logs', edit'.state, r) => Lasts(r)' \/ Unsure(r)'
                                 /\ Lasts(r)' => OnDisk(tables', logs', edit'.state, r) \/ Unsure(r)'
      <3>1. CASE edit' = edit /\ edit # None
        <4>1. \A r : OnDisk(tables', logs', edit.state, r) <=> OnDisk(tables, logs, edit.state, r)
          BY <1>3, <3>1, DiskKept
        <4> QED
          BY <1>4, <1>7, <3>1, <4>1 DEF DiskInv, SameInv
      <3>2. CASE edit' # None /\ edit' # edit
        BY <1>4, <1>7, <3>2, CoversLasts
      <3> QED
        BY <3>1, <3>2
    <2>3. \A r : /\ OnDisk(tables', logs', db', r) => Lasts(r)'
                 /\ Lasts(r)' => OnDisk(tables', logs', db', r) \/ Unsure(r)'
      <3>1. \A r : OnDisk(tables', logs', db', r) <=> OnDisk(tables, logs, db, r)
        BY <1>2, <1>5 DEF OnDisk
      <3> QED
        BY <1>4, <1>7, <3>1 DEF DiskInv, SameInv
    <2> QED
      BY <1>4, <2>1, <2>2, <2>3 DEF SameInv
  <1>9. MemInv'
    BY <1>7 DEF DiskInv, MemInv
  <1>10. LogsInv'
    <2>1. edit' # None => edit'.owner # "open"
      BY <1>1
    <2> QED
      BY <1>4, <2>1 DEF DiskInv, LogsInv
  <1>11. BehindInv'
    <2>1. CASE edit' = edit /\ edit # None
      <3>1. /\ edit.at = "append" => db.l0 \subseteq Base.l0 /\ db.deep \subseteq Base.deep
            /\ edit.at # "append" => edit.state.l0 \subseteq Base.l0 /\ edit.state.deep \subseteq Base.deep
        BY <2>1 DEF DiskInv, BehindInv
      <3> QED
        BY <1>4, <2>1, <3>1 DEF BehindInv
    <2>2. CASE edit' # None /\ edit' # edit
      <3>1. edit'.at = "append" /\ db.l0 \subseteq Base.l0 /\ db.deep \subseteq Base.deep
        BY <2>2
      <3> QED
        BY <1>4, <2>2, <3>1 DEF BehindInv
    <2>3. CASE edit' = None
      BY <1>4, <2>3 DEF BehindInv
    <2> QED
      BY <2>1, <2>2, <2>3
  <1>12. CoversInv'
    <2>1. CASE edit' = None
      BY <2>1 DEF CoversInv
    <2>2. CASE edit' # None /\ edit' # edit
      <3>1. Covers(tables', edit')
        BY <2>2
      <3>2. \A r : InTables(tables', Files(db'), r) <=> InTables(tables, Files(db), r)
        BY <1>2, <1>5
      <3> QED
        BY <2>2, <3>1, <3>2 DEF Covers, CoversInv, Files
    <2>3. CASE edit' = edit /\ edit # None
      <3>1. \A r : InTables(tables', Files(edit.state), r) <=> InTables(tables, Files(edit.state), r)
        BY <1>3, <2>3, DiskKept
      <3>2. \A r : InTables(tables', Files(db'), r) <=> InTables(tables, Files(db), r)
        BY <1>2, <1>5
      <3> QED
        BY <2>3, <3>1, <3>2 DEF DiskInv, CoversInv, Files
    <2> QED
      BY <2>1, <2>2, <2>3
  <1>13. MergeInv'
    <2> SUFFICES ASSUME bg' # None
                 PROVE  /\ bg'.level0 \subseteq db'.l0 /\ bg'.below \subseteq db'.deep
                        /\ \A r : r \in tables'[bg'.out] <=> InTables(tables', bg'.level0 \cup bg'.below, r)
      BY DEF MergeInv
    <2>0. \A N, r : N \subseteq Files(db) => (InTables(tables', N, r) <=> InTables(tables, N, r))
      <3>1. \A N : N \subseteq Files(db) => KeepsTables(N)
        BY <1>3 DEF KeepsTables
      <3> QED
        BY <3>1, DiskKept
    <2>1. CASE bg' = bg
      <3>1. /\ bg.level0 \subseteq db.l0 /\ bg.below \subseteq db.deep
            /\ \A r : r \in tables[bg.out] <=> InTables(tables, bg.level0 \cup bg.below, r)
        BY <2>1 DEF DiskInv, MergeInv
      <3>2. bg.level0 \cup bg.below \subseteq Files(db) /\ tables'[bg.out] = tables[bg.out]
        BY <1>1, <2>1, <3>1 DEF Files
      <3>3. \A r : InTables(tables', bg.level0 \cup bg.below, r) <=> InTables(tables, bg.level0 \cup bg.below, r)
        BY <2>0, <3>2
      <3> QED
        BY <2>1, <3>1, <3>2, <3>3
    <2>2. CASE bg' # bg
      <3>1. /\ bg'.level0 \subseteq db.l0 /\ bg'.below \subseteq db.deep
            /\ \A r : r \in tables'[bg'.out] <=> InTables(tables, bg'.level0 \cup bg'.below, r)
        BY <2>2
      <3>2. bg'.level0 \cup bg'.below \subseteq Files(db)
        BY <3>1 DEF Files
      <3>3. \A r : InTables(tables', bg'.level0 \cup bg'.below, r) <=> InTables(tables, bg'.level0 \cup bg'.below, r)
        BY <2>0, <3>2
      <3> QED
        BY <3>1, <3>3
    <2> QED
      BY <2>1, <2>2
  <1>14. FirstInv'
    BY <1>4 DEF DiskInv, FirstInv, Lasts
  <1> QED
    BY <1>4, <1>6, <1>8, <1>9, <1>10, <1>11, <1>12, <1>13, <1>14 DEF DiskInv

\* Nothing a reader, the end of the process or a loss of power could show has changed.
Unseen ==
  /\ Safe' = Safe
  /\ \A r : Lasts(r)' <=> Lasts(r)
  /\ \A r : Seen(r)' <=> Seen(r)

\* A new table is one of its own.
LEMMA TableIsNew ==
  ASSUME IInv, DiskInv, db # None, NEW X, tables' = Put(tables, db.next, X)
  PROVE  /\ \A n \in DOMAIN tables : n < db.next => n \in DOMAIN tables' /\ tables'[n] = tables[n]
         /\ db.next \in DOMAIN tables' /\ tables'[db.next] = X
         /\ \A N, r : (\A n \in N : n < db.next) => (InTables(tables', N, r) <=> InTables(tables, N, r))
         /\ \A N, r : (\A n \in N : n < db.next) =>
              (InTables(tables', N \cup {db.next}, r) <=> InTables(tables, N, r) \/ r \in X)
  <1>1. db.next \in Nat
    BY OldTables
  <1>2. /\ DOMAIN tables' = DOMAIN tables \cup {db.next} /\ tables'[db.next] = X
        /\ \A n \in DOMAIN tables : n # db.next => tables'[n] = tables[n]
    BY DEF Put
  <1>3. \A n : n < db.next => n # db.next
    BY <1>1
  <1>4. \A N, r : (\A n \in N : n < db.next) => (InTables(tables', N, r) <=> InTables(tables, N, r))
    <2> TAKE N, r
    <2> SUFFICES ASSUME \A n \in N : n < db.next PROVE InTables(tables', N, r) <=> InTables(tables, N, r)
      OBVIOUS
    <2>1. \A n \in N : n # db.next /\ (n \in DOMAIN tables' <=> n \in DOMAIN tables)
      BY <1>2, <1>3
    <2> QED
      BY <1>2, <2>1 DEF InTables
  <1>5. \A N, r : InTables(tables', N \cup {db.next}, r) <=> InTables(tables', N, r) \/ r \in X
    BY <1>2 DEF InTables
  <1> QED
    BY <1>2, <1>3, <1>4, <1>5

\* imm is written to a table.
LEMMA DiskMemTable ==
  ASSUME IInv, IInv', DiskInv, ResultsStay, CompactMemTable
  PROVE  DiskInv' /\ Unseen
  <1>0. Core
    BY DEF IInv
  <1>1. /\ db # None /\ edit = None /\ db.imm # None /\ db.imm \in SUBSET Records
        /\ UNCHANGED <<logs, manifests, current, bg, group>>
        /\ db' # None /\ db'.next = db.next + 1 /\ db'.logfile = db.logfile
        /\ db'.l0 = db.l0 /\ db'.deep = db.deep /\ db'.log = db.log
        /\ db'.pending = db.pending /\ db'.mem = db.mem /\ db'.imm = db.imm
        /\ tables' = tables \/ tables' = Put(tables, db.next, db.imm)
        /\ \/ edit' = edit /\ db'.bgError
           \/ /\ Begun(edit', db') /\ edit'.owner = "flush"
              /\ edit'.state.log = db.logfile /\ db'.bgError = db.bgError
              /\ db.l0 \subseteq edit'.state.l0 /\ db.deep \subseteq edit'.state.deep
              /\ \/ Files(edit'.state) = Files(db) /\ db.imm = {}
                 \/ /\ Files(edit'.state) = Files(db) \cup {db.next}
                    /\ tables' = Put(tables, db.next, db.imm)
    BY <1>0, MemTableSteps
  <1>2. db.next \in Nat /\ \A n \in Files(db) : n < db.next
    BY <1>1, OldTables
  <1>3. \A n \in DOMAIN tables : n < db.next => n \in DOMAIN tables' /\ tables'[n] = tables[n]
    BY <1>1, TableIsNew
  <1>4. \A r : InTables(tables', Files(db), r) <=> InTables(tables, Files(db), r)
    BY <1>1, <1>2, TableIsNew
  <1>5. db.bgError => db'.bgError
    BY <1>1
  <1>6. edit' # None => \A r : InTables(tables', Files(edit'.state), r) <=>
                               InTables(tables, Files(db), r) \/ r \in db.imm
    <2>3. CASE edit' = edit
      BY <1>1, <2>3
    <2>4. CASE edit' # None /\ Files(edit'.state) = Files(db) /\ db.imm = {}
      BY <1>4, <2>4
    <2>5. CASE Files(edit'.state) = Files(db) \cup {db.next} /\ tables' = Put(tables, db.next, db.imm)
      BY <1>1, <1>2, <2>5, TableIsNew
    <2> QED
      BY <1>1, <2>3, <2>4, <2>5
  <1>7. edit' # None => Covers(tables', edit')
    <2> SUFFICES ASSUME edit' # None PROVE Covers(tables', edit')
      OBVIOUS
    <2>1. edit'.owner = "flush"
      BY <1>1
    <2> QED
      BY <1>1, <1>6, <2>1 DEF Covers
  <1>8. edit' # None \/ bg' # None => db.l0 \subseteq Base.l0 /\ db.deep \subseteq Base.deep
    <2>1. CASE bg # None
      BY <1>1, <2>1 DEF DiskInv, BehindInv
    <2>2. CASE bg = None /\ edit' # None
      <3>1. ~db.bgError
        BY <2>2 DEF CompactMemTable, MayWork
      <3> QED
        BY <1>1, <3>1 DEF IInv, BaseInv, Base
    <2> QED
      BY <1>1, <2>1, <2>2
  <1>9. edit' # None => edit'.owner # "open" /\ edit'.at = "append"
    BY <1>1 DEF Begun
  <1>10. \A r : NewRecord(r) => NewRecord(r)'
    BY <1>1 DEF NewRecord
  <1> QED
    BY <1>1, <1>3, <1>5, <1>7, <1>8, <1>9, <1>10, StoreWorks DEF Unseen

\* Tables start to be merged.
LEMMA DiskStart ==
  ASSUME IInv, IInv', DiskInv, ResultsStay, StartCompaction
  PROVE  DiskInv' /\ Unseen
  <1>1. /\ db # None /\ edit = None /\ ~db.bgError
        /\ UNCHANGED <<logs, manifests, current, edit, group>>
        /\ db' = [db EXCEPT !.next = @ + 1, !.pending = @ \cup {db.next}]
    BY DEF StartCompaction, MayWork, BackgroundIdle, client
  <1>2. PICK level0 \in SUBSET db.l0, below \in SUBSET db.deep :
          /\ bg' = [level0 |-> level0, below |-> below, out |-> db.next]
          /\ tables' = Put(tables, db.next, Contents(level0 \cup below))
    BY DEF StartCompaction
  <1>3. db \in Stores /\ db.next \in Nat
    BY <1>1, OldTables
  <1>4. /\ db'.l0 = db.l0 /\ db'.deep = db.deep /\ db'.log = db.log /\ db'.logfile = db.logfile
        /\ db'.mem = db.mem /\ db'.imm = db.imm /\ db'.bgError = db.bgError
    BY <1>1, <1>3 DEF Stores
  <1>4a. db' # None
    <2> DEFINE e == [db EXCEPT !.next = @ + 1]
               P == db.pending \cup {db.next}
    <2>1. e \in Stores /\ P \in SUBSET Nat
      BY <1>3, Numbered, Fields
    <2>2. db' = [e EXCEPT !.pending = P]
      BY <1>1, <1>3 DEF Stores
    <2>3. [e EXCEPT !.pending = P] \in Stores
      <3> HIDE DEF e, P
      <3> QED
        BY <2>1, PendingChanges
    <2> QED
      BY <2>2, <2>3, Fields
  <1>5. /\ \A n \in DOMAIN tables : n < db.next => n \in DOMAIN tables' /\ tables'[n] = tables[n]
        /\ tables'[db.next] = Contents(level0 \cup below)
    BY <1>1, <1>2, TableIsNew
  <1>6. \A r : r \in tables'[bg'.out] <=> InTables(tables, bg'.level0 \cup bg'.below, r)
    BY <1>2, <1>5 DEF Contents, InTables
  <1>7. db.l0 \subseteq Base.l0 /\ db.deep \subseteq Base.deep
    BY <1>1 DEF IInv, BaseInv, Base
  <1>8. \A r : NewRecord(r) => NewRecord(r)'
    BY <1>1 DEF NewRecord
  <1> QED
    BY <1>1, <1>2, <1>4, <1>4a, <1>5, <1>6, <1>7, <1>8, StoreWorks DEF Unseen

\* A table is to be moved down.
LEMMA DiskMove ==
  ASSUME IInv, IInv', DiskInv, ResultsStay, MoveTable
  PROVE  DiskInv' /\ Unseen
  <1>1. /\ db # None /\ bg = None /\ edit = None /\ ~db.bgError
        /\ UNCHANGED <<logs, tables, manifests, current, db, bg, group>>
        /\ edit'.at = "append" /\ edit'.owner = "move" /\ Files(edit'.state) = Files(db)
        /\ edit'.state.log = db.log
    BY MoveSteps DEF IInv, Begun
  <1>2. Covers(tables', edit')
    BY <1>1 DEF Covers
  <1>3. db.l0 \subseteq Base.l0 /\ db.deep \subseteq Base.deep
    BY <1>1 DEF IInv, BaseInv, Base
  <1>4. \A r : NewRecord(r) => NewRecord(r)'
    BY <1>1 DEF NewRecord
  <1> QED
    BY <1>1, <1>2, <1>3, <1>4, StoreWorks DEF Unseen

\* A merge is done or given up, an edit fails, or the background thread has nothing to do.
LEMMA DiskEnds ==
  ASSUME IInv, IInv', DiskInv, ResultsStay, FinishCompaction \/ NothingToDo \/ (EditFails /\ edit.owner # "open")
  PROVE  DiskInv' /\ Unseen
  <1>0. Core
    BY DEF IInv
  <1>1. /\ db # None /\ db' # None /\ UNCHANGED <<logs, tables, manifests, current, group>>
        /\ db'.l0 = db.l0 /\ db'.deep = db.deep /\ db'.log = db.log
        /\ db'.mem = db.mem /\ db'.imm = db.imm /\ db'.logfile = db.logfile
        /\ db.bgError => db'.bgError
        /\ bg' = bg \/ bg' = None
        /\ \/ db'.bgError /\ edit' = None /\ (bg' = bg => edit # None /\ edit.owner # "compaction")
           \/ NothingToDo /\ edit' = edit /\ db'.bgError = db.bgError
           \/ /\ bg # None /\ bg' = bg /\ db' = db /\ edit = None /\ Begun(edit', db) /\ edit'.owner = "compaction"
              /\ edit'.state.l0 = db.l0 \ bg.level0 /\ edit'.state.log = db.log
              /\ edit'.state.deep = (db.deep \ bg.below) \cup {bg.out}
    BY <1>0, EndsKeep
  <1>2. /\ edit # None => edit.owner \in {"flush", "compaction", "move"}
        /\ edit # None /\ edit.owner = "move" => bg = None
        /\ bg # None => bg.out \in DOMAIN tables
    BY <1>0, <1>1, OldTables DEF Core, StoreInv
  <1>3. edit' # None /\ edit' # edit =>
          /\ edit'.owner # "open" /\ edit'.at = "append"
          /\ Covers(tables', edit')
          /\ db.l0 \subseteq Base.l0 /\ db.deep \subseteq Base.deep
    <2> SUFFICES ASSUME edit' # None, edit' # edit
                 PROVE  /\ edit'.owner # "open" /\ edit'.at = "append"
                        /\ Covers(tables', edit')
                        /\ db.l0 \subseteq Base.l0 /\ db.deep \subseteq Base.deep
      OBVIOUS
    <2>1. /\ bg # None /\ db' = db /\ edit = None /\ Begun(edit', db) /\ edit'.owner = "compaction"
          /\ edit'.state.l0 = db.l0 \ bg.level0 /\ edit'.state.log = db.log
          /\ edit'.state.deep = (db.deep \ bg.below) \cup {bg.out}
      BY <1>1
    <2>2. \A n \in Files(edit'.state) : n \in Files(db) \/ n = bg.out
      BY <2>1 DEF Files
    <2>3. /\ bg.level0 \subseteq db.l0 /\ bg.below \subseteq db.deep
          /\ \A r : r \in tables[bg.out] <=> InTables(tables, bg.level0 \cup bg.below, r)
      BY <2>1 DEF DiskInv, MergeInv
    <2>4. \A n \in Files(db) : n \in Files(edit'.state) \/ n \in bg.level0 \cup bg.below
      BY <2>1 DEF Files
    <2>5. bg.out \in Files(edit'.state) /\ bg.level0 \cup bg.below \subseteq Files(db)
      BY <2>1, <2>3 DEF Files
    <2>6. \A r : InTables(tables, Files(db), r) => InTables(tables, Files(edit'.state), r)
      BY <1>2, <2>1, <2>3, <2>4, <2>5 DEF InTables
    <2>7. \A r : InTables(tables, Files(edit'.state), r) => InTables(tables, Files(db), r)
      BY <2>2, <2>3, <2>5 DEF InTables
    <2>8. Covers(tables', edit')
      BY <1>1, <2>1, <2>6, <2>7 DEF Covers
    <2>9. db.l0 \subseteq Base.l0 /\ db.deep \subseteq Base.deep
      BY <1>1, <2>1 DEF DiskInv, BehindInv
    <2> QED
      BY <2>1, <2>8, <2>9 DEF Begun
  <1>4. edit' = None /\ bg' # None => db.l0 \subseteq Base.l0 /\ db.deep \subseteq Base.deep
    <2> SUFFICES ASSUME edit' = None, bg' # None PROVE db.l0 \subseteq Base.l0 /\ db.deep \subseteq Base.deep
      OBVIOUS
    <2>1. CASE edit = None
      BY <1>1, <2>1 DEF DiskInv, BehindInv
    <2>2. CASE edit # None
      <3>1. edit.owner = "flush"
        BY <1>1, <1>2, <2>2
      <3>2. CASE edit.at = "append"
        BY <1>1, <2>2, <3>2 DEF DiskInv, BehindInv
      <3>3. CASE edit.at # "append"
        <4>1. edit.state.l0 \subseteq Base.l0 /\ edit.state.deep \subseteq Base.deep
          BY <1>1, <2>2, <3>3 DEF DiskInv, BehindInv
        <4>2. db.l0 \subseteq edit.state.l0 /\ db.deep \subseteq edit.state.deep
          BY <1>1, <2>2, <3>1 DEF DiskInv, CoversInv
        <4> QED
          BY <4>1, <4>2
      <3> QED
        BY <3>2, <3>3
    <2> QED
      BY <2>1, <2>2
  <1>5. \A r : NewRecord(r) => NewRecord(r)'
    BY <1>1 DEF NewRecord
  <1> QED
    BY <1>1, <1>3, <1>4, <1>5, StoreWorks DEF Unseen

\* Only threads move, or the store starts to close, or its last sequence number is taken.
LEMMA DiskQuiet ==
  ASSUME IInv, IInv', DiskInv, ResultsStay, db # None, db' # None, UNCHANGED <<disk, bg, edit>>,
         db'.l0 = db.l0, db'.deep = db.deep, db'.log = db.log, db'.logfile = db.logfile,
         db'.mem = db.mem, db'.imm = db.imm, db.bgError => db'.bgError,
         \A r : NewRecord(r) /\ InLog(logs, db.logfile, r) => NewRecord(r)' \/ db'.bgError
  PROVE  DiskInv' /\ Unseen
  <1>1. UNCHANGED <<logs, tables, manifests, current, bg, edit>>
    BY DEF disk
  <1>2. edit' = None /\ bg' # None => db.l0 \subseteq Base.l0 /\ db.deep \subseteq Base.deep
    BY <1>1 DEF DiskInv, BehindInv
  <1> QED
    BY <1>1, <1>2, StoreWorks DEF Unseen

-----------------------------------------------------------------------------
(* An edit is installed *)

\* The store once the edit is in.
LEMMA InstalledStore ==
  ASSUME Core, MemTableInstalled \/ CompactionInstalled \/ MoveInstalled
  PROVE  /\ db # None /\ edit # None /\ edit.at = "install" /\ edit' = None
         /\ db' # None /\ UNCHANGED <<current, group>>
         /\ db'.l0 = edit.state.l0 /\ db'.deep = edit.state.deep /\ db'.log = edit.state.log
         /\ db'.logfile = db.logfile /\ db'.mem = db.mem /\ db'.bgError = db.bgError
         /\ \/ edit.owner = "flush" /\ bg' = bg /\ db'.imm = None
            \/ edit.owner # "flush" /\ bg' = None /\ db'.imm = db.imm
         /\ \E d \in Stores :
              /\ DeleteObsoleteFiles(d) \/ UNCHANGED <<logs, tables, manifests>>
              /\ Files(d) = Files(edit.state) /\ d.log = edit.state.log
              /\ d.manifest = db.manifest /\ d.bgError = db.bgError
              /\ edit.owner = "flush" => d.pending = db.pending
  <1> DEFINE e == [db EXCEPT !.l0 = edit.state.l0, !.deep = edit.state.deep, !.log = edit.state.log]
             P == e.pending \ {bg.out}
             fields(d) ==
               /\ d \in Stores /\ d.l0 = edit.state.l0 /\ d.deep = edit.state.deep /\ d.log = edit.state.log
               /\ d.manifest = db.manifest /\ d.bgError = db.bgError
               /\ d.logfile = db.logfile /\ d.mem = db.mem
  <1>0. /\ edit # None /\ edit.owner # "open" /\ edit.at = "install" /\ edit' = None
        /\ UNCHANGED <<current, group>>
    BY DEF MemTableInstalled, CompactionInstalled, MoveInstalled, disk
  <1>1. db # None /\ db \in Stores /\ edit.state \in ManifestStates /\ db.pending \in SUBSET Nat
    BY <1>0, Fields DEF Core, StoreInv, StoreTypes
  <1>2. /\ edit.state.l0 \in SUBSET Nat /\ edit.state.deep \in SUBSET Nat /\ edit.state.log \in Nat
    BY <1>1, Fields
  <1>3. fields(e) /\ e.imm = db.imm /\ e.pending = db.pending
    BY <1>1, <1>2 DEF Stores
  <1>4. Installed(db) = e
    BY DEF Installed
  <1> HIDE DEF e
  <1>5. \E d \in Stores : /\ fields(d)
                          /\ DeleteObsoleteFiles(d) \/ UNCHANGED <<logs, tables, manifests>>
                          /\ db' \in {d, CallEnded(d)}
                          /\ \/ /\ edit.owner = "flush" /\ bg' = bg /\ d.imm = None /\ d.pending = db.pending
                             \/ edit.owner # "flush" /\ bg' = None /\ d.imm = db.imm
    <2>1. CASE MemTableInstalled
      <3> DEFINE d == [e EXCEPT !.imm = None]
      <3>1. fields(d) /\ d.imm = None /\ d.pending = db.pending
        BY <1>3 DEF Stores
      <3>2. /\ DeleteObsoleteFiles(d) /\ db' \in {d, CallEnded(d)} /\ edit.owner = "flush" /\ bg' = bg
        BY <1>4, <2>1 DEF MemTableInstalled
      <3> HIDE DEF d
      <3> QED
        BY <3>1, <3>2
    <2>2. CASE CompactionInstalled
      <3> DEFINE d == [e EXCEPT !.pending = P]
      <3>1. P \in SUBSET Nat /\ P \subseteq db.pending
        BY <1>1, <1>3
      <3>2. /\ DeleteObsoleteFiles(d) /\ db' \in {d, CallEnded(d)} /\ edit.owner = "compaction" /\ bg' = None
        BY <1>4, <2>2 DEF CompactionInstalled
      <3> HIDE DEF P
      <3>3. fields(d) /\ d.imm = db.imm /\ d.pending = P
        BY <1>3, <3>1 DEF Stores
      <3> HIDE DEF d
      <3> QED
        BY <3>1, <3>2, <3>3
    <2>3. CASE MoveInstalled
      <3>1. bg = None
        BY <2>3 DEF MoveInstalled, Core, StoreInv
      <3> QED
        BY <1>3, <1>4, <2>3, <3>1 DEF MoveInstalled, disk
    <2> QED
      BY <2>1, <2>2, <2>3
  <1>6. PICK d \in Stores : /\ fields(d)
                            /\ DeleteObsoleteFiles(d) \/ UNCHANGED <<logs, tables, manifests>>
                            /\ db' \in {d, CallEnded(d)}
                            /\ \/ /\ edit.owner = "flush" /\ bg' = bg /\ d.imm = None /\ d.pending = db.pending
                               \/ edit.owner # "flush" /\ bg' = None /\ d.imm = db.imm
    BY <1>5
  <1>7. SameButCall(d, CallEnded(d)) /\ CallEnded(d).bgError = d.bgError
    BY <1>6, Calls
  <1>8. SameButCall(d, db') /\ db'.bgError = d.bgError
    BY <1>6, <1>7 DEF SameButCall
  <1>9. db' # None /\ Files(d) = Files(edit.state)
    BY <1>6, <1>8, Fields DEF SameButCall, Files
  <1>10. /\ db'.l0 = edit.state.l0 /\ db'.deep = edit.state.deep /\ db'.log = edit.state.log
         /\ db'.logfile = db.logfile /\ db'.mem = db.mem
         /\ db'.bgError = db.bgError /\ db'.imm = d.imm
    BY <1>6, <1>8 DEF SameButCall
  <1> QED
    BY <1>0, <1>1, <1>6, <1>9, <1>10

\* The edit that is installed is what the manifest adds up to, as any loss of power leaves it.
LEMMA InstalledFound ==
  ASSUME IInv, db # None, edit # None, edit.at = "install"
  PROVE  /\ \A m \in PossibleStates : m = Base
         /\ Base.log = edit.state.log
         /\ ~db.bgError => Files(Base) = Files(edit.state)
  <1>1. edit.at # "append" /\ edit.at # "sync" /\ edit.manifest = current
    BY DEF IInv, Core, StoreInv, NumbersInv
  <1>2. /\ current \in DOMAIN manifests /\ manifests[current].synced = Len(manifests[current].recs)
        /\ Base.log = edit.state.log
    BY <1>1 DEF IInv, Core, EditInv, Base
  <1>3. manifests[current].recs \in Seq(ManifestStates)
    BY <1>2 DEF IInv, Core, FileTypes, FilesOf, File
  <1>4. \A m \in PossibleStates : m = Base
    <2> TAKE m \in PossibleStates
    <2>1. PICK i \in DOMAIN manifests[current].recs : i >= manifests[current].synced /\ m = manifests[current].recs[i]
      BY Possible
    <2>2. i = Len(manifests[current].recs)
      BY <1>2, <1>3, <2>1
    <2> QED
      BY <2>1, <2>2 DEF Last, Base
  <1>5. ~db.bgError => Files(Base) = Files(edit.state)
    BY <1>1 DEF IInv, BaseInv, Files, Base
  <1> QED
    BY <1>2, <1>4, <1>5

\* The edit becomes the store, and files are deleted: nobody sees the difference.
LEMMA DiskInstalled ==
  ASSUME IInv, IInv', DiskInv, ResultsStay, MemTableInstalled \/ CompactionInstalled \/ MoveInstalled
  PROVE  DiskInv' /\ Unseen
  <1>0. Core
    BY DEF IInv
  <1> DEFINE s == edit.state
  <1>1. /\ db # None /\ edit # None /\ edit.at = "install" /\ edit' = None
        /\ db' # None /\ UNCHANGED <<current, group>>
        /\ db'.l0 = s.l0 /\ db'.deep = s.deep /\ db'.log = s.log
        /\ db'.logfile = db.logfile /\ db'.mem = db.mem /\ db'.bgError = db.bgError
        /\ \/ edit.owner = "flush" /\ bg' = bg /\ db'.imm = None
           \/ edit.owner # "flush" /\ bg' = None /\ db'.imm = db.imm
    BY <1>0, InstalledStore
  <1>2. PICK d \in Stores :
              /\ DeleteObsoleteFiles(d) \/ UNCHANGED <<logs, tables, manifests>>
              /\ Files(d) = Files(s) /\ d.log = s.log
              /\ d.manifest = db.manifest /\ d.bgError = db.bgError
              /\ edit.owner = "flush" => d.pending = db.pending
    BY <1>0, InstalledStore
  <1>3. /\ \A m \in PossibleStates : m = Base
        /\ Base.log = s.log
        /\ ~db.bgError => Files(Base) = Files(s)
    BY <1>1, InstalledFound
  <1>4. /\ current # 0 /\ Base \in PossibleStates /\ Base \in ManifestStates
        /\ db \in Stores /\ db.next \in Nat /\ db.log \in Nat /\ db.logfile \in Nat /\ db.log <= db.logfile
        /\ Files(Base) \subseteq DOMAIN tables /\ Files(db) \subseteq DOMAIN tables
        /\ edit \in Edits /\ Files(s) \subseteq DOMAIN tables /\ \A n \in Files(s) : n < db.next
        /\ bg # None => bg \in Merges /\ bg.out \in DOMAIN tables
    BY <1>1, OldTables
  <1>5. /\ s \in ManifestStates /\ s.log \in Nat /\ s.log <= db.logfile
        /\ current = db.manifest /\ current \in DOMAIN manifests
    BY <1>1, <1>4, Fields DEF IInv, Core, NumbersInv, StoreInv
  <1>6. /\ \A n \in DOMAIN tables' : n \in DOMAIN tables /\ tables'[n] = tables[n]
        /\ \A n \in DOMAIN tables : n \in Files(s) \/ n \in d.pending \/ db.bgError => n \in DOMAIN tables'
        /\ \A n \in DOMAIN logs' : n \in DOMAIN logs /\ logs'[n] = logs[n]
        /\ \A n \in DOMAIN logs : n >= s.log => n \in DOMAIN logs'
        /\ manifests'[current] = manifests[current]
    <2>1. FileTypes
      BY <1>0 DEF Core
    <2>2. /\ DOMAIN tables' \subseteq DOMAIN tables /\ \A n \in DOMAIN tables' : tables'[n] = tables[n]
          /\ \A n \in DOMAIN tables : n \in Files(s) \/ n \in d.pending \/ db.bgError => n \in DOMAIN tables'
          /\ DOMAIN logs' \subseteq DOMAIN logs /\ \A n \in DOMAIN logs' : logs'[n] = logs[n]
          /\ \A n \in DOMAIN logs : n >= s.log => n \in DOMAIN logs'
          /\ \A n \in DOMAIN manifests' : manifests'[n] = manifests[n]
          /\ \A n \in DOMAIN manifests : n >= db.manifest => n \in DOMAIN manifests'
      BY <1>2, <2>1, FilesCollected
    <2>3. current \in Nat
      BY <1>0 DEF Core, StoreTypes
    <2> QED
      BY <1>5, <2>2, <2>3
  <1> HIDE DEF s
  <1>7. /\ KeepsTables(Files(s)) /\ KeepsTables(Files(Base)) /\ KeepsLogs(s.log)
    <2>1. KeepsTables(Files(s)) /\ KeepsLogs(s.log)
      BY <1>4, <1>6 DEF KeepsTables, KeepsLogs
    <2>2. CASE db.bgError
      <3>1. \A n \in DOMAIN tables : n \in DOMAIN tables'
        BY <1>6, <2>2, Zenon
      <3>2. Files(Base) \subseteq DOMAIN tables /\ \A n \in DOMAIN tables' : tables'[n] = tables[n]
        BY <1>4, <1>6
      <3> QED
        BY <2>1, <3>1, <3>2 DEF KeepsTables
    <2>3. CASE ~db.bgError
      BY <1>3, <2>1, <2>3
    <2> QED
      BY <2>1, <2>2, <2>3
  <1>8. /\ PossibleStates' = PossibleStates /\ Base' = Base
        /\ \A r : Lasts(r)' <=> Lasts(r)
        /\ Safe' = Safe
        /\ \A m \in PossibleStates' : \A r : OnDisk(tables', logs', m, r) => Lasts(r)'
        /\ \A m \in PossibleStates' : \A r : Lasts(r)' => OnDisk(tables', logs', m, r) \/ Unsure(r)'
    <2>1. \A m \in PossibleStates : KeepsTables(Files(m)) /\ KeepsLogs(m.log)
      BY <1>3, <1>7
    <2>2. current' = current /\ (current # 0 => manifests'[current] = manifests[current]) /\ SameInv
      BY <1>1, <1>6 DEF DiskInv
    <2> QED
      BY <1>4, <2>1, <2>2, StatesKept
  <1>9. /\ Files(db') = Files(s)
        /\ \A r : InTables(tables', Files(s), r) <=> InTables(tables, Files(s), r)
        /\ \A r : InLogs(logs', s.log, r) <=> InLogs(logs, s.log, r)
    BY <1>1, <1>7, DiskKept DEF Files
  <1>10. /\ \A r : InTables(tables, Files(db), r) => InTables(tables, Files(s), r)
         /\ \A r : InTables(tables, Files(s), r) =>
              InTables(tables, Files(db), r) \/ (edit.owner = "flush" /\ r \in db.imm)
         /\ edit.owner = "flush" =>
              /\ db.imm # None /\ s.log = db.logfile
              /\ db.l0 \subseteq s.l0 /\ db.deep \subseteq s.deep
              /\ \A r : r \in db.imm => InTables(tables, Files(s), r)
         /\ edit.owner # "flush" => s.log = db.log
    BY <1>1, <1>0 DEF DiskInv, CoversInv, s, Core, StoreInv
  <1>11. \A r : Seen(r)' <=> Seen(r)
    <2> TAKE r
    <2>1. Seen(r) <=> InMemory(db, r) \/ InTables(tables, Files(db), r)
      BY <1>1 DEF Seen
    <2>2. Seen(r)' <=> InMemory(db', r) \/ InTables(tables, Files(s), r)
      BY <1>1, <1>9 DEF Seen, Files
    <2> QED
      BY <1>1, <1>10, <2>1, <2>2 DEF InMemory
  <1>u. \A r : Unsure(r) => Unsure(r)'
    BY UnsureStays
  <1>12. SameInv'
    <2>1. \A r : OnDisk(tables, logs, s, r) => Lasts(r)
      <3>1. Files(s) \subseteq Files(Base)
        BY <1>1 DEF DiskInv, BehindInv, Files, s
      <3>2. \A r : InTables(tables, Files(s), r) => InTables(tables, Files(Base), r)
        BY <3>1, Among
      <3>3. \A r : OnDisk(tables, logs, s, r) => OnDisk(tables, logs, Base, r)
        BY <1>3, <3>2 DEF OnDisk
      <3> QED
        BY <1>4, <3>3 DEF DiskInv, SameInv
    <2>2. \A r : Lasts(r) => OnDisk(tables, logs, s, r) \/ Unsure(r)
      BY <1>1 DEF DiskInv, SameInv, s
    <2>3. \A r : OnDisk(tables', logs', db', r) <=> OnDisk(tables, logs, s, r)
      BY <1>1, <1>9 DEF OnDisk
    <2> QED
      BY <1>1, <1>8, <1>u, <2>1, <2>2, <2>3 DEF SameInv
  <1>13. MemInv'
    <2>1. /\ \A n \in DOMAIN logs : n <= db.logfile
          /\ \A r : Between(logs, db.log, db.logfile, r) => db.imm # None /\ r \in db.imm
          /\ \A r : db.imm # None /\ r \in db.imm => Between(logs, db.log, db.logfile, r) \/ Unsure(r)
          /\ \A r : r \in db.mem => InLog(logs, db.logfile, r) \/ Unsure(r)
          /\ \A r : InLog(logs, db.logfile, r) => r \in db.mem \/ db.bgError \/ NewRecord(r)
      BY <1>1 DEF DiskInv, MemInv
    <2>2. \A r : InLog(logs', db.logfile, r) <=> InLog(logs, db.logfile, r)
      BY <1>4, <1>5, <1>6 DEF InLog
    <2>3. \A r : Between(logs', s.log, db.logfile, r) <=> Between(logs, s.log, db.logfile, r)
      BY <1>6 DEF Between, InLog
    <2>4. \A r : /\ Between(logs', s.log, db.logfile, r) => db'.imm # None /\ r \in db'.imm
                 /\ db'.imm # None /\ r \in db'.imm => Between(logs', s.log, db.logfile, r) \/ Unsure(r)
      <3>1. CASE edit.owner = "flush"
        <4>1. \A n \in DOMAIN logs : n \in Nat
          BY <1>0 DEF Core, FileTypes, FilesOf
        <4>2. \A r : ~Between(logs, s.log, db.logfile, r)
          BY <1>4, <1>10, <3>1, <4>1 DEF Between
        <4> QED
          BY <1>1, <2>3, <3>1, <4>2
      <3>2. CASE edit.owner # "flush"
        BY <1>1, <1>10, <2>1, <2>3, <3>2
      <3> QED
        BY <1>1, <3>1, <3>2
    <2>5. \A n \in DOMAIN logs' : n <= db'.logfile
      BY <1>1, <1>6, <2>1
    <2>6. \A r : NewRecord(r)' <=> NewRecord(r)
      BY <1>1 DEF NewRecord
    <2> QED
      BY <1>1, <1>u, <2>1, <2>2, <2>4, <2>5, <2>6 DEF MemInv
  <1>14. LogsInv'
    BY <1>1, <1>3, <1>5, <1>8 DEF LogsInv
  <1>15. BehindInv'
    <2>1. s.l0 \subseteq Base.l0 /\ s.deep \subseteq Base.deep
      BY <1>1 DEF DiskInv, BehindInv, s
    <2> QED
      BY <1>1, <1>8, <2>1 DEF BehindInv
  <1>16. CoversInv'
    BY <1>1 DEF CoversInv
  <1>17. MergeInv'
    <2> SUFFICES ASSUME bg' # None
                 PROVE  /\ bg'.level0 \subseteq db'.l0 /\ bg'.below \subseteq db'.deep
                        /\ \A r : r \in tables'[bg'.out] <=> InTables(tables', bg'.level0 \cup bg'.below, r)
      BY DEF MergeInv
    <2>1. edit.owner = "flush" /\ bg' = bg
      BY <1>1
    <2>2. /\ bg.level0 \subseteq db.l0 /\ bg.below \subseteq db.deep
          /\ \A r : r \in tables[bg.out] <=> InTables(tables, bg.level0 \cup bg.below, r)
      BY <2>1 DEF DiskInv, MergeInv
    <2>3. bg.level0 \subseteq s.l0 /\ bg.below \subseteq s.deep
      BY <1>10, <2>1, <2>2
    <2>4. KeepsTables(bg.level0 \cup bg.below)
      <3>1. bg.level0 \cup bg.below \subseteq Files(s)
        BY <2>3 DEF Files
      <3> QED
        BY <1>7, <3>1 DEF KeepsTables
    <2>5. \A r : InTables(tables', bg.level0 \cup bg.below, r) <=> InTables(tables, bg.level0 \cup bg.below, r)
      BY <2>4, DiskKept
    <2>6. tables'[bg.out] = tables[bg.out]
      <3>1. bg.out \in db.pending /\ bg.out \in DOMAIN tables
        BY <1>0, <1>1, <2>1, StoreFacts
      <3> QED
        BY <1>2, <1>6, <2>1, <3>1
    <2> QED
      BY <1>1, <2>1, <2>2, <2>3, <2>5, <2>6
  <1>18. FirstInv'
    BY <1>1, <1>8 DEF DiskInv, FirstInv, Lasts
  <1> QED
    BY <1>8, <1>11, <1>12, <1>13, <1>14, <1>15, <1>16, <1>17, <1>18 DEF DiskInv, Unseen

-----------------------------------------------------------------------------
(* The manifest is written *)

\* What an edit makes of the last state of the manifest has its records, and none but those
\* and the unsure ones of a memtable; those that cannot be lost stay so.
LEMMA AppliedFound ==
  ASSUME IInv, DiskInv, edit # None, edit.owner # "open", edit.at = "append", NEW s, s = Applied(Base)
  PROVE  /\ s.log = edit.state.log
         /\ edit.state.l0 \subseteq s.l0 /\ edit.state.deep \subseteq s.deep
         /\ Files(s) \subseteq Files(edit.state) \cup Files(Base)
         /\ \A r : OnDisk(tables, logs, s, r) => Lasts(r) \/ (Seen(r) /\ Unsure(r))
         /\ \A r : Lasts(r) => OnDisk(tables, logs, s, r)
         /\ \A r : OnSynced(tables, logs, Base, r) => OnSynced(tables, logs, s, r)
  <1> DEFINE e == edit.state
  <1>1. /\ s.l0 = (Base.l0 \ (db.l0 \ e.l0)) \cup (e.l0 \ db.l0)
        /\ s.deep = (Base.deep \ (db.deep \ e.deep)) \cup (e.deep \ db.deep)
        /\ s.log = e.log
        /\ Base \in PossibleStates
        /\ Files(s) \subseteq Files(e) \cup Files(Base)
    BY AppliedState DEF IInv, Base
  <1>2. db # None
    BY DEF IInv, Core, StoreInv
  <1>3. db.l0 \subseteq Base.l0 /\ db.deep \subseteq Base.deep
    BY <1>2 DEF DiskInv, BehindInv
  <1>4. e.l0 \subseteq s.l0 /\ e.deep \subseteq s.deep
    BY <1>1, <1>3
  <1>5. /\ \A r : InTables(tables, Files(db), r) => InTables(tables, Files(e), r)
        /\ \A r : InTables(tables, Files(e), r) =>
             InTables(tables, Files(db), r) \/ (edit.owner = "flush" /\ r \in db.imm)
        /\ edit.owner = "flush" =>
             /\ db.imm # None /\ e.log = db.logfile
             /\ \A r : r \in db.imm => InTables(tables, Files(e), r)
        /\ edit.owner # "flush" => e.log = db.log
    BY DEF DiskInv, CoversInv
  <1>6. /\ \A r : OnDisk(tables, logs, Base, r) <=> Lasts(r)
        /\ \A r : OnDisk(tables, logs, db, r) => Lasts(r)
    <2>1. current # 0 /\ manifests[current].recs # <<>>
      BY DEF IInv, RisingInv
    <2> QED
      BY <1>2, <2>1, LastsOnDisk DEF DiskInv, SameInv, LastsAre
  <1>7. Files(e) \subseteq Files(s)
    BY <1>4 DEF Files
  <1>8. \A n \in Files(Base) : n \in Files(s) \/ n \in Files(db)
    BY <1>1 DEF Files
  <1>9. /\ db.log \in Nat /\ db.logfile \in Nat /\ db.log <= db.logfile
        /\ e.log \in Nat /\ Base.log \in Nat /\ db.log <= Base.log
        /\ \A n \in DOMAIN logs : n \in Nat
    <2>1. db.log <= Base.log
      BY <1>1, <1>2 DEF DiskInv, LogsInv
    <2>2. edit \in Edits /\ Base \in ManifestStates
      BY <1>2, OldTables
    <2>3. e.log \in Nat /\ Base.log \in Nat
      BY <2>2, Fields
    <2> QED
      BY <1>2, <2>1, <2>2, <2>3, OldTables DEF IInv, Core, FileTypes, FilesOf
  <1> HIDE DEF e
  <1>10. \A r : Between(logs, db.log, db.logfile, r) => InLogs(logs, db.log, r)
    BY <1>9, LogsSplit DEF IInv, Core, Types
  <1>11. \A r : OnDisk(tables, logs, s, r) => Lasts(r) \/ (Seen(r) /\ Unsure(r))
    <2> SUFFICES ASSUME NEW r, OnDisk(tables, logs, s, r), ~Lasts(r) PROVE Seen(r) /\ Unsure(r)
      OBVIOUS
    <2>1. ~InTables(tables, Files(db), r) /\ ~InLogs(logs, db.log, r) /\ ~InTables(tables, Files(Base), r)
      BY <1>6 DEF OnDisk
    <2>2. ~InLogs(logs, s.log, r)
      <3>1. db.log <= s.log
        BY <1>1, <1>5, <1>9
      <3> QED
        BY <1>1, <1>9, <2>1, <3>1 DEF InLogs
    <2>3. InTables(tables, Files(s), r)
      BY <2>2 DEF OnDisk
    <2>4. InTables(tables, Files(e), r)
      BY <1>1, <2>1, <2>3 DEF InTables
    <2>5. db.imm # None /\ r \in db.imm
      BY <1>5, <2>1, <2>4
    <2>6. Unsure(r)
      BY <1>2, <1>10, <2>1, <2>5 DEF DiskInv, MemInv
    <2> QED
      BY <1>2, <2>5, <2>6 DEF Seen, InMemory
  <1>12. \A r : InTables(tables, Files(Base), r) => InTables(tables, Files(s), r)
    <2> SUFFICES ASSUME NEW r, InTables(tables, Files(Base), r) PROVE InTables(tables, Files(s), r)
      OBVIOUS
    <2>1. InTables(tables, Files(s), r) \/ InTables(tables, Files(db), r)
      BY <1>8 DEF InTables
    <2>2. InTables(tables, Files(e), r) => InTables(tables, Files(s), r)
      BY <1>7, Among
    <2> QED
      BY <1>5, <2>1, <2>2
  <1>13. ASSUME NEW n \in DOMAIN logs, n >= Base.log, NEW r, InLog(logs, n, r)
         PROVE  InTables(tables, Files(s), r) \/ n >= s.log
    <2>1. CASE edit.owner # "flush"
      BY <1>1, <1>5, <1>9, <1>13, <2>1
    <2>2. CASE edit.owner = "flush" /\ ~(n >= s.log)
      <3>1. n \in Nat /\ db.log <= n /\ n < db.logfile
        BY <1>1, <1>5, <1>9, <1>13, <2>2
      <3>2. Between(logs, db.log, db.logfile, r)
        BY <1>13, <3>1 DEF Between
      <3>3. InTables(tables, Files(e), r)
        BY <1>2, <1>5, <2>2, <3>2 DEF DiskInv, MemInv
      <3> QED
        BY <1>7, <3>3, Among
    <2> QED
      BY <2>1, <2>2
  <1>14. \A r : Lasts(r) => OnDisk(tables, logs, s, r)
    BY <1>6, <1>12, <1>13 DEF OnDisk, InLogs, InLog
  <1>15. \A r : OnSynced(tables, logs, Base, r) => OnSynced(tables, logs, s, r)
    <2>1. ASSUME NEW n \in DOMAIN logs PROVE \A i \in 1 .. logs[n].synced : i \in DOMAIN logs[n].recs
      <3>1. File(logs[n], Records)
        BY DEF IInv, Core, FileTypes, FilesOf
      <3> QED
        BY <3>1 DEF File
    <2> QED
      BY <1>12, <1>13, <2>1 DEF OnSynced, InSynced, InLog
  <1> QED
    BY <1>1, <1>4, <1>11, <1>14, <1>15 DEF e

\* What LogAndApply does to the manifest, a reader does not see; recovery loses nothing by it,
\* and finds no more than unsure writes.
Hardens ==
  /\ Safe \subseteq Safe'
  /\ \A r : Lasts(r) => Lasts(r)'
  /\ \A r : Lasts(r)' => Lasts(r) \/ (Seen(r) /\ Unsure(r))
  /\ \A r : Seen(r)' <=> Seen(r)

\* A record comes to the manifest, or all of them are synced.
LEMMA ManifestMoves ==
  ASSUME IInv, IInv', DiskInv, ResultsStay,
         edit # None, UNCHANGED <<logs, tables, current, db, bg, group>>,
         edit' # None, edit'.state = edit.state, edit'.owner = edit.owner, edit'.at # "append",
         manifests'[current].recs # <<>>,
         \A m \in PossibleStates' : m \in PossibleStates \/ m = Base',
         \/ Base' = Base /\ (edit.at # "append" \/ edit.owner = "open")
         \/ edit.owner # "open" /\ edit.at = "append" /\ Base' = Applied(Base)
  PROVE  DiskInv' /\ Hardens
  <1> DEFINE new == edit.owner # "open" /\ edit.at = "append" /\ Base' = Applied(Base)
  <1>1. /\ current # 0 /\ manifests[current].recs # <<>>
        /\ Base \in PossibleStates /\ \A r : Lasts(r) <=> OnDisk(tables, logs, Base, r)
    BY LastsOnDisk DEF LastsAre, IInv, RisingInv
  <1>2. Base' \in PossibleStates' /\ \A r : Lasts(r)' <=> OnDisk(tables, logs, Base', r)
    <2>1. ~(current' = 0 \/ manifests'[current'].recs = <<>>)
      BY <1>1
    <2> QED
      BY <2>1, LastsOnDiskNext DEF LastsAre
  <1>3. new => /\ Base'.log = edit.state.log
               /\ edit.state.l0 \subseteq Base'.l0 /\ edit.state.deep \subseteq Base'.deep
               /\ Files(Base') \subseteq Files(edit.state) \cup Files(Base)
               /\ \A r : OnDisk(tables, logs, Base', r) => Lasts(r) \/ (Seen(r) /\ Unsure(r))
               /\ \A r : Lasts(r) => OnDisk(tables, logs, Base', r)
               /\ \A r : OnSynced(tables, logs, Base, r) => OnSynced(tables, logs, Base', r)
    BY AppliedFound
  <1>4. Base' = Base \/ new
    OBVIOUS
  <1> HIDE DEF new
  <1>u. \A r : Unsure(r) => Unsure(r)'
    BY UnsureStays
  <1>d. new => db # None
    BY DEF IInv, Core, StoreInv, new
  <1>5. /\ \A r : OnDisk(tables, logs, Base', r) => Lasts(r) \/ (new /\ Seen(r) /\ Unsure(r))
        /\ \A r : Lasts(r) => OnDisk(tables, logs, Base', r)
        /\ \A r : OnSynced(tables, logs, Base, r) => OnSynced(tables, logs, Base', r)
    BY <1>1, <1>3, <1>4
  <1>6. /\ \A r : Lasts(r) => Lasts(r)'
        /\ \A r : Lasts(r)' => Lasts(r) \/ (new /\ Seen(r) /\ Unsure(r))
    BY <1>2, <1>5
  <1>7. Safe \subseteq Safe'
    <2>1. \A k \in PossibleStates' : \E m \in PossibleStates :
            \A r : OnSynced(tables, logs, m, r) => OnSynced(tables', logs', k, r)
      <3> TAKE k \in PossibleStates'
      <3>1. CASE k \in PossibleStates
        BY <3>1
      <3>2. CASE k = Base'
        BY <1>1, <1>5, <3>2
      <3> QED
        BY <3>1, <3>2
    <2> QED
      BY <1>2, <2>1, SafeGrows
  <1>8. \A r : Seen(r)' <=> Seen(r)
    BY <1>6, <1>d DEF Seen
  <1>9. SameInv'
    <2>1. \A m \in PossibleStates : \A r : /\ OnDisk(tables, logs, m, r) => Lasts(r)'
                                           /\ Lasts(r)' => OnDisk(tables, logs, m, r) \/ Unsure(r)'
      BY <1>6, <1>u DEF DiskInv, SameInv
    <2>2. \A r : /\ OnDisk(tables, logs, edit.state, r) => Lasts(r)' \/ (edit.owner # "open" /\ Unsure(r)')
                 /\ Lasts(r)' => OnDisk(tables, logs, edit.state, r) \/ (edit.owner # "open" /\ Unsure(r)')
      BY <1>6, <1>u DEF DiskInv, SameInv, new
    <2>3. db # None => \A r : /\ OnDisk(tables, logs, db, r) => Lasts(r)'
                              /\ Lasts(r)' => OnDisk(tables, logs, db, r) \/ Unsure(r)'
      BY <1>6, <1>u DEF DiskInv, SameInv
    <2>4. \A m \in PossibleStates' : \A r : /\ OnDisk(tables, logs, m, r) => Lasts(r)'
                                            /\ Lasts(r)' => OnDisk(tables, logs, m, r) \/ Unsure(r)'
      BY <1>2, <2>1
    <2> QED
      BY <2>2, <2>3, <2>4 DEF SameInv
  <1>10. MemInv'
    BY <1>u DEF DiskInv, MemInv, NewRecord
  <1>12. LogsInv'
    <2>1. db # None => db.log <= edit.state.log /\ edit.state.log <= db.logfile
      BY DEF IInv, Core, NumbersInv, StoreInv
    <2>2. db # None => \A m \in PossibleStates' : db.log <= m.log /\ m.log <= db.logfile
      BY <1>1, <1>3, <1>4, <2>1 DEF DiskInv, LogsInv
    <2> QED
      BY <2>2 DEF DiskInv, LogsInv
  <1>13. BehindInv'
    <2>1. db # None => edit.state.l0 \subseteq Base'.l0 /\ edit.state.deep \subseteq Base'.deep
      <3> SUFFICES ASSUME db # None PROVE edit.state.l0 \subseteq Base'.l0 /\ edit.state.deep \subseteq Base'.deep
        OBVIOUS
      <3>1. edit.owner # "open"
        BY DEF IInv, Core, StoreInv
      <3>2. CASE Base' = Base /\ edit.at # "append"
        BY <3>2 DEF DiskInv, BehindInv
      <3> QED
        BY <1>3, <1>4, <3>1, <3>2 DEF new
    <2> QED
      BY <2>1 DEF BehindInv
  <1>14. CoversInv'
    BY DEF DiskInv, CoversInv, InTables, Files
  <1>15. MergeInv'
    BY DEF DiskInv, MergeInv, InTables
  <1>16. FirstInv'
    <2>1. current < 2 => ~new
      BY <1>d DEF IInv, Core, NumbersInv, StoreTypes
    <2> QED
      BY <1>6, <2>1 DEF DiskInv, FirstInv, Lasts
  <1> QED
    BY <1>6, <1>7, <1>8, <1>9, <1>10, <1>12, <1>13, <1>14, <1>15, <1>16 DEF DiskInv, Hardens


\* The edit is appended.
LEMMA DiskAppend ==
  ASSUME IInv, IInv', DiskInv, ResultsStay, AppendManifest
  PROVE  DiskInv' /\ Hardens
  <1>0. Core
    BY DEF IInv
  <1>1. /\ edit # None /\ edit.at = "append" /\ edit' = [edit EXCEPT !.at = "sync"]
        /\ UNCHANGED <<logs, tables, current, db, bg, group>>
    BY DEF AppendManifest, client
  <1>2. edit' # None /\ edit'.state = edit.state /\ edit'.owner = edit.owner /\ edit'.at = "sync"
    <2>1. edit \in Edits
      BY <1>0, <1>1 DEF Core, StoreTypes
    <2>2. edit' \in Edits /\ edit'.state = edit.state /\ edit'.owner = edit.owner /\ edit'.at = "sync"
      BY <1>1, <2>1 DEF Edits
    <2> QED
      BY <2>2, Fields
  <1>3. /\ edit.owner = "open" => PossibleStates' = PossibleStates /\ manifests'[current] = manifests[current]
        /\ edit.owner # "open" =>
              /\ Last(manifests'[current].recs) = Applied(Last(manifests[current].recs))
              /\ \A m \in PossibleStates' : m \in PossibleStates \/ m = Applied(Last(manifests[current].recs))
    BY <1>0, CoreAppend
  <1>4. CASE edit.owner = "open"
    <2>1. manifests[current].recs # <<>>
      BY <1>1 DEF IInv, RisingInv
    <2>2. Base' = Base /\ manifests'[current].recs # <<>>
      BY <1>1, <1>3, <1>4, <2>1 DEF Base
    <2> QED
      BY <1>1, <1>2, <1>3, <1>4, <2>2, ManifestMoves
  <1>5. CASE edit.owner # "open"
    <2>1. db # None
      BY <1>0, <1>1, <1>5 DEF Core, StoreInv
    <2>2. manifests'[current].recs # <<>>
      BY <1>1, <2>1, StoreHasStatesNext DEF IInv
    <2>3. Base' = Applied(Base)
      BY <1>1, <1>3, <1>5 DEF Base
    <2>4. \A m \in PossibleStates' : m \in PossibleStates \/ m = Base'
      BY <1>3, <1>5, <2>3 DEF Base
    <2> QED
      BY <1>1, <1>2, <1>5, <2>2, <2>3, <2>4, ManifestMoves
  <1> QED
    BY <1>4, <1>5

\* It is synced.
LEMMA DiskSync ==
  ASSUME IInv, IInv', DiskInv, ResultsStay, SyncManifest
  PROVE  DiskInv' /\ Hardens
  <1>0. Core
    BY DEF IInv
  <1>1. /\ edit # None /\ edit.at = "sync"
        /\ edit' = [edit EXCEPT !.at = IF edit.owner = "open" THEN "current" ELSE "install"]
        /\ UNCHANGED <<logs, tables, current, db, bg, group>>
    BY DEF SyncManifest, client
  <1>2. edit' # None /\ edit'.state = edit.state /\ edit'.owner = edit.owner /\ edit'.at # "append"
    <2>1. edit \in Edits
      BY <1>0, <1>1 DEF Core, StoreTypes
    <2>2. edit' \in Edits /\ edit'.state = edit.state /\ edit'.owner = edit.owner /\ edit'.at # "append"
      BY <1>1, <2>1 DEF Edits
    <2> QED
      BY <2>2, Fields
  <1>3. /\ PossibleStates' \subseteq PossibleStates
        /\ manifests'[current].recs = manifests[current].recs
    BY <1>0, CoreSync
  <1>4. manifests[current].recs # <<>>
    BY <1>1 DEF IInv, RisingInv
  <1>5. Base' = Base /\ manifests'[current].recs # <<>>
    BY <1>1, <1>3, <1>4 DEF Base
  <1> QED
    BY <1>1, <1>2, <1>3, <1>5, ManifestMoves

\* CURRENT names it: the state of the store that opens becomes the only one to be found.
LEMMA DiskNamed ==
  ASSUME IInv, IInv', DiskInv, ResultsStay, SetCurrentFile
  PROVE  DiskInv' /\ Hardens
  <1>0. Core /\ Core'
    BY DEF IInv
  <1> DEFINE s == edit.state
  <1>1. /\ edit # None /\ edit.at = "current" /\ edit' = [edit EXCEPT !.at = "install"]
        /\ current' = edit.manifest /\ UNCHANGED <<logs, tables, manifests, db, bg, group>>
    BY DEF SetCurrentFile, client
  <1>2. db = None /\ edit.owner = "open" /\ bg = None
    BY <1>0, <1>1 DEF Core, StoreInv
  <1>3. /\ edit \in Edits /\ edit' \in Edits /\ edit' # None
        /\ edit'.state = s /\ edit'.owner = edit.owner /\ edit'.at = "install"
        /\ s \in ManifestStates /\ s.next \in Nat /\ s.log \in Nat
    <2>1. edit \in Edits
      BY <1>0, <1>1 DEF Core, StoreTypes
    <2>2. edit' \in Edits /\ edit'.state = edit.state /\ edit'.owner = edit.owner /\ edit'.at = "install"
      BY <1>1, <2>1 DEF Edits
    <2> QED
      BY <2>1, <2>2, Fields
  <1>4. /\ manifests[edit.manifest].recs # <<>> /\ Last(manifests[edit.manifest].recs) = s
        /\ edit.manifest \in Nat /\ 1 < edit.manifest
    <2>1. 1 < current' /\ current' = edit.manifest
      BY <1>0, <1>1, <1>2, <1>3 DEF Core, NumbersInv
    <2> QED
      BY <1>0, <1>1, <1>2, <1>3, <2>1, Fields DEF Core, EditInv
  <1>5. Base' = s /\ current' # 0 /\ manifests'[current'].recs # <<>> /\ ~(current' < 2)
    BY <1>1, <1>4 DEF Base
  <1>6. Base' \in PossibleStates' /\ \A r : Lasts(r)' <=> OnDisk(tables, logs, s, r)
    BY <1>1, <1>5, LastsOnDiskNext DEF LastsAre
  <1>7. /\ current # 0 /\ Base \in PossibleStates
        /\ \A r : OnDisk(tables, logs, Base, r) => Lasts(r)
        /\ \A r : OnDisk(tables, logs, s, r) <=> Lasts(r)
    <2>1. current # 0 /\ manifests[current].recs # <<>>
      BY <1>1 DEF IInv, RisingInv
    <2> QED
      BY <1>1, <1>2, <2>1, LastsOnDisk DEF DiskInv, SameInv, LastsAre
  <1>8. \A r : Lasts(r)' <=> Lasts(r)
    BY <1>6, <1>7
  <1>9. \A m \in PossibleStates' : m = s
    <2>1. edit' # None /\ edit'.at # "append" /\ edit'.at # "sync" /\ edit'.manifest = current'
      BY <1>0, <1>2, <1>3 DEF Core, NumbersInv
    <2>2. /\ current' \in DOMAIN manifests /\ manifests[current'].synced = Len(manifests[current'].recs)
      BY <1>0, <1>1, <2>1 DEF Core, EditInv
    <2>3. manifests[current'].recs \in Seq(ManifestStates)
      BY <1>0, <2>2 DEF Core, FileTypes, FilesOf, File
    <2> TAKE m \in PossibleStates'
    <2>4. PICK i \in DOMAIN manifests[current'].recs : i >= manifests[current'].synced /\ m = manifests[current'].recs[i]
      BY <1>1, <1>5 DEF PossibleStates
    <2>5. i = Len(manifests[current'].recs)
      BY <2>2, <2>3, <2>4
    <2> QED
      BY <1>1, <1>4, <2>4, <2>5 DEF Last
  <1> HIDE DEF s
  <1>10. /\ \A n \in DOMAIN logs : n <= s.log
         /\ \A r : ~InLog(logs, s.log, r)
    BY <1>1, <1>2 DEF DiskInv, LogsInv, s
  <1>11. \A r : OnDisk(tables, logs, s, r) => InTables(tables, Files(s), r)
    <2>1. \A n \in DOMAIN logs : n \in Nat
      BY <1>0 DEF Core, FileTypes, FilesOf
    <2>2. \A n \in DOMAIN logs : n >= s.log => n = s.log
      BY <1>3, <1>10, <2>1 DEF s
    <2>3. \A r : ~InLogs(logs, s.log, r)
      BY <1>10, <2>2 DEF InLogs, InLog
    <2> QED
      BY <2>3 DEF OnDisk
  <1>12. Safe \subseteq Safe'
    <2>1. \A m, r : OnSynced(tables, logs, m, r) => OnDisk(tables, logs, m, r)
      <3>1. \A n \in DOMAIN logs : \A i \in 1 .. logs[n].synced : i \in DOMAIN logs[n].recs
        BY <1>0 DEF Core, FileTypes, FilesOf, File
      <3> QED
        BY <3>1 DEF OnSynced, OnDisk, InSynced, InLogs
    <2>2. \A r : OnSynced(tables, logs, Base, r) => OnSynced(tables, logs, s, r)
      BY <1>7, <1>11, <2>1 DEF OnSynced
    <2> QED
      BY <1>1, <1>6, <1>7, <1>9, <2>2, SafeGrows
  <1>13. \A r : Seen(r)' <=> Seen(r)
    BY <1>1, <1>2, <1>8 DEF Seen
  <1>14. SameInv'
    BY <1>1, <1>2, <1>3, <1>7, <1>8, <1>9 DEF SameInv
  <1>15. LogsInv'
    BY <1>1, <1>2, <1>3, <1>10 DEF LogsInv
  <1>16. MemInv' /\ BehindInv' /\ CoversInv' /\ MergeInv' /\ FirstInv'
    BY <1>1, <1>2, <1>3, <1>5 DEF MemInv, BehindInv, CoversInv, MergeInv, FirstInv
  <1> QED
    BY <1>8, <1>12, <1>13, <1>14, <1>15, <1>16 DEF DiskInv, Hardens

\* The states that may be found are states of a manifest.
LEMMA PossibleAre ==
  Core => PossibleStates \in SUBSET ManifestStates
  BY Possible

\* So they are after a step.
LEMMA PossibleNext ==
  (Core => PossibleStates \in SUBSET ManifestStates)'
  BY PossibleAre, PTL

\* LogAndApply fails in a store that opens: the new manifest is deleted.
LEMMA DiskOpenFails ==
  ASSUME IInv, IInv', DiskInv, ResultsStay, EditFails, edit.owner = "open"
  PROVE  DiskInv' /\ Unseen
  <1>0. Core
    BY DEF IInv
  <1>1. /\ edit # None /\ edit.at # "install" /\ edit' = None
        /\ manifests' = Without(manifests, {edit.manifest})
        /\ UNCHANGED <<logs, tables, current, db, bg, group>>
    BY DEF EditFails
  <1>2. db = None /\ bg = None
    BY <1>0, <1>1 DEF Core, StoreInv
  <1>3. current \in DOMAIN manifests /\ current # edit.manifest /\ current # 0
    <2>1. current # 0
      BY <1>1 DEF IInv, RisingInv
    <2>2. current \in Nat /\ current \in DOMAIN manifests /\ current < edit.manifest
      BY <1>0, <1>1, <2>1 DEF Core, NumbersInv, StoreTypes
    <2> QED
      BY <2>1, <2>2
  <1>4. manifests'[current] = manifests[current]
    BY <1>1, <1>3 DEF Without
  <1>5. \A m \in PossibleStates : KeepsTables(Files(m)) /\ KeepsLogs(m.log)
    BY <1>0, <1>1 DEF KeepsTables, KeepsLogs, Core, TablesInv
  <1>6. /\ PossibleStates' = PossibleStates /\ Base' = Base
        /\ \A r : Lasts(r)' <=> Lasts(r)
        /\ Safe' = Safe
        /\ \A m \in PossibleStates' : \A r : OnDisk(tables', logs', m, r) => Lasts(r)'
        /\ \A m \in PossibleStates' : \A r : Lasts(r)' => OnDisk(tables', logs', m, r) \/ Unsure(r)'
    BY <1>1, <1>3, <1>4, <1>5, StatesKept DEF DiskInv
  <1>7. SameInv'
    BY <1>1, <1>2, <1>6 DEF SameInv
  <1>8. FirstInv'
    BY <1>1, <1>6 DEF DiskInv, FirstInv, Lasts
  <1>9. MemInv' /\ LogsInv' /\ BehindInv' /\ CoversInv' /\ MergeInv'
    BY <1>1, <1>2 DEF MemInv, LogsInv, BehindInv, CoversInv, MergeInv
  <1>10. \A r : Seen(r)' <=> Seen(r)
    BY <1>1, <1>2, <1>6 DEF Seen
  <1> QED
    BY <1>6, <1>7, <1>8, <1>9, <1>10 DEF DiskInv, Unseen

\* The first manifest is written, or named: there is nothing to see.
LEMMA DiskNewDB ==
  ASSUME IInv, IInv', DiskInv, ResultsStay, NewDB
  PROVE  DiskInv' /\ Unseen
  <1>0. Core /\ Core'
    BY DEF IInv
  <1>1. /\ db = None /\ edit = None /\ current = 0 /\ UNCHANGED <<logs, tables, db, edit, bg, group>>
    BY DEF NewDB, client
  <1>2. /\ bg = None /\ DOMAIN logs = {}
        /\ \A n \in DOMAIN manifests : \A i \in DOMAIN manifests[n].recs : Files(manifests[n].recs[i]) = {}
    BY <1>0, <1>1 DEF Core, StoreInv, NumbersInv
  <1> DEFINE first == ManifestState(NoVersion, 0, 2, 0)
             one == Added(EmptyFile, first)
  <1>3. \/ manifests' = Put(manifests, 1, one) /\ current' = 0
        \/ current' = 1 /\ manifests' = manifests
    BY <1>1 DEF NewDB
  <1>4. \A n \in DOMAIN manifests' : Len(manifests'[n].recs) <= 1
    <2>0. \A n \in DOMAIN manifests : Len(manifests[n].recs) <= 1
      BY <1>1 DEF IInv, RisingInv
    <2>1. one.recs = <<first>>
      <3> HIDE DEF first
      <3> QED
        BY DEF Added, EmptyFile
    <2>2. Len(one.recs) <= 1
      <3> HIDE DEF one, first
      <3> QED
        BY <2>1
    <2>3. CASE manifests' = Put(manifests, 1, one)
      <3>1. \A n \in DOMAIN manifests' : (n = 1 /\ manifests'[n] = one) \/ (n \in DOMAIN manifests /\ manifests'[n] = manifests[n])
        <4> HIDE DEF one
        <4> QED
          BY <2>3 DEF Put
      <3> QED
        BY <2>0, <2>2, <3>1
    <2> QED
      BY <1>3, <2>0, <2>3
  <1> HIDE DEF one
  <1>5. \A r : ~Lasts(r)
    BY <1>1 DEF Lasts, Recoverable
  <1>6. \A m \in PossibleStates' : Files(m) = {} /\ m = Base'
    <2> TAKE m \in PossibleStates'
    <2>1. current' = 1 /\ manifests' = manifests
      BY <1>3 DEF PossibleStates
    <2>2. PICK i \in DOMAIN manifests[1].recs : m = manifests[1].recs[i]
      BY <2>1 DEF PossibleStates
    <2>3. 1 \in DOMAIN manifests /\ manifests[1].recs \in Seq(ManifestStates) /\ Len(manifests[1].recs) <= 1
      BY <1>0, <1>4, <2>1 DEF Core, NumbersInv, FileTypes, FilesOf, File
    <2>4. i = Len(manifests[1].recs)
      BY <2>2, <2>3
    <2> QED
      BY <1>2, <2>1, <2>2, <2>3, <2>4 DEF Base, Last
  <1>7. \A m \in PossibleStates' : \A r : ~OnDisk(tables', logs', m, r)
    BY <1>1, <1>2, <1>6 DEF OnDisk, InTables, InLogs
  <1>8. \A r : ~Lasts(r)'
    BY <1>7, LastsOnDiskNext DEF LastsAre
  <1>9. Safe = {} /\ Safe' = {}
    BY <1>5, <1>8 DEF Safe, Batches, Lasts
  <1>10. \A r : Seen(r)' <=> Seen(r)
    BY <1>1, <1>5, <1>8 DEF Seen
  <1>11. SameInv'
    BY <1>1, <1>7, <1>8 DEF SameInv
  <1>12. FirstInv'
    BY <1>8 DEF FirstInv, Lasts
  <1>13. MemInv' /\ LogsInv' /\ BehindInv' /\ CoversInv' /\ MergeInv'
    BY <1>1, <1>2 DEF MemInv, LogsInv, BehindInv, CoversInv, MergeInv
  <1> QED
    BY <1>5, <1>8, <1>9, <1>10, <1>11, <1>12, <1>13 DEF DiskInv, Unseen

-----------------------------------------------------------------------------
(* A store opens *)

\* A recovery that fails leaves tables nobody has.
LEMMA DiskOpenStops ==
  ASSUME IInv, IInv', DiskInv, ResultsStay, Open, edit' = None
  PROVE  DiskInv' /\ Unseen
  <1>0. Core /\ Types /\ BoundInv
    BY DEF IInv, Core, Types
  <1>1. PICK N \in SUBSET Nat :
          /\ db = None /\ edit = None /\ current # 0 /\ UNCHANGED <<logs, manifests, current, db, bg, edit>>
          /\ Base \in PossibleStates
          /\ DOMAIN tables' = DOMAIN tables \cup N
          /\ \A n \in DOMAIN tables' : n \notin N => tables'[n] = tables[n]
          /\ \A n \in N : Base.next < n
    BY <1>0, OpenFailed DEF Base
  <1>2. \A m \in PossibleStates : KeepsTables(Files(m)) /\ KeepsLogs(m.log)
    <2> TAKE m \in PossibleStates
    <2>1. m \in ManifestStates /\ Base \in ManifestStates
      BY <1>0, <1>1, PossibleAre
    <2>2. m.next \in Nat /\ Base.next \in Nat /\ Files(m) \in SUBSET Nat
      BY <2>1, Fields
    <2>3. /\ m.next <= Base.next /\ \A n \in Files(m) : n < m.next
          /\ Files(m) \subseteq DOMAIN tables
      BY DEF IInv, RisingInv, Rises, Within, Core, TablesInv
    <2>4. \A n \in Files(m) : n \notin N
      BY <1>1, <2>2, <2>3
    <2> QED
      BY <1>1, <2>3, <2>4 DEF KeepsTables, KeepsLogs
  <1>3. /\ PossibleStates' = PossibleStates
        /\ \A r : Lasts(r)' <=> Lasts(r)
        /\ Safe' = Safe
        /\ \A m \in PossibleStates' : \A r : OnDisk(tables', logs', m, r) => Lasts(r)'
        /\ \A m \in PossibleStates' : \A r : Lasts(r)' => OnDisk(tables', logs', m, r) \/ Unsure(r)'
    BY <1>1, <1>2, StatesKept DEF DiskInv
  <1>4. bg' = None
    BY <1>0, <1>1 DEF Core, StoreInv
  <1>5. SameInv' /\ MemInv' /\ LogsInv' /\ BehindInv' /\ CoversInv' /\ MergeInv'
    BY <1>1, <1>3, <1>4 DEF SameInv, MemInv, LogsInv, BehindInv, CoversInv, MergeInv
  <1>6. FirstInv'
    BY <1>1, <1>3 DEF DiskInv, FirstInv, Lasts
  <1>7. \A r : Seen(r)' <=> Seen(r)
    BY <1>1, <1>3 DEF Seen
  <1> QED
    BY <1>3, <1>5, <1>6, <1>7 DEF DiskInv, Unseen

\* Recovery writes the logs to tables: the state of its edit has what is recovered.
LEMMA DiskOpen ==
  ASSUME IInv, IInv', DiskInv, ResultsStay, Open, edit' # None
  PROVE  DiskInv' /\ Unseen
  <1>0. Core /\ Types /\ BoundInv
    BY DEF IInv, Core, Types
  <1>1. /\ db = None /\ edit = None /\ current # 0 /\ current \in DOMAIN manifests
        /\ Base \in ManifestStates /\ Base \in PossibleStates
        /\ UNCHANGED <<manifests, current, db, bg, group>>
    BY <1>0, Opened DEF Base
  <1>2. PICK a :
              /\ a = RecoverLogFiles(Base)
              /\ edit' \in Edits /\ edit' # None /\ edit'.at = "append" /\ edit'.owner = "open"
              /\ edit'.state \in ManifestStates
              /\ edit'.state.log = a.next /\ edit'.state.next = a.next + 1
              /\ Files(edit'.state) = Files(Base) \cup DOMAIN a.new
              /\ Files(Base) \subseteq DOMAIN tables
              /\ DOMAIN tables' = DOMAIN tables \cup DOMAIN a.new
              /\ \A n \in DOMAIN a.new : tables'[n] = a.new[n]
              /\ \A n \in DOMAIN tables \ DOMAIN a.new : tables'[n] = tables[n]
              /\ logs' = Put(logs, a.next, EmptyFile)
              /\ \A n \in DOMAIN logs : n < a.next
    <2>m. PICK m : m = Last(manifests[current].recs)
      OBVIOUS
    <2>0. PICK a :
          /\ a = RecoverLogFiles(m)
          /\ edit' \in Edits /\ edit' # None /\ edit'.at = "append" /\ edit'.owner = "open"
          /\ edit'.manifest = m.next /\ edit'.state \in ManifestStates
          /\ edit'.state.log = a.next /\ edit'.state.next = a.next + 1
          /\ Files(edit'.state) = Files(m) \cup DOMAIN a.new
          /\ Files(m) \subseteq DOMAIN tables
          /\ DOMAIN tables' = DOMAIN tables \cup DOMAIN a.new
          /\ \A n \in DOMAIN a.new : tables'[n] = a.new[n]
          /\ \A n \in DOMAIN tables \ DOMAIN a.new : tables'[n] = tables[n]
          /\ logs' = Put(logs, a.next, EmptyFile)
          /\ \A n \in DOMAIN logs : n < a.next
      <3>1. Types /\ Core /\ BoundInv /\ Open /\ edit' # None
        BY <1>0
      <3> QED
        BY <2>m, <3>1, Opened, Zenon
    <2>2. m = Base
      BY <2>m DEF Base
    <2> QED
      BY <2>0, <2>2
  <1> DEFINE s == edit'.state
             A == a.next
             N == DOMAIN a.new
  <1>3. /\ A \in Nat /\ Base.next < A
        /\ \A k \in N : Base.next < k /\ k <= A
        /\ \A r : (\E k \in N : r \in a.new[k]) <=> InLogs(logs, Base.log, r)
        /\ N \in SUBSET Nat
    BY <1>0, <1>1, <1>2, Recovered, RecoveredAll
  <1>4. Base.next \in Nat /\ Files(Base) \in SUBSET Nat /\ \A n \in DOMAIN logs : n \in Nat
    BY <1>0, <1>1, Fields DEF Core, FileTypes, FilesOf
  <1>5. \A m \in PossibleStates : m \in ManifestStates /\ m.next <= Base.next /\ \A n \in Files(m) : n < m.next
    BY <1>0, Possible DEF IInv, RisingInv, Rises, Within
  <1>6. \A m \in PossibleStates : \A n \in Files(m) : n \notin N /\ n \in DOMAIN tables
    <2> TAKE m \in PossibleStates
    <2>1. m.next \in Nat /\ Files(m) \in SUBSET Nat
      BY <1>5, Fields
    <2>2. Files(m) \subseteq DOMAIN tables
      BY <1>0 DEF Core, TablesInv
    <2> QED
      BY <1>3, <1>4, <1>5, <2>1, <2>2
  <1>7. A \notin DOMAIN logs
    BY <1>2, <1>3, <1>4
  <1>8. \A m \in PossibleStates : KeepsTables(Files(m)) /\ KeepsLogs(m.log)
    <2>1. \A m \in PossibleStates : KeepsTables(Files(m))
      BY <1>2, <1>6 DEF KeepsTables
    <2>2. \A k : KeepsLogs(k)
      BY <1>2, <1>7 DEF KeepsLogs, Put
    <2> QED
      BY <2>1, <2>2
  <1>9. /\ PossibleStates' = PossibleStates /\ Base' = Base
        /\ \A r : Lasts(r)' <=> Lasts(r)
        /\ Safe' = Safe
        /\ \A m \in PossibleStates' : \A r : OnDisk(tables', logs', m, r) => Lasts(r)'
        /\ \A m \in PossibleStates' : \A r : Lasts(r)' => OnDisk(tables', logs', m, r) \/ Unsure(r)'
    BY <1>1, <1>8, StatesKept DEF DiskInv
  <1>10. \A n \in DOMAIN logs' : n <= A /\ (n >= A => n = A)
    <2>1. DOMAIN logs' = DOMAIN logs \cup {A}
      BY <1>2 DEF Put
    <2> QED
      BY <1>2, <1>3, <1>4, <2>1
  <1>11. \A r : ~InLog(logs', A, r)
    <2>1. logs'[A] = EmptyFile
      BY <1>2 DEF Put
    <2> QED
      BY <2>1 DEF InLog, EmptyFile
  <1>12. \A r : OnDisk(tables', logs', s, r) <=> Lasts(r)
    <2>1. \A r : Lasts(r) <=> InTables(tables, Files(Base), r) \/ InLogs(logs, Base.log, r)
      <3>1. manifests[current].recs # <<>>
        BY DEF Open
      <3> QED
        BY <1>1, <3>1, LastsOnDisk DEF LastsAre, OnDisk
    <2>2. \A r : InTables(tables', Files(Base), r) <=> InTables(tables, Files(Base), r)
      BY <1>1, <1>8, DiskKept
    <2>3. \A r : InTables(tables', N, r) <=> \E k \in N : r \in a.new[k]
      BY <1>2 DEF InTables
    <2>4. \A r : InTables(tables', Files(s), r) <=> InTables(tables', Files(Base), r) \/ InTables(tables', N, r)
      BY <1>2 DEF InTables
    <2>5. \A r : ~InLogs(logs', A, r)
      BY <1>10, <1>11 DEF InLogs, InLog
    <2> QED
      BY <1>2, <1>3, <2>1, <2>2, <2>3, <2>4, <2>5 DEF OnDisk
  <1>13. SameInv'
    BY <1>1, <1>9, <1>12 DEF SameInv
  <1>14. LogsInv'
    BY <1>1, <1>2, <1>10, <1>11 DEF LogsInv
  <1>15. FirstInv'
    BY <1>1, <1>9 DEF DiskInv, FirstInv, Lasts
  <1>16. BehindInv' /\ CoversInv' /\ MergeInv' /\ MemInv'
    <2>1. bg = None
      BY <1>0, <1>1 DEF Core, StoreInv
    <2> QED
      BY <1>1, <1>2, <2>1 DEF BehindInv, CoversInv, MergeInv, MemInv
  <1>17. \A r : Seen(r)' <=> Seen(r)
    BY <1>1, <1>9 DEF Seen
  <1> QED
    BY <1>9, <1>13, <1>14, <1>15, <1>16, <1>17 DEF DiskInv, Unseen

\* The store is open: it has what recovery found.
LEMMA DiskOpenDone ==
  ASSUME IInv, IInv', DiskInv, ResultsStay, OpenDone
  PROVE  DiskInv' /\ Unseen
  <1>0. Core /\ Core'
    BY DEF IInv
  <1> DEFINE s == edit.state
  <1>1. /\ edit # None /\ edit.owner = "open" /\ edit.at = "install" /\ edit' = None
        /\ UNCHANGED <<current, bg, group>>
    BY DEF OpenDone, client
  <1>2. /\ \A k \in PossibleStates' : k = s
        /\ db' # None /\ Files(db') = Files(s) /\ db'.log = s.log
        /\ db'.mem = {} /\ db'.imm = None /\ db'.pending = {}
        /\ DOMAIN tables' \subseteq DOMAIN tables /\ \A n \in DOMAIN tables' : tables'[n] = tables[n]
        /\ \A n \in DOMAIN logs' : n \in DOMAIN logs /\ logs'[n] = logs[n]
        /\ db'.l0 = s.l0 /\ db'.deep = s.deep
        /\ db'.logfile = s.log /\ db'.next = s.next
        /\ Last(manifests'[current].recs) = s
        /\ \A n \in DOMAIN tables : n \in Files(s) => n \in DOMAIN tables'
        /\ \A n \in DOMAIN logs : n >= s.log => n \in DOMAIN logs'
    BY <1>0, CoreOpenDone
  <1>3. db = None /\ bg = None /\ edit \in Edits
    BY <1>0, <1>1 DEF Core, StoreInv, StoreTypes
  <1>4. /\ s \in ManifestStates /\ s.log \in Nat /\ s.next \in Nat
        /\ \A n \in DOMAIN logs : n \in Nat
    BY <1>0, <1>3, Fields DEF Core, FileTypes, FilesOf
  <1>5. /\ \A n \in DOMAIN logs : n <= s.log
        /\ \A r : ~InLog(logs, s.log, r)
        /\ \A r : OnDisk(tables, logs, s, r) <=> Lasts(r)
    BY <1>1 DEF DiskInv, LogsInv, SameInv
  <1>6. Base' = s
    BY <1>1, <1>2 DEF Base
  <1>7. Base \in PossibleStates /\ \A m \in PossibleStates : m = s
    <2>1. current # 0 /\ current = edit.manifest
      BY <1>0, <1>1 DEF Core, NumbersInv, IInv, RisingInv
    <2>2. /\ current \in DOMAIN manifests /\ manifests[current].recs # <<>>
          /\ manifests[current].synced = Len(manifests[current].recs) /\ Last(manifests[current].recs) = s
      BY <1>0, <1>1, <2>1 DEF Core, EditInv
    <2>3. Base \in PossibleStates
      BY <1>0, <2>1, <2>2, LastIsPossible DEF Base
    <2>4. manifests[current].recs \in Seq(ManifestStates)
      BY <1>0, <2>2 DEF Core, FileTypes, FilesOf, File
    <2> SUFFICES ASSUME NEW m \in PossibleStates PROVE m = s
      BY <2>3
    <2>5. PICK i \in DOMAIN manifests[current].recs : i >= manifests[current].synced /\ m = manifests[current].recs[i]
      BY Possible
    <2>6. i = Len(manifests[current].recs)
      BY <2>2, <2>4, <2>5
    <2> QED
      BY <2>2, <2>5, <2>6 DEF Last
  <1> HIDE DEF s
  <1>8. Base' \in PossibleStates' /\ \A r : Lasts(r)' <=> OnDisk(tables', logs', s, r)
    <2>1. current' # 0 /\ manifests'[current'].recs # <<>>
      BY <1>0, <1>2, StoreHasStatesNext
    <2> QED
      BY <1>6, <2>1, LastsOnDiskNext DEF LastsAre
  <1>9. KeepsTables(Files(s)) /\ KeepsLogs(s.log)
    <2>1. Files(s) \subseteq DOMAIN tables
      BY <1>0, <1>1 DEF Core, TablesInv, s
    <2> QED
      BY <1>2, <2>1 DEF KeepsTables, KeepsLogs
  <1>10. /\ \A r : OnDisk(tables', logs', s, r) <=> OnDisk(tables, logs, s, r)
         /\ \A r : OnSynced(tables', logs', s, r) <=> OnSynced(tables, logs, s, r)
         /\ \A r : InTables(tables', Files(s), r) <=> InTables(tables, Files(s), r)
    BY <1>9, DiskKept
  <1>11. \A r : Lasts(r)' <=> Lasts(r)
    BY <1>5, <1>8, <1>10
  <1>12. PossibleStates' = PossibleStates
    BY <1>2, <1>6, <1>7, <1>8
  <1>13. Safe' = Safe
    BY <1>7, <1>10, <1>12, SafeSame
  <1>14. \A r : ~InLogs(logs, s.log, r)
    <2>1. \A n \in DOMAIN logs : n >= s.log => n = s.log
      BY <1>4, <1>5
    <2> QED
      BY <1>5, <2>1 DEF InLogs, InLog
  <1>15. \A r : Seen(r)' <=> Seen(r)
    <2>1. \A r : Seen(r) <=> InTables(tables, Files(s), r)
      BY <1>3, <1>5, <1>14 DEF Seen, OnDisk
    <2>2. \A r : Seen(r)' <=> InTables(tables', Files(s), r)
      BY <1>2 DEF Seen, InMemory, Files
    <2> QED
      BY <1>10, <2>1, <2>2
  <1>16. \A r : OnDisk(tables', logs', db', r) <=> OnDisk(tables', logs', s, r)
    BY <1>2 DEF OnDisk
  <1>17. SameInv'
    BY <1>1, <1>2, <1>8, <1>16 DEF SameInv
  <1>18. MemInv'
    <2>1. \A n \in DOMAIN logs' : n <= s.log
      BY <1>2, <1>5
    <2>2. \A r : ~InLog(logs', s.log, r)
      BY <1>2, <1>5 DEF InLog
    <2>3. \A r : ~Between(logs', s.log, s.log, r)
      <3>1. \A n \in DOMAIN logs' : ~(s.log <= n /\ n < s.log)
        BY <1>2, <1>4
      <3> QED
        BY <3>1 DEF Between
    <2> QED
      BY <1>2, <2>1, <2>2, <2>3 DEF MemInv
  <1>19. LogsInv' /\ BehindInv' /\ CoversInv' /\ MergeInv'
    BY <1>1, <1>2, <1>3, <1>4 DEF LogsInv, BehindInv, CoversInv, MergeInv
  <1>20. FirstInv'
    <2>1. 1 < current' /\ current' \in Nat
      BY <1>0, <1>2 DEF Core, NumbersInv, StoreTypes
    <2> QED
      BY <1>1, <2>1 DEF FirstInv
  <1> QED
    BY <1>11, <1>13, <1>15, <1>17, <1>18, <1>19, <1>20 DEF DiskInv, Unseen

-----------------------------------------------------------------------------
(* Writers, and the logs *)

\* None is the null pointer, not a memtable.
NoMemTable == None \notin SUBSET Records

\* The log and the groups of a store.
LEMMA LastLog ==
  ASSUME IInv, DiskInv, db # None
  PROVE  /\ db.logfile \in DOMAIN logs /\ File(logs[db.logfile], Records) /\ db.next \notin DOMAIN logs
         /\ \A n \in DOMAIN logs : n \in Nat /\ n < db.next /\ n <= db.logfile
         /\ \A m \in PossibleStates : m.log \in Nat /\ m.log <= db.logfile
         /\ edit # None => edit.state.log \in Nat /\ edit.state.log <= db.logfile
  <1>1. /\ db.logfile \in DOMAIN logs /\ \A n \in DOMAIN logs : n \in Nat /\ n < db.next /\ File(logs[n], Records)
    BY DEF IInv, Core, NumbersInv, FileTypes, FilesOf
  <1>2. db.next \in Nat /\ \A m \in PossibleStates : m \in ManifestStates
    BY OldTables
  <1>3. \A n \in DOMAIN logs : n <= db.logfile
    BY DEF DiskInv, MemInv
  <1>4. \A m \in PossibleStates : m.log \in Nat /\ m.log <= db.logfile
    BY <1>2, Fields DEF DiskInv, LogsInv
  <1>5. edit # None => edit.state.log \in Nat /\ edit.state.log <= db.logfile
    <2> SUFFICES ASSUME edit # None PROVE edit.state.log \in Nat /\ edit.state.log <= db.logfile
      OBVIOUS
    <2>1. edit \in Edits /\ edit.owner # "open"
      BY OldTables
    <2>2. edit.state \in ManifestStates
      BY <2>1, Fields
    <2> QED
      BY <2>1, <2>2, Fields DEF IInv, Core, NumbersInv
  <1>6. db.next \notin DOMAIN logs
    BY <1>1, <1>2
  <1> QED
    BY <1>1, <1>3, <1>4, <1>5, <1>6

\* The memtable becomes imm, and a new log begins.
LEMMA DiskSwitch ==
  ASSUME NoMemTable, IInv, IInv', DiskInv, ResultsStay, db # None, db.imm = None, ~db.bgError, group = None,
         logs' = Put(logs, db.next, EmptyFile), db' = Scheduled(Switch(db)),
         UNCHANGED <<tables, manifests, current, bg, edit>>
  PROVE  DiskInv' /\ Unseen
  <1>0. Core
    BY DEF IInv
  <1>1. /\ current # 0 /\ Base \in PossibleStates /\ Base \in ManifestStates
        /\ db \in Stores /\ db.next \in Nat /\ db.log \in Nat /\ db.logfile \in Nat /\ db.log <= db.logfile
        /\ \A m \in PossibleStates : m \in ManifestStates /\ Files(m) \subseteq DOMAIN tables
        /\ Files(db) \subseteq DOMAIN tables /\ \A n \in Files(db) : n < db.next
        /\ edit # None => /\ edit \in Edits /\ Files(edit.state) \subseteq DOMAIN tables
                          /\ edit.owner \in {"flush", "compaction", "move"}
    BY OldTables
  <1>2. /\ db' # None /\ db'.next = db.next + 1 /\ db'.logfile = db.next
        /\ db'.l0 = db.l0 /\ db'.deep = db.deep /\ db'.log = db.log
        /\ db'.pending = db.pending /\ db'.mem = {} /\ db'.imm = db.mem
    BY <1>1, Switched
  <1>3. db.mem \in SUBSET Records /\ db.mem # None
    BY <1>1, Fields DEF NoMemTable
  <1>4. /\ db.logfile \in DOMAIN logs /\ db.next \notin DOMAIN logs
        /\ \A n \in DOMAIN logs : n \in Nat /\ n < db.next /\ n <= db.logfile
        /\ \A m \in PossibleStates : m.log \in Nat /\ m.log <= db.logfile
    BY LastLog
  <1>5. \A N : N \subseteq DOMAIN tables => KeepsTables(N)
    BY DEF KeepsTables
  <1>6. \A k : KeepsLogs(k)
    BY <1>4 DEF KeepsLogs, Put
  <1>7. /\ PossibleStates' = PossibleStates /\ Base' = Base
        /\ \A r : Lasts(r)' <=> Lasts(r)
        /\ Safe' = Safe
        /\ \A m \in PossibleStates' : \A r : OnDisk(tables', logs', m, r) => Lasts(r)'
        /\ \A m \in PossibleStates' : \A r : Lasts(r)' => OnDisk(tables', logs', m, r) \/ Unsure(r)'
    BY <1>1, <1>5, <1>6, StatesKept DEF DiskInv
  <1>u. \A r : Unsure(r) => Unsure(r)'
    BY UnsureStays
  <1>8. Files(db') = Files(db)
    BY <1>2 DEF Files
  <1>9. \A r : Seen(r)' <=> Seen(r)
    BY <1>2, <1>3, <1>8 DEF Seen, InMemory, Files
  <1>10. SameInv'
    <2>1. edit' # None => \A r : OnDisk(tables', logs', edit'.state, r) <=> OnDisk(tables, logs, edit.state, r)
      BY <1>1, <1>5, <1>6, DiskKept
    <2>2. \A r : OnDisk(tables', logs', db', r) <=> OnDisk(tables, logs, db, r)
      <3>1. \A r : OnDisk(tables', logs', db, r) <=> OnDisk(tables, logs, db, r)
        BY <1>1, <1>5, <1>6, DiskKept
      <3> QED
        BY <1>2, <1>8, <3>1 DEF OnDisk
    <2>3. edit' # None => \A r : /\ OnDisk(tables', logs', edit'.state, r) => Lasts(r)' \/ (edit'.owner # "open" /\ Unsure(r)')
                                 /\ Lasts(r)' => OnDisk(tables', logs', edit'.state, r) \/ (edit'.owner # "open" /\ Unsure(r)')
      <3> SUFFICES ASSUME edit # None, NEW r
                   PROVE  /\ OnDisk(tables', logs', edit'.state, r) => Lasts(r)' \/ (edit'.owner # "open" /\ Unsure(r)')
                          /\ Lasts(r)' => OnDisk(tables', logs', edit'.state, r) \/ (edit'.owner # "open" /\ Unsure(r)')
        OBVIOUS
      <3>1. /\ OnDisk(tables, logs, edit.state, r) => Lasts(r) \/ (edit.owner # "open" /\ Unsure(r))
            /\ Lasts(r) => OnDisk(tables, logs, edit.state, r) \/ (edit.owner # "open" /\ Unsure(r))
        BY DEF DiskInv, SameInv
      <3> QED
        BY <1>7, <1>u, <2>1, <3>1
    <2>4. \A r : /\ OnDisk(tables', logs', db', r) => Lasts(r)'
                 /\ Lasts(r)' => OnDisk(tables', logs', db', r) \/ Unsure(r)'
      <3>1. \A r : /\ OnDisk(tables, logs, db, r) => Lasts(r)
                   /\ Lasts(r) => OnDisk(tables, logs, db, r) \/ Unsure(r)
        BY DEF DiskInv, SameInv
      <3> QED
        BY <1>7, <1>u, <2>2, <3>1
    <2> QED
      BY <1>7, <2>3, <2>4 DEF SameInv
  <1>11. MemInv'
    <2>1. DOMAIN logs' = DOMAIN logs \cup {db.next} /\ logs'[db.next] = EmptyFile /\ \A n \in DOMAIN logs : logs'[n] = logs[n]
      BY <1>4 DEF Put
    <2>2. \A n \in DOMAIN logs' : n <= db.next
      BY <1>1, <1>4, <2>1
    <2>3. \A r : ~InLog(logs', db.next, r)
      BY <2>1 DEF InLog, EmptyFile
    <2>4. \A r : Between(logs', db.log, db.next, r) <=> Between(logs, db.log, db.logfile, r) \/ InLog(logs, db.logfile, r)
      <3> TAKE r
      <3>1. \A n : n \in DOMAIN logs => (InLog(logs', n, r) <=> InLog(logs, n, r))
        BY <2>1 DEF InLog
      <3>2. ASSUME Between(logs', db.log, db.next, r) PROVE Between(logs, db.log, db.logfile, r) \/ InLog(logs, db.logfile, r)
        <4>1. PICK n \in DOMAIN logs' : db.log <= n /\ n < db.next /\ InLog(logs', n, r)
          BY <3>2 DEF Between
        <4>2. n \in DOMAIN logs
          BY <1>1, <2>1, <4>1
        <4>3. n = db.logfile \/ n < db.logfile
          BY <1>1, <1>4, <4>2
        <4> QED
          BY <3>1, <4>1, <4>2, <4>3 DEF Between
      <3>3. ASSUME Between(logs, db.log, db.logfile, r) PROVE Between(logs', db.log, db.next, r)
        <4>1. PICK n \in DOMAIN logs : db.log <= n /\ n < db.logfile /\ InLog(logs, n, r)
          BY <3>3 DEF Between
        <4> QED
          BY <1>4, <2>1, <3>1, <4>1 DEF Between
      <3>4. ASSUME InLog(logs, db.logfile, r) PROVE Between(logs', db.log, db.next, r)
        BY <1>1, <1>4, <2>1, <3>1, <3>4 DEF Between
      <3> QED
        BY <3>2, <3>3, <3>4
    <2>5. \A r : Between(logs', db.log, db.next, r) => r \in db.mem
      BY <2>4 DEF DiskInv, MemInv, NewRecord
    <2>6. \A r : r \in db.mem => Between(logs', db.log, db.next, r) \/ Unsure(r)'
      BY <1>u, <2>4 DEF DiskInv, MemInv
    <2> QED
      BY <1>2, <1>3, <2>2, <2>3, <2>5, <2>6 DEF MemInv
  <1>12. LogsInv'
    <2>1. \A m \in PossibleStates' : db.log <= m.log /\ m.log <= db.next
      BY <1>1, <1>4, <1>7 DEF DiskInv, LogsInv
    <2> QED
      BY <1>1, <1>2, <2>1 DEF LogsInv
  <1>13. BehindInv'
    BY <1>2, <1>7 DEF DiskInv, BehindInv
  <1>14. CoversInv'
    <2>1. edit # None => edit.owner # "flush"
      BY <1>1 DEF DiskInv, CoversInv
    <2> QED
      BY <1>2, <1>8, <2>1 DEF DiskInv, CoversInv, InTables, Files
  <1>15. MergeInv'
    BY <1>2 DEF DiskInv, MergeInv, InTables
  <1>17. FirstInv'
    BY <1>7 DEF DiskInv, FirstInv, Lasts
  <1> QED
    BY <1>7, <1>9, <1>10, <1>11, <1>12, <1>13, <1>14, <1>15, <1>17 DEF DiskInv, Unseen

\* The record of the group comes to the log: that is what recovery would find more.
LEMMA DiskAdd ==
  ASSUME IInv, IInv', DiskInv, ResultsStay, db # None, group # None, group.record \in Records,
         logs' = [logs EXCEPT ![db.logfile] = Added(@, group.record)],
         UNCHANGED <<tables, manifests, current, bg, edit, db, group>>
  PROVE  /\ DiskInv' /\ Safe' = Safe
         /\ \A r : Lasts(r)' <=> Lasts(r) \/ r = group.record
         /\ \A r : Seen(r)' <=> Seen(r)
         /\ InLog(logs', db.logfile, group.record)
  <1> DEFINE k == db.logfile
             new == group.record
  <1>1. /\ current # 0 /\ Base \in PossibleStates
        /\ db.log \in Nat /\ k \in Nat /\ db.log <= k
    BY OldTables
  <1>2. /\ k \in DOMAIN logs /\ File(logs[k], Records)
        /\ \A n \in DOMAIN logs : n \in Nat /\ n <= k
        /\ \A m \in PossibleStates : m.log \in Nat /\ m.log <= k
        /\ edit # None => edit.state.log \in Nat /\ edit.state.log <= k
    BY LastLog
  <1>3. /\ DOMAIN logs' = DOMAIN logs /\ \A n \in DOMAIN logs : n # k => logs'[n] = logs[n]
        /\ logs'[k] = Added(logs[k], new)
    BY <1>2
  <1>4. /\ logs[k].recs \in Seq(Records) /\ logs'[k].recs = Append(logs[k].recs, new)
        /\ logs'[k].synced = logs[k].synced /\ logs[k].synced \in Nat /\ logs[k].synced <= Len(logs[k].recs)
    BY <1>2, <1>3 DEF File, Added
  <1> HIDE DEF k, new
  <1>5. \A r : (\E i \in DOMAIN logs'[k].recs : r = logs'[k].recs[i]) <=> (\E i \in DOMAIN logs[k].recs : r = logs[k].recs[i]) \/ r = new
    <2> DEFINE s == logs[k].recs
               a == logs'[k].recs
    <2>1. new \in Records /\ s \in Seq(Records) /\ a = Append(s, new)
      BY <1>4 DEF new
    <2> HIDE DEF s, a
    <2>2. /\ DOMAIN a = DOMAIN s \cup {Len(s) + 1}
          /\ a[Len(s) + 1] = new
          /\ \A i \in DOMAIN s : a[i] = s[i]
      BY <2>1
    <2>3. \A r : (\E i \in DOMAIN a : r = a[i]) <=> (\E i \in DOMAIN s : r = s[i]) \/ r = new
      BY <2>2
    <2> QED
      BY <2>3 DEF s, a
  <1>6. \A n, r : InLog(logs', n, r) <=> InLog(logs, n, r) \/ (n = k /\ r = new)
    BY <1>2, <1>3, <1>5 DEF InLog
  <1>7. \A j, r : j \in Nat /\ j <= k => (InLogs(logs', j, r) <=> InLogs(logs, j, r) \/ r = new)
    <2>1. \A L, j, r : InLogs(L, j, r) <=> \E n \in DOMAIN L : n >= j /\ InLog(L, n, r)
      BY DEF InLogs, InLog
    <2>2. k \in Nat
      BY <1>1 DEF k
    <2> QED
      BY <1>2, <1>3, <1>6, <2>1, <2>2
  <1>8. \A j, r : InSynced(logs', j, r) <=> InSynced(logs, j, r)
    <2>1. \A i \in 1 .. logs[k].synced : logs'[k].recs[i] = logs[k].recs[i]
      <3> DEFINE s == logs[k].recs
      <3>1. new \in Records /\ s \in Seq(Records) /\ logs[k].synced \in Nat /\ logs[k].synced <= Len(s)
        BY <1>4 DEF new
      <3> HIDE DEF s
      <3>2. \A i \in 1 .. logs[k].synced : Append(s, new)[i] = s[i]
        BY <3>1
      <3> QED
        BY <1>4, <3>2 DEF s
    <2>2. \A n \in DOMAIN logs : /\ logs'[n].synced = logs[n].synced
                                 /\ \A i \in 1 .. logs[n].synced : logs'[n].recs[i] = logs[n].recs[i]
      BY <1>3, <1>4, <2>1
    <2> HIDE DEF k
    <2> SUFFICES ASSUME NEW j, NEW r PROVE InSynced(logs', j, r) <=> InSynced(logs, j, r)
      OBVIOUS
    <2>3. DOMAIN logs' = DOMAIN logs
      BY <1>3
    <2>4. ASSUME InSynced(logs', j, r) PROVE InSynced(logs, j, r)
      <3>1. PICK n \in DOMAIN logs : n >= j /\ \E i \in 1 .. logs'[n].synced : r = logs'[n].recs[i]
        BY <2>3, <2>4 DEF InSynced
      <3>2. \E i \in 1 .. logs[n].synced : r = logs[n].recs[i]
        BY <2>2, <3>1
      <3> QED
        BY <3>1, <3>2 DEF InSynced
    <2>5. ASSUME InSynced(logs, j, r) PROVE InSynced(logs', j, r)
      <3>1. PICK n \in DOMAIN logs : n >= j /\ \E i \in 1 .. logs[n].synced : r = logs[n].recs[i]
        BY <2>5 DEF InSynced
      <3>2. \E i \in 1 .. logs'[n].synced : r = logs'[n].recs[i]
        BY <2>2, <3>1
      <3> QED
        BY <2>3, <3>1, <3>2 DEF InSynced
    <2> QED
      BY <2>4, <2>5
  <1>9. \A m, r : m.log \in Nat /\ m.log <= k => (OnDisk(tables', logs', m, r) <=> OnDisk(tables, logs, m, r) \/ r = new)
    BY <1>7 DEF OnDisk
  <1>10. PossibleStates' = PossibleStates /\ Base' = Base
    BY DEF PossibleStates, Base
  <1>11. Safe' = Safe
    <2>1. \A m, r : OnSynced(tables', logs', m, r) <=> OnSynced(tables, logs, m, r)
      BY <1>8 DEF OnSynced
    <2> QED
      BY <1>10, <2>1, SafeSame
  <1>12. \A r : Lasts(r)' <=> Lasts(r) \/ r = new
    <2>1. manifests[current].recs # <<>>
      BY <1>1 DEF PossibleStates
    <2>2. \A r : Lasts(r)' <=> OnDisk(tables', logs', Base', r)
      BY <1>1, <2>1, LastsOnDiskNext DEF LastsAre
    <2>3. \A r : Lasts(r) <=> OnDisk(tables, logs, Base, r)
      BY <1>1, <2>1, LastsOnDisk DEF LastsAre
    <2> QED
      BY <1>1, <1>2, <1>9, <1>10, <2>2, <2>3
  <1>13. \A r : Seen(r)' <=> Seen(r)
    BY DEF Seen, InMemory, InTables, Files
  <1>u. \A r : Unsure(r) => Unsure(r)'
    BY UnsureStays
  <1>14. SameInv'
    <2>1. db.log \in Nat /\ db.log <= k
      BY <1>1 DEF k
    <2>2. /\ \A m \in PossibleStates : \A r : /\ OnDisk(tables, logs, m, r) => Lasts(r)
                                              /\ Lasts(r) => OnDisk(tables, logs, m, r) \/ Unsure(r)
          /\ edit # None => \A r : /\ OnDisk(tables, logs, edit.state, r) => Lasts(r) \/ (edit.owner # "open" /\ Unsure(r))
                                   /\ Lasts(r) => OnDisk(tables, logs, edit.state, r) \/ (edit.owner # "open" /\ Unsure(r))
          /\ \A r : /\ OnDisk(tables, logs, db, r) => Lasts(r)
                    /\ Lasts(r) => OnDisk(tables, logs, db, r) \/ Unsure(r)
      BY DEF DiskInv, SameInv
    <2>3. \A m \in PossibleStates' : \A r : /\ OnDisk(tables', logs', m, r) => Lasts(r)'
                                            /\ Lasts(r)' => OnDisk(tables', logs', m, r) \/ Unsure(r)'
      BY <1>2, <1>9, <1>10, <1>12, <1>u, <2>2
    <2>4. edit' # None => \A r : /\ OnDisk(tables', logs', edit'.state, r) => Lasts(r)' \/ (edit'.owner # "open" /\ Unsure(r)')
                                 /\ Lasts(r)' => OnDisk(tables', logs', edit'.state, r) \/ (edit'.owner # "open" /\ Unsure(r)')
      BY <1>2, <1>9, <1>10, <1>12, <1>u, <2>2
    <2>5. \A r : /\ OnDisk(tables', logs', db', r) => Lasts(r)'
                 /\ Lasts(r)' => OnDisk(tables', logs', db', r) \/ Unsure(r)'
      BY <1>2, <1>9, <1>10, <1>12, <1>u, <2>1, <2>2
    <2> QED
      BY <2>3, <2>4, <2>5 DEF SameInv
  <1>15. MemInv'
    <2>1. \A r : Between(logs', db.log, k, r) <=> Between(logs, db.log, k, r)
      <3>1. \A n : n < k => n # k
        BY <1>1 DEF k
      <3> QED
        BY <1>3, <1>6, <3>1 DEF Between
    <2>2. /\ \A n \in DOMAIN logs : n <= k
          /\ \A r : Between(logs, db.log, k, r) => db.imm # None /\ r \in db.imm
          /\ \A r : db.imm # None /\ r \in db.imm => Between(logs, db.log, k, r) \/ Unsure(r)
          /\ \A r : r \in db.mem => InLog(logs, k, r) \/ Unsure(r)
          /\ \A r : InLog(logs, k, r) => r \in db.mem \/ db.bgError \/ NewRecord(r)
      BY DEF DiskInv, MemInv, k
    <2>3. \A r : r = new => NewRecord(r)
      BY DEF NewRecord, new
    <2>4. \A r : InLog(logs', k, r) => r \in db.mem \/ db.bgError \/ NewRecord(r)
      BY <1>6, <2>2, <2>3
    <2> QED
      BY <1>3, <1>6, <1>u, <2>1, <2>2, <2>4 DEF MemInv, NewRecord, k
  <1>16. LogsInv' /\ BehindInv' /\ CoversInv' /\ MergeInv'
    <2>1. edit # None => edit.owner # "open"
      BY DEF IInv, Core, StoreInv
    <2>2. LogsInv'
      BY <1>10, <2>1 DEF DiskInv, LogsInv
    <2>3. BehindInv'
      BY <1>10 DEF DiskInv, BehindInv
    <2>4. CoversInv' /\ MergeInv'
      BY DEF DiskInv, CoversInv, MergeInv, InTables, Files
    <2> QED
      BY <2>2, <2>3, <2>4
  <1>17. FirstInv'
    <2>1. ~(current < 2)
      BY DEF IInv, Core, NumbersInv, StoreTypes
    <2> QED
      BY <2>1 DEF FirstInv
  <1>18. InLog(logs', k, new)
    BY <1>6
  <1> QED
    BY <1>11, <1>12, <1>13, <1>14, <1>15, <1>16, <1>17, <1>18 DEF DiskInv, k, new

\* The log is synced: that cannot be lost any more.
LEMMA DiskHarden ==
  ASSUME IInv, IInv', DiskInv, ResultsStay, db # None, group # None,
         logs' = [logs EXCEPT ![db.logfile] = Synced(@)],
         UNCHANGED <<tables, manifests, current, bg, edit, db, group>>
  PROVE  /\ DiskInv' /\ Hardens
         /\ \A r : InLog(logs', db.logfile, r) <=> InLog(logs, db.logfile, r)
         /\ logs'[db.logfile].synced = Len(logs'[db.logfile].recs)
  <1> DEFINE k == db.logfile
  <1>1. current # 0 /\ Base \in PossibleStates
    BY OldTables
  <1>2. k \in DOMAIN logs /\ File(logs[k], Records)
    BY LastLog
  <1>3. /\ DOMAIN logs' = DOMAIN logs /\ \A n \in DOMAIN logs : n # k => logs'[n] = logs[n]
        /\ logs'[k] = Synced(logs[k])
    BY <1>2
  <1>4. /\ logs'[k].recs = logs[k].recs /\ logs'[k].synced = Len(logs[k].recs)
        /\ logs[k].synced \in Nat /\ logs[k].synced <= Len(logs[k].recs) /\ Len(logs[k].recs) \in Nat
    BY <1>2, <1>3 DEF File, Synced
  <1> HIDE DEF k
  <1>5. \A n \in DOMAIN logs : logs'[n].recs = logs[n].recs
    BY <1>3, <1>4
  <1>6. /\ \A n, r : InLog(logs', n, r) <=> InLog(logs, n, r)
        /\ \A j, r : InLogs(logs', j, r) <=> InLogs(logs, j, r)
    BY <1>3, <1>5 DEF InLog, InLogs
  <1>7. \A j, r : InSynced(logs, j, r) => InSynced(logs', j, r)
    <2>1. \A i \in 1 .. logs[k].synced : i \in 1 .. logs'[k].synced
      BY <1>4
    <2> QED
      BY <1>3, <1>5, <2>1 DEF InSynced
  <1>8. \A m, r : OnDisk(tables', logs', m, r) <=> OnDisk(tables, logs, m, r)
    BY <1>6 DEF OnDisk
  <1>9. PossibleStates' = PossibleStates /\ Base' = Base
    BY DEF PossibleStates, Base
  <1>10. Safe \subseteq Safe'
    <2>1. \A m, r : OnSynced(tables, logs, m, r) => OnSynced(tables', logs', m, r)
      BY <1>7 DEF OnSynced
    <2> QED
      BY <1>9, <2>1, SafeGrows
  <1>11. \A r : Lasts(r)' <=> Lasts(r)
    <2>1. manifests[current].recs # <<>>
      BY <1>1 DEF PossibleStates
    <2>2. \A r : Lasts(r)' <=> OnDisk(tables', logs', Base', r)
      BY <1>1, <2>1, LastsOnDiskNext DEF LastsAre
    <2>3. \A r : Lasts(r) <=> OnDisk(tables, logs, Base, r)
      BY <1>1, <2>1, LastsOnDisk DEF LastsAre
    <2> QED
      BY <1>8, <1>9, <2>2, <2>3
  <1>12. \A r : Seen(r)' <=> Seen(r)
    BY DEF Seen, InMemory, InTables, Files
  <1>u. \A r : Unsure(r) => Unsure(r)'
    BY UnsureStays
  <1>13. SameInv'
    <2>1. db' = db
      OBVIOUS
    <2>2. /\ \A m \in PossibleStates : \A r : /\ OnDisk(tables, logs, m, r) => Lasts(r)
                                              /\ Lasts(r) => OnDisk(tables, logs, m, r) \/ Unsure(r)
          /\ edit # None => \A r : /\ OnDisk(tables, logs, edit.state, r) => Lasts(r) \/ (edit.owner # "open" /\ Unsure(r))
                                   /\ Lasts(r) => OnDisk(tables, logs, edit.state, r) \/ (edit.owner # "open" /\ Unsure(r))
          /\ \A r : /\ OnDisk(tables, logs, db, r) => Lasts(r)
                    /\ Lasts(r) => OnDisk(tables, logs, db, r) \/ Unsure(r)
      BY DEF DiskInv, SameInv
    <2>3. \A m \in PossibleStates' : \A r : /\ OnDisk(tables', logs', m, r) => Lasts(r)'
                                            /\ Lasts(r)' => OnDisk(tables', logs', m, r) \/ Unsure(r)'
      BY <1>8, <1>9, <1>11, <1>u, <2>2
    <2>4. edit' # None => \A r : /\ OnDisk(tables', logs', edit'.state, r) => Lasts(r)' \/ (edit'.owner # "open" /\ Unsure(r)')
                                 /\ Lasts(r)' => OnDisk(tables', logs', edit'.state, r) \/ (edit'.owner # "open" /\ Unsure(r)')
      BY <1>8, <1>9, <1>11, <1>u, <2>2
    <2>5. \A r : /\ OnDisk(tables', logs', db', r) => Lasts(r)'
                 /\ Lasts(r)' => OnDisk(tables', logs', db', r) \/ Unsure(r)'
      BY <1>8, <1>9, <1>11, <1>u, <2>1, <2>2
    <2> QED
      BY <2>3, <2>4, <2>5 DEF SameInv
  <1>14. MemInv'
    <2>1. \A r : Between(logs', db.log, k, r) <=> Between(logs, db.log, k, r)
      BY <1>3, <1>6 DEF Between
    <2>2. /\ \A n \in DOMAIN logs : n <= k
          /\ \A r : Between(logs, db.log, k, r) => db.imm # None /\ r \in db.imm
          /\ \A r : db.imm # None /\ r \in db.imm => Between(logs, db.log, k, r) \/ Unsure(r)
          /\ \A r : r \in db.mem => InLog(logs, k, r) \/ Unsure(r)
          /\ \A r : InLog(logs, k, r) => r \in db.mem \/ db.bgError \/ NewRecord(r)
      BY DEF DiskInv, MemInv, k
    <2> QED
      BY <1>3, <1>6, <1>u, <2>1, <2>2 DEF MemInv, NewRecord, k
  <1>15. LogsInv' /\ BehindInv' /\ CoversInv' /\ MergeInv'
    <2>1. edit # None => edit.owner # "open"
      BY DEF IInv, Core, StoreInv
    <2>2. LogsInv'
      BY <1>9, <2>1 DEF DiskInv, LogsInv
    <2>3. BehindInv'
      BY <1>9 DEF DiskInv, BehindInv
    <2>4. CoversInv' /\ MergeInv'
      BY DEF DiskInv, CoversInv, MergeInv, InTables, Files
    <2> QED
      BY <2>2, <2>3, <2>4
  <1>16. FirstInv'
    BY <1>11 DEF DiskInv, FirstInv, Lasts
  <1>17. logs'[k].synced = Len(logs'[k].recs)
    BY <1>4
  <1> QED
    BY <1>6, <1>10, <1>11, <1>12, <1>13, <1>14, <1>15, <1>16, <1>17 DEF DiskInv, Hardens, k

\* The group comes to the memtable: a reader sees it.
LEMMA DiskInsert ==
  ASSUME IInv, IInv', DiskInv, ResultsStay, db # None, db' # None, group # None, group' = None,
         NEW new, new = group.record, InLog(logs, db.logfile, new) \/ Unsure(new)',
         db'.l0 = db.l0, db'.deep = db.deep, db'.log = db.log, db'.logfile = db.logfile,
         db'.imm = db.imm, db'.bgError = db.bgError,
         db'.mem = db.mem \cup {new},
         UNCHANGED <<logs, tables, manifests, current, bg, edit>>
  PROVE  /\ DiskInv' /\ Safe' = Safe
         /\ \A r : Lasts(r)' <=> Lasts(r)
         /\ \A r : Seen(r)' <=> Seen(r) \/ r = new
  <1>1. current # 0 /\ Base \in PossibleStates
    BY OldTables
  <1>2. \A m \in PossibleStates : KeepsTables(Files(m)) /\ KeepsLogs(m.log)
    BY OldTables DEF KeepsTables, KeepsLogs
  <1>3. /\ PossibleStates' = PossibleStates /\ Base' = Base
        /\ \A r : Lasts(r)' <=> Lasts(r)
        /\ Safe' = Safe
        /\ \A m \in PossibleStates' : \A r : OnDisk(tables', logs', m, r) => Lasts(r)'
        /\ \A m \in PossibleStates' : \A r : Lasts(r)' => OnDisk(tables', logs', m, r) \/ Unsure(r)'
    BY <1>1, <1>2, StatesKept DEF DiskInv
  <1>4. Files(db') = Files(db)
    BY DEF Files
  <1>5. \A r : Seen(r)' <=> Seen(r) \/ r = new
    BY <1>4 DEF Seen, InMemory, Files
  <1>u. \A r : Unsure(r) => Unsure(r)'
    BY UnsureStays
  <1>6. SameInv'
    <2>1. /\ \A r : OnDisk(tables', logs', db', r) <=> OnDisk(tables, logs, db, r)
          /\ \A m, r : OnDisk(tables', logs', m, r) <=> OnDisk(tables, logs, m, r)
      BY <1>4 DEF OnDisk
    <2>2. /\ \A m \in PossibleStates : \A r : /\ OnDisk(tables, logs, m, r) => Lasts(r)
                                              /\ Lasts(r) => OnDisk(tables, logs, m, r) \/ Unsure(r)
          /\ edit # None => \A r : /\ OnDisk(tables, logs, edit.state, r) => Lasts(r) \/ (edit.owner # "open" /\ Unsure(r))
                                   /\ Lasts(r) => OnDisk(tables, logs, edit.state, r) \/ (edit.owner # "open" /\ Unsure(r))
          /\ \A r : /\ OnDisk(tables, logs, db, r) => Lasts(r)
                    /\ Lasts(r) => OnDisk(tables, logs, db, r) \/ Unsure(r)
      BY DEF DiskInv, SameInv
    <2>3. \A m \in PossibleStates' : \A r : /\ OnDisk(tables', logs', m, r) => Lasts(r)'
                                            /\ Lasts(r)' => OnDisk(tables', logs', m, r) \/ Unsure(r)'
      BY <1>3, <2>1, <1>u, <2>2
    <2>4. edit' # None => \A r : /\ OnDisk(tables', logs', edit'.state, r) => Lasts(r)' \/ (edit'.owner # "open" /\ Unsure(r)')
                                 /\ Lasts(r)' => OnDisk(tables', logs', edit'.state, r) \/ (edit'.owner # "open" /\ Unsure(r)')
      BY <1>3, <2>1, <1>u, <2>2
    <2>5. \A r : /\ OnDisk(tables', logs', db', r) => Lasts(r)'
                 /\ Lasts(r)' => OnDisk(tables', logs', db', r) \/ Unsure(r)'
      BY <1>3, <2>1, <1>u, <2>1, <2>2
    <2> QED
      BY <2>3, <2>4, <2>5 DEF SameInv
  <1>7. MemInv'
    <2>1. /\ \A n \in DOMAIN logs : n <= db.logfile
          /\ \A r : Between(logs, db.log, db.logfile, r) => db.imm # None /\ r \in db.imm
          /\ \A r : db.imm # None /\ r \in db.imm => Between(logs, db.log, db.logfile, r) \/ Unsure(r)
          /\ \A r : r \in db.mem => InLog(logs, db.logfile, r) \/ Unsure(r)
          /\ \A r : InLog(logs, db.logfile, r) => r \in db.mem \/ db.bgError \/ NewRecord(r)
      BY DEF DiskInv, MemInv
    <2>2. \A r : r \in db'.mem => InLog(logs, db.logfile, r) \/ Unsure(r)'
      <3> SUFFICES ASSUME NEW r, r \in db'.mem PROVE InLog(logs, db.logfile, r) \/ Unsure(r)'
        OBVIOUS
      <3>1. CASE r \in db.mem
        BY <1>u, <2>1, <3>1
      <3>2. CASE r = new
        BY <3>2
      <3> QED
        BY <3>1, <3>2
    <2>3. \A r : InLog(logs, db.logfile, r) => r \in db'.mem \/ db.bgError
      BY <2>1 DEF NewRecord
    <2> QED
      BY <1>u, <2>1, <2>2, <2>3 DEF MemInv
  <1>8. LogsInv' /\ BehindInv' /\ CoversInv' /\ MergeInv'
    <2>1. edit # None => edit.owner # "open"
      BY DEF IInv, Core, StoreInv
    <2>2. LogsInv'
      BY <1>3, <2>1 DEF DiskInv, LogsInv
    <2>3. BehindInv'
      BY <1>3 DEF DiskInv, BehindInv
    <2>4. CoversInv' /\ MergeInv'
      BY <1>4 DEF DiskInv, CoversInv, MergeInv, InTables, Files
    <2> QED
      BY <2>2, <2>3, <2>4
  <1>9. FirstInv'
    BY <1>3 DEF DiskInv, FirstInv, Lasts
  <1> QED
    BY <1>3, <1>5, <1>6, <1>7, <1>8, <1>9 DEF DiskInv

-----------------------------------------------------------------------------
(* The end of the process, and the loss of power *)

\* A reader sees nothing that the end of the process would take, but for unsure writes.
LEMMA SeenLasts ==
  ASSUME IInv, DiskInv
  PROVE  \A r : Seen(r) => Lasts(r) \/ Unsure(r)
  <1> SUFFICES ASSUME NEW r, Seen(r), db # None PROVE Lasts(r) \/ Unsure(r)
    BY DEF Seen
  <1>1. db.log \in Nat /\ db.logfile \in Nat /\ db.log <= db.logfile
    BY StoreFacts, Fields DEF IInv
  <1>2. \A n \in DOMAIN logs : n \in Nat
    BY DEF IInv, Core, FileTypes, FilesOf
  <1>3. /\ \A q : q \in db.mem => InLog(logs, db.logfile, q) \/ Unsure(q)
        /\ \A q : db.imm # None /\ q \in db.imm => Between(logs, db.log, db.logfile, q) \/ Unsure(q)
    BY DEF DiskInv, MemInv
  <1>4. InMemory(db, r) => InLogs(logs, db.log, r) \/ Unsure(r)
    <2>1. InLog(logs, db.logfile, r) => InLogs(logs, db.log, r)
      BY <1>1 DEF InLog, InLogs
    <2>2. Between(logs, db.log, db.logfile, r) => InLogs(logs, db.log, r)
      BY <1>1, <1>2 DEF Between, InLog, InLogs
    <2> QED
      BY <1>3, <2>1, <2>2 DEF InMemory
  <1>5. OnDisk(tables, logs, db, r) \/ Unsure(r)
    BY <1>4 DEF Seen, OnDisk
  <1> QED
    BY <1>5 DEF DiskInv, SameInv

\* The process ends: what lasts is what is seen then.
LEMMA DiskEnded ==
  ASSUME IInv, IInv', DiskInv, ResultsStay, Closed \/ ProcessCrash
  PROVE  /\ DiskInv' /\ Safe' = Safe
         /\ \A r : Lasts(r)' <=> Lasts(r)
         /\ \A r : Seen(r)' <=> Lasts(r)'
  <1>1. db' = None /\ edit' = None /\ bg' = None /\ UNCHANGED <<logs, tables, manifests, current>>
    <2>1. db' = None /\ edit' = None
      BY CoreGone DEF IInv
    <2>2. bg' = None
      BY <2>1 DEF IInv, Core, StoreInv
    <2> QED
      BY <2>1, <2>2 DEF Closed, ProcessCrash, ProcessGone, disk
  <1>2. PossibleStates' = PossibleStates /\ Base' = Base /\ Recoverable' = Recoverable
    BY <1>1 DEF PossibleStates, Base, Recoverable, Held, Replayed, Contents, LogRecords, AllOfLogs
  <1>3. \A r : Lasts(r)' <=> Lasts(r)
    BY <1>2 DEF Lasts
  <1>4. Safe' = Safe
    BY <1>1, <1>2, SafeSame
  <1>5. \A r : Seen(r)' <=> Lasts(r)'
    BY <1>1 DEF Seen
  <1>6. SameInv'
    <2>1. \A r : Unsure(r) => Unsure(r)'
      BY UnsureStays
    <2>2. \A m, r : OnDisk(tables', logs', m, r) <=> OnDisk(tables, logs, m, r)
      BY <1>1
    <2> QED
      BY <1>1, <1>2, <1>3, <2>1, <2>2 DEF DiskInv, SameInv
  <1>7. MemInv' /\ LogsInv' /\ BehindInv' /\ CoversInv' /\ MergeInv'
    BY <1>1 DEF MemInv, LogsInv, BehindInv, CoversInv, MergeInv
  <1>9. FirstInv'
    BY <1>1, <1>2 DEF DiskInv, FirstInv
  <1> QED
    BY <1>3, <1>4, <1>5, <1>6, <1>7, <1>9 DEF DiskInv

\* Power is lost: records may be, but none that was safe.
LEMMA DiskPowerLoss ==
  ASSUME IInv, IInv', DiskInv, ResultsStay, PowerLoss
  PROVE  /\ DiskInv' /\ Safe \subseteq Safe'
         /\ \A r : Lasts(r)' => Lasts(r)
         /\ \A r : Seen(r)' <=> Lasts(r)'
  <1>1. /\ db' = None /\ edit' = None /\ bg' = None /\ UNCHANGED <<tables, current>>
        /\ manifests' \in Truncations(manifests)
        /\ \A m \in PossibleStates' : m \in PossibleStates
        /\ \A k, r : InLogs(logs', k, r) => InLogs(logs, k, r)
    <2>1. /\ db' = None /\ edit' = None /\ \A m \in PossibleStates' : m \in PossibleStates
          /\ \A k, r : InLogs(logs', k, r) => InLogs(logs, k, r)
      BY CoreGone DEF IInv
    <2>2. bg' = None
      BY <2>1 DEF IInv, Core, StoreInv
    <2> QED
      BY <2>1, <2>2 DEF PowerLoss, ProcessGone
  <1>2. FilesOf(logs, Records) /\ FilesOf(manifests, ManifestStates) /\ current \in Nat
    BY DEF IInv, Core, FileTypes, StoreTypes
  <1>3. /\ DOMAIN logs' \subseteq DOMAIN logs /\ \A n \in DOMAIN logs : n \notin DOMAIN logs' => logs[n].synced = 0
        /\ \A n \in DOMAIN logs' :
             /\ logs[n].synced <= Len(logs'[n].recs) /\ logs'[n].synced = Len(logs'[n].recs)
             /\ \A i \in DOMAIN logs'[n].recs : logs'[n].recs[i] = logs[n].recs[i]
    <2>1. PICK gone \in SUBSET {n \in DOMAIN logs : logs[n].synced = 0} : logs' \in Truncations(Without(logs, gone))
      BY DEF PowerLoss
    <2>2. /\ DOMAIN logs' = DOMAIN logs \ gone
          /\ \A n \in DOMAIN logs' :
               /\ logs[n].synced <= Len(logs'[n].recs) /\ logs'[n].synced = Len(logs'[n].recs)
               /\ \A i \in DOMAIN logs'[n].recs : logs'[n].recs[i] = logs[n].recs[i]
      <3>1. FilesOf(logs, Records)
        BY <1>2
      <3>2. PICK h : h = Without(logs, gone)
        OBVIOUS
      <3>3. FilesOf(h, Records) /\ DOMAIN h = DOMAIN logs \ gone /\ \A n \in DOMAIN h : h[n] = logs[n]
        <4>1. FilesOf(Without(logs, gone), Records)
          BY <3>1, FileSets
        <4>2. DOMAIN Without(logs, gone) = DOMAIN logs \ gone
          BY DEF Without
        <4>3. \A n \in DOMAIN logs \ gone : Without(logs, gone)[n] = logs[n]
          BY DEF Without
        <4> QED
          BY <3>2, <4>1, <4>2, <4>3
      <3>4. /\ DOMAIN logs' = DOMAIN h
            /\ \A n \in DOMAIN h :
                 /\ h[n].synced <= Len(logs'[n].recs) /\ logs'[n].synced = Len(logs'[n].recs)
                 /\ \A i \in DOMAIN logs'[n].recs : logs'[n].recs[i] = h[n].recs[i]
        <4>1. logs' \in Truncations(h)
          BY <2>1, <3>2
        <4> QED
          BY <3>3, <4>1, Truncated
      <3> QED
        BY <3>3, <3>4
    <2> QED
      BY <2>1, <2>2
  <1>4. /\ DOMAIN manifests' = DOMAIN manifests
        /\ \A n \in DOMAIN manifests :
             /\ Len(manifests'[n].recs) <= Len(manifests[n].recs)
             /\ manifests'[n].synced = Len(manifests'[n].recs)
    BY <1>1, <1>2, Truncated
  <1>5. FilesOf(logs', Records) /\ FilesOf(manifests', ManifestStates)
    BY DEF IInv, Core, FileTypes
  <1>6. \A m \in PossibleStates' : m = Base' /\ current # 0 /\ manifests'[current].recs # <<>>
    <2> SUFFICES ASSUME NEW m \in PossibleStates'
                 PROVE  m = Base' /\ current # 0 /\ manifests'[current].recs # <<>>
      OBVIOUS
    <2> DEFINE g == manifests'[current]
    <2>1. current # 0 /\ current \in DOMAIN manifests
      BY <1>1 DEF IInv, Core, NumbersInv, PossibleStates
    <2>2. PICK i \in DOMAIN g.recs : i >= g.synced /\ m = g.recs[i]
      BY <1>1, <2>1 DEF PossibleStates
    <2>3. g.recs \in Seq(ManifestStates) /\ g.synced = Len(g.recs)
      BY <1>4, <1>5, <2>1 DEF FilesOf, File
    <2>4. Base' = Last(g.recs)
      BY <1>1 DEF Base
    <2> HIDE DEF g
    <2>5. i = Len(g.recs) /\ g.recs # <<>>
      BY <2>2, <2>3
    <2> QED
      BY <2>1, <2>2, <2>4, <2>5 DEF Last, g
  <1>7. \A m \in PossibleStates' : \A r : OnDisk(tables', logs', m, r) <=> Lasts(r)'
    BY <1>1, <1>6, LastsOnDiskNext DEF LastsAre
  <1>8. \A r : Lasts(r)' => Lasts(r)
    <2> SUFFICES ASSUME NEW r, Lasts(r)' PROVE Lasts(r)
      OBVIOUS
    <2>1. Base' \in PossibleStates' /\ OnDisk(tables', logs', Base', r)
      BY LastsOnDiskNext DEF LastsAre
    <2>2. OnDisk(tables, logs, Base', r)
      BY <1>1, <2>1 DEF OnDisk
    <2> QED
      BY <1>1, <2>1, <2>2 DEF DiskInv, SameInv
  <1>9. Safe \subseteq Safe'
    <2>1. CASE current < 2
      <3>1. Recoverable = {}
        BY <2>1 DEF DiskInv, FirstInv
      <3> QED
        BY <3>1 DEF Safe, Batches
    <2>2. CASE ~(current < 2)
      <3>1. current > 1 /\ current # 0
        BY <1>2, <2>2
      <3>2. current \in DOMAIN manifests' /\ manifests'[current].synced > 0
        BY <1>1, <3>1 DEF IInv, Core, NumbersInv
      <3>3. manifests'[current].recs # <<>>
        BY <1>5, <3>2 DEF FilesOf, File
      <3>4. PossibleStates' # {}
        BY <1>1, <3>1, <3>3, LastsOnDiskNext DEF LastsAre
      <3>5. \A j, r : InSynced(logs, j, r) => InSynced(logs', j, r)
        <4>1. \A n \in DOMAIN logs' : \A i \in 1 .. logs[n].synced :
                i \in 1 .. logs'[n].synced /\ logs'[n].recs[i] = logs[n].recs[i]
          <5> TAKE n \in DOMAIN logs'
          <5>1. /\ logs[n].synced \in Nat /\ logs'[n].recs \in Seq(Records)
                /\ logs[n].synced <= Len(logs'[n].recs) /\ logs'[n].synced = Len(logs'[n].recs)
                /\ \A i \in DOMAIN logs'[n].recs : logs'[n].recs[i] = logs[n].recs[i]
            BY <1>2, <1>3, <1>5 DEF FilesOf, File
          <5> QED
            BY <5>1
        <4>2. \A n \in DOMAIN logs : n \notin DOMAIN logs' => 1 .. logs[n].synced = {}
          BY <1>3
        <4> QED
          BY <1>3, <4>1, <4>2 DEF InSynced
      <3>6. \A k, r : OnSynced(tables, logs, k, r) => OnSynced(tables', logs', k, r)
        BY <1>1, <3>5 DEF OnSynced
      <3> QED
        BY <1>1, <3>4, <3>6, SafeGrows
    <2> QED
      BY <2>1, <2>2
  <1>10. SameInv'
    BY <1>1, <1>7 DEF SameInv
  <1>11. MemInv' /\ LogsInv' /\ BehindInv' /\ CoversInv' /\ MergeInv'
    BY <1>1 DEF MemInv, LogsInv, BehindInv, CoversInv, MergeInv
  <1>13. FirstInv'
    BY <1>1, <1>8 DEF DiskInv, FirstInv, Lasts
  <1>14. \A r : Seen(r)' <=> Lasts(r)'
    BY <1>1 DEF Seen
  <1> QED
    BY <1>8, <1>9, <1>10, <1>11, <1>13, <1>14 DEF DiskInv

-----------------------------------------------------------------------------
(* The last log, the group and the owners of records *)

\* Its last log stays with the store, whatever its background thread does.
LEMMA LastLogKept ==
  ASSUME IInv, IInv', db # None,
         AppendManifest \/ SyncManifest \/ SetCurrentFile \/ EditFails \/ BackgroundCall
           \/ NewIterator \/ DeleteIterator \/ Close
  PROVE  db' # None /\ db'.logfile = db.logfile /\ db'.torn = db.torn /\ logs'[db.logfile] = logs[db.logfile]
  <1>0. Core /\ Core' /\ FileTypes /\ db \in Stores
    BY StoreFacts DEF IInv, Core
  <1>1. ASSUME NEW d \in Stores, d.logfile = db.logfile, d.torn = db.torn, db' = d \/ db' = CallEnded(d),
               UNCHANGED logs \/ DeleteObsoleteFiles(d)
        PROVE  db' # None /\ db'.logfile = db.logfile /\ db'.torn = db.torn /\ logs'[db.logfile] = logs[db.logfile]
    <2>1. SameButCall(d, db')
      BY <1>1, Calls DEF SameButCall
    <2>2. db' # None /\ db'.logfile = db.logfile /\ db'.torn = db.torn
      BY <1>1, <2>1, Fields DEF SameButCall
    <2>3. db.logfile \in DOMAIN logs'
      BY <1>0, <2>2 DEF Core, NumbersInv
    <2> QED
      BY <1>0, <1>1, <2>2, <2>3, FilesCollected
  <1>2. CASE AppendManifest \/ SyncManifest \/ SetCurrentFile \/ NewIterator \/ DeleteIterator \/ MoveTable
    BY <1>2 DEF MoveTable, AppendManifest, SyncManifest, SetCurrentFile, NewIterator, DeleteIterator, disk
  <1>3. CASE Close
    <2>1. UNCHANGED logs /\ db' = [db EXCEPT !.shutting = TRUE]
      BY <1>3 DEF Close, disk
    <2>2. /\ [db EXCEPT !.shutting = TRUE] \in Stores /\ [db EXCEPT !.shutting = TRUE].logfile = db.logfile
          /\ [db EXCEPT !.shutting = TRUE].torn = db.torn
      BY <1>0 DEF Stores
    <2> QED
      BY <1>1, <2>1, <2>2
  <1>4. CASE EditFails
    <2> DEFINE P == db.pending \ {bg.out}
               c == IF edit.owner = "compaction" THEN [db EXCEPT !.pending = P] ELSE db
    <2>1. edit # None /\ edit.owner # "open"
      BY <1>0, <1>4 DEF EditFails, Core, StoreInv
    <2>2. c \in Stores /\ c.logfile = db.logfile /\ c.torn = db.torn
      <3>1. P \in SUBSET Nat
        BY <1>0, Fields
      <3> HIDE DEF P
      <3> QED
        BY <1>0, <3>1 DEF Stores
    <2>3. /\ db' = WithError(c) \/ db' = CallEnded(WithError(c))
          /\ UNCHANGED logs \/ DeleteObsoleteFiles(WithError(c))
      BY <1>4, <2>1 DEF EditFails
    <2> HIDE DEF c
    <2>4. WithError(c) \in Stores /\ WithError(c).logfile = db.logfile /\ WithError(c).torn = db.torn
      BY <2>2, Calls DEF SameButCall
    <2> QED
      BY <1>1, <2>3, <2>4
  <1>5. CASE CompactMemTable
    BY <1>0, <1>5, MemTableSteps
  <1>6. CASE StartCompaction
    <2>1. UNCHANGED logs /\ db' = [db EXCEPT !.next = @ + 1, !.pending = @ \cup {db.next}]
      BY <1>6 DEF StartCompaction
    <2>2. db'.logfile = db.logfile /\ db'.torn = db.torn
      BY <1>0, <2>1 DEF Stores
    <2>3. db' # None
      <3>1. bg' # None
        <4>1. bg' \in [level0 : SUBSET db.l0, below : SUBSET db.deep, out : {db.next}]
          BY <1>6 DEF StartCompaction
        <4>2. bg' \in Merges
          BY <1>0, <4>1, Fields DEF Merges
        <4> QED
          BY <4>2, Fields
      <3> QED
        BY <1>0, <3>1 DEF Core, StoreInv
    <2> QED
      BY <2>1, <2>2, <2>3
  <1>7. CASE FinishCompaction
    <2> DEFINE P == db.pending \ {bg.out}
               c == [db EXCEPT !.pending = P]
    <2>1. UNCHANGED logs /\ (db' = CallEnded(WithError(c)) \/ UNCHANGED db)
      BY <1>7 DEF FinishCompaction, disk
    <2>2. c \in Stores /\ c.logfile = db.logfile /\ c.torn = db.torn
      <3>1. P \in SUBSET Nat
        BY <1>0, Fields
      <3> HIDE DEF P
      <3> QED
        BY <1>0, <3>1 DEF Stores
    <2> HIDE DEF c
    <2>3. WithError(c) \in Stores /\ WithError(c).logfile = db.logfile /\ WithError(c).torn = db.torn
      BY <2>2, Calls DEF SameButCall
    <2> QED
      BY <1>0, <1>1, <2>1, <2>3
  <1>8. CASE NothingToDo
    <2>1. UNCHANGED logs /\ db' = CallEnded(db)
      BY <1>8 DEF NothingToDo, disk
    <2> QED
      BY <1>0, <1>1, <2>1
  <1>9. edit # None => edit \in Edits
    BY <1>0 DEF Core, StoreTypes
  <1>10. edit # None => /\ Installed(db) \in Stores /\ Installed(db).logfile = db.logfile /\ Installed(db).torn = db.torn
                        /\ Installed(db).pending = db.pending
    <2> SUFFICES ASSUME edit # None
                 PROVE  /\ Installed(db) \in Stores /\ Installed(db).logfile = db.logfile /\ Installed(db).torn = db.torn
                        /\ Installed(db).pending = db.pending
      OBVIOUS
    <2>1. edit.state.l0 \in SUBSET Nat /\ edit.state.deep \in SUBSET Nat /\ edit.state.log \in Nat
      BY <1>9, Fields
    <2> QED
      BY <1>0, <2>1 DEF Stores, Installed
  <1>11. CASE MemTableInstalled
    <2> DEFINE e == Installed(db)
               d == [e EXCEPT !.imm = None]
    <2>1. edit # None /\ DeleteObsoleteFiles(d) /\ db' = IF bg = None THEN CallEnded(d) ELSE d
      BY <1>11 DEF MemTableInstalled
    <2>2. e \in Stores /\ e.logfile = db.logfile /\ e.torn = db.torn
      BY <1>10, <2>1
    <2> HIDE DEF e
    <2>3. d \in Stores /\ d.logfile = db.logfile /\ d.torn = db.torn
      BY <2>2 DEF Stores
    <2> HIDE DEF d
    <2> QED
      BY <1>1, <2>1, <2>3
  <1>12. CASE CompactionInstalled
    <2> DEFINE e == Installed(db)
               P == e.pending \ {bg.out}
               d == [e EXCEPT !.pending = P]
    <2>1. edit # None /\ DeleteObsoleteFiles(d) /\ db' = CallEnded(d)
      BY <1>12 DEF CompactionInstalled
    <2>2. e \in Stores /\ e.logfile = db.logfile /\ e.torn = db.torn /\ e.pending \in SUBSET Nat
      BY <1>0, <1>10, <2>1, Fields
    <2> HIDE DEF e
    <2>3. d \in Stores /\ d.logfile = db.logfile /\ d.torn = db.torn
      <3>1. P \in SUBSET Nat
        BY <2>2
      <3> HIDE DEF P
      <3> QED
        BY <2>2, <3>1 DEF Stores
    <2> HIDE DEF d
    <2> QED
      BY <1>1, <2>1, <2>3
  <1>13. CASE MoveInstalled
    <2>1. edit # None /\ UNCHANGED logs /\ db' = CallEnded(Installed(db))
      BY <1>13 DEF MoveInstalled, disk
    <2> QED
      BY <1>1, <1>10, <2>1
  <1> QED
    BY <1>2, <1>3, <1>4, <1>5, <1>6, <1>7, <1>8, <1>11, <1>12, <1>13 DEF BackgroundCall

\* A group stays one while its writers, where they are, and the log do.
LEMMA GroupKept ==
  ASSUME IInv, GroupInv, group' = group,
         group # None =>
           /\ \A i \in DOMAIN queue : queue'[i] = queue[i]
           /\ pc'[queue[1]] = pc[queue[1]]
           /\ db'.logfile = db.logfile /\ db'.torn = db.torn
           /\ logs'[db.logfile] = logs[db.logfile]
           /\ db.logfile \in DOMAIN logs /\ db.logfile \in DOMAIN logs'
  PROVE  GroupInv'
  <1> SUFFICES ASSUME group # None PROVE GroupInv'
    BY DEF GroupInv
  <1>1. queue \in Seq(Threads) /\ group.size \in DOMAIN queue /\ 1 \in DOMAIN queue
    BY DEF IInv, ThreadTypes, QueueInv
  <1>2. \A i \in 1 .. group.size : i \in DOMAIN queue
    BY <1>1
  <1>3. {queue'[i] : i \in 1 .. group.size} = {queue[i] : i \in 1 .. group.size} /\ queue'[1] = queue[1]
    BY <1>1, <1>2
  <1>4. InLog(logs, db.logfile, group.record) <=> InLog(logs', db'.logfile, group.record)
    BY DEF InLog
  <1> QED
    BY <1>3, <1>4 DEF GroupInv

\* The batches of what is there are of writers.
LEMMA OwnersAreWriters ==
  ASSUME IInv
  PROVE  \A r : Lasts(r) \/ Seen(r) => r.batches \subseteq Writers
  <1>1. \A n \in DOMAIN tables : tables[n] \in SUBSET Records
    BY DEF IInv, Core, FileTypes
  <1>2. \A N, r : InTables(tables, N, r) => r \in Records
    BY <1>1 DEF InTables
  <1>3. \A k, r : InLogs(logs, k, r) => r \in Records
    <2>1. \A n \in DOMAIN logs : logs[n].recs \in Seq(Records)
      BY DEF IInv, Core, FileTypes, FilesOf, File
    <2> QED
      BY <2>1 DEF InLogs
  <1>4. \A r : Lasts(r) => r \in Records
    BY <1>2, <1>3, LastsOnDisk DEF LastsAre, OnDisk
  <1>5. \A r : Seen(r) => r \in Records
    <2>1. db # None => db \in Stores
      BY DEF IInv, Core, StoreTypes
    <2>2. db # None => db.mem \in SUBSET Records /\ (db.imm # None => db.imm \in SUBSET Records)
      BY <2>1, Fields
    <2> QED
      BY <1>2, <1>4, <2>2 DEF Seen, InMemory
  <1> QED
    BY <1>4, <1>5, RecordSize

\* Who has returned or is gone stays so; records that come are of such, or of the group.
LEMMA OwnersKept ==
  ASSUME IInv, OwnersInv,
         \A w \in Writers : pc[w] \in {"done", "dead"} => pc'[w] \in {"done", "dead"},
         \A r : Lasts(r)' => Lasts(r) \/ NewRecord(r)' \/ Seen(r),
         \A r : NewRecord(r) => NewRecord(r)' \/ \A w \in r.batches : pc'[w] \in {"done", "dead"},
         \A r : Seen(r)' => \/ Seen(r)
                            \/ Lasts(r) /\ ~NewRecord(r)
                            \/ \A w \in r.batches : pc'[w] \in {"done", "dead"}
  PROVE  OwnersInv'
  <1>1. \A r : Lasts(r)' /\ ~NewRecord(r)' => \A w \in r.batches : pc'[w] \in {"done", "dead"}
    <2> SUFFICES ASSUME NEW r, Lasts(r)', ~NewRecord(r)' PROVE \A w \in r.batches : pc'[w] \in {"done", "dead"}
      OBVIOUS
    <2>1. Lasts(r) \/ Seen(r)
      OBVIOUS
    <2>2. CASE NewRecord(r)
      BY <2>2
    <2>3. CASE ~NewRecord(r)
      <3>1. r.batches \subseteq Writers /\ \A w \in r.batches : pc[w] \in {"done", "dead"}
        BY <2>1, <2>3, OwnersAreWriters DEF OwnersInv
      <3> QED
        BY <3>1
    <2> QED
      BY <2>2, <2>3
  <1>2. \A r : Seen(r)' => \A w \in r.batches : pc'[w] \in {"done", "dead"}
    <2> SUFFICES ASSUME NEW r, Seen(r)' PROVE \A w \in r.batches : pc'[w] \in {"done", "dead"}
      OBVIOUS
    <2>1. CASE Seen(r) \/ (Lasts(r) /\ ~NewRecord(r))
      <3>1. r.batches \subseteq Writers /\ \A w \in r.batches : pc[w] \in {"done", "dead"}
        BY <2>1, OwnersAreWriters DEF OwnersInv
      <3> QED
        BY <3>1
    <2> QED
      BY <2>1
  <1> QED
    BY <1>1, <1>2 DEF OwnersInv

-----------------------------------------------------------------------------
(* Steps of the threads, as writers and readers see them *)

\* The step is one of DurableStore, and keeps the invariant.
Implemented == OwnersInv' /\ GroupInv' /\ TornInv' /\ [Store!Next]_(Store!vars)

\* A failed append stays behind with its log.
LEMMA TornStays ==
  ASSUME TornInv, ResultsStay, db' # None /\ db'.torn => db # None /\ db.torn
  PROVE  TornInv'
  <1>1. "error" # None
    BY NoneAssumption
  <1> QED
    BY <1>1 DEF TornInv, ResultsStay

\* Who moves on in Write has not returned.
LEMMA QuietMoves ==
  ASSUME result' = result, \A w \in Writers : pc'[w] = pc[w] \/ (pc[w] \in InQueue /\ pc'[w] \in InQueue)
  PROVE  Quiet /\ \A w \in Writers : pc[w] \in {"done", "dead"} => pc'[w] \in {"done", "dead"}
  <1>1. \A w \in Writers : pc[w] \in InQueue => Status(w) = "called"
    BY DEF InQueue, Status
  <1>2. \A w \in Writers : pc'[w] \in InQueue => Status(w)' = "called"
    BY DEF InQueue, Status
  <1>3. \A w \in Writers : pc'[w] = pc[w] => Status(w)' = Status(w)
    BY DEF Status
  <1>4. Quiet
    BY <1>1, <1>2, <1>3 DEF Quiet
  <1>5. \A w \in Writers : pc[w] \in {"done", "dead"} => pc'[w] \in {"done", "dead"}
    BY DEF InQueue
  <1> QED
    BY <1>4, <1>5

\* The first n writers return s.
LEMMA LeaveStatus ==
  ASSUME ThreadTypes, QueueInv, NEW n \in DOMAIN queue, NEW s \in {"ok", "unsure", "error"}, Leave(n, s)
  PROVE  LET W == {queue[i] : i \in 1 .. n} \cap Writers
         IN  /\ \A w \in W : Status(w) = "called" /\ pc[w] \in InQueue /\ pc'[w] = "done"
             /\ Given(W, s) /\ group' = None
             /\ \A w \in Writers : pc[w] \in {"done", "dead"} => pc'[w] \in {"done", "dead"}
  <1> DEFINE left == {queue[i] : i \in 1 .. n}
             W == left \cap Writers
  <1>1. /\ result' = [t \in Threads |-> IF t \in left THEN s ELSE result[t]]
        /\ pc' = [t \in Threads |-> IF t \in left THEN "done"
                                    ELSE IF n < Len(queue) /\ t = queue[n + 1] THEN "front"
                                    ELSE pc[t]]
        /\ group' = None
    BY DEF Leave
  <1>2. \A i \in 1 .. n : i \in DOMAIN queue /\ queue[i] \in Threads
    BY DEF ThreadTypes
  <1>3. \A w \in left : w \in Threads /\ pc[w] \in InQueue
    BY <1>2 DEF QueueInv
  <1>4. n < Len(queue) => queue[n + 1] \in Threads /\ pc[queue[n + 1]] \in InQueue
    <2> SUFFICES ASSUME n < Len(queue) PROVE queue[n + 1] \in Threads /\ pc[queue[n + 1]] \in InQueue
      OBVIOUS
    <2>1. n + 1 \in DOMAIN queue /\ queue[n + 1] \in Threads
      BY DEF ThreadTypes
    <2> QED
      BY <2>1 DEF QueueInv
  <1>5. Writers \subseteq Threads
    BY DEF Threads
  <1> HIDE DEF left
  <1>6. \A w \in W : Status(w) = "called" /\ pc[w] \in InQueue /\ pc'[w] = "done"
    BY <1>1, <1>3, <1>5 DEF Status, InQueue
  <1>7. Given(W, s)
    <2>1. \A w \in W : Status(w)' = s
      BY <1>1, <1>5 DEF Status
    <2>2. ASSUME NEW w \in Writers, w \notin W PROVE Status(w)' = Status(w)
      <3>1. w \notin left /\ w \in Threads
        BY <1>5, <2>2
      <3>2. result'[w] = result[w]
        BY <1>1, <3>1
      <3>3. pc'[w] = pc[w] \/ (pc'[w] = "front" /\ pc[w] \in InQueue)
        BY <1>1, <1>4, <3>1
      <3> QED
        BY <3>2, <3>3 DEF Status, InQueue
    <2> QED
      BY <2>1, <2>2 DEF Given
  <1>8. \A w \in Writers : pc[w] \in {"done", "dead"} => pc'[w] \in {"done", "dead"}
    <2> SUFFICES ASSUME NEW w \in Writers, pc[w] \in {"done", "dead"} PROVE pc'[w] \in {"done", "dead"}
      OBVIOUS
    <2>1. pc[w] \notin InQueue
      BY DEF InQueue
    <2> QED
      BY <1>1, <1>3, <1>4, <1>5, <2>1
  <1> QED
    BY <1>1, <1>6, <1>7, <1>8 DEF left

\* The writers of a group wait for it, and a reader does not see them.
LEMMA GroupWriters ==
  ASSUME IInv, OwnersInv, GroupInv, group # None
  PROVE  LET W == group.record.batches
         IN  /\ W = {queue[i] : i \in 1 .. group.size} \cap Writers
             /\ W \subseteq Writers /\ W \cap Visible = {} /\ group.size \in DOMAIN queue
             /\ \A w \in W : pc[w] \in InQueue /\ Status(w) = "called"
  <1> DEFINE W == group.record.batches
  <1>1. W = {queue[i] : i \in 1 .. group.size} \cap Writers
    BY DEF GroupInv
  <1>2. queue \in Seq(Threads) /\ group.size \in DOMAIN queue
    BY DEF IInv, ThreadTypes, QueueInv
  <1>3. \A i \in 1 .. group.size : i \in DOMAIN queue /\ queue[i] \in Threads
    BY <1>2
  <1>4. \A w \in W : pc[w] \in InQueue
    BY <1>1, <1>3 DEF IInv, QueueInv
  <1>5. \A w \in W : Status(w) = "called"
    BY <1>4 DEF InQueue, Status
  <1>6. \A w \in W : w \notin Visible
    <2> SUFFICES ASSUME NEW w \in W, w \in Visible PROVE FALSE
      OBVIOUS
    <2>1. PICK r : Seen(r) /\ w \in r.batches
      BY VisibleAre
    <2>2. pc[w] \in {"done", "dead"}
      BY <2>1 DEF OwnersInv
    <2> QED
      BY <1>4, <2>2 DEF InQueue
  <1> QED
    BY <1>1, <1>2, <1>4, <1>5, <1>6

\* A step of which writers and readers see nothing.
LEMMA CalmStep ==
  ASSUME IInv, IInv', OwnersInv, Hardens, result' = result, GroupInv', TornInv',
         \A w \in Writers : pc'[w] = pc[w] \/ (pc[w] \in InQueue /\ pc'[w] \in InQueue),
         group' = group \/ group = None
  PROVE  Implemented
  <1>1. Quiet /\ \A w \in Writers : pc[w] \in {"done", "dead"} => pc'[w] \in {"done", "dead"}
    BY QuietMoves
  <1>2. /\ Safe \subseteq Safe'
        /\ \A r : Lasts(r) => Lasts(r)'
        /\ \A r : Lasts(r)' => Lasts(r) \/ Seen(r)
        /\ \A r : Seen(r)' <=> Seen(r)
    BY DEF Hardens
  <1>3. Visible' = Visible /\ Kept \subseteq Kept' /\ Kept' \subseteq Kept \cup Visible
    <2>1. Visible' = Visible
      BY <1>2, VisibleSame
    <2>2. Kept \subseteq Kept'
      BY <1>2 DEF Kept, Batches, Lasts
    <2>3. Kept' \subseteq Kept \cup Visible
      <3> SUFFICES ASSUME NEW w \in Kept' PROVE w \in Kept \cup Visible
        OBVIOUS
      <3>1. PICK r : Lasts(r)' /\ w \in r.batches
        BY DEF Kept, Batches, Lasts
      <3>2. CASE Lasts(r)
        BY <3>1, <3>2 DEF Kept, Batches, Lasts
      <3>3. CASE Seen(r)
        BY <3>1, <3>3, VisibleAre
      <3> QED
        BY <1>2, <3>1, <3>2, <3>3
    <2> QED
      BY <2>1, <2>2, <2>3
  <1>4. \A r : NewRecord(r) => NewRecord(r)'
    BY DEF NewRecord
  <1>5. OwnersInv'
    BY <1>1, <1>2, <1>4, OwnersKept
  <1>6. Store!Next
    BY <1>1, <1>2, <1>3, StepHarden
  <1> QED
    BY <1>5, <1>6 DEF Implemented

\* The background thread, recovery and iterators leave the threads in Write alone, but to wake some.
LEMMA BackgroundStep ==
  ASSUME IInv, IInv', OwnersInv, GroupInv, TornInv, Hardens, UNCHANGED <<queue, group, result>>,
         UNCHANGED pc \/ SignalAll,
         db # None => db' # None /\ db'.logfile = db.logfile /\ db'.torn = db.torn /\ logs'[db.logfile] = logs[db.logfile],
         db = None => db' = None \/ ~db'.torn
  PROVE  Implemented
  <1>1. \A t \in Threads : /\ pc'[t] = pc[t] \/ (pc[t] \in InQueue /\ pc'[t] \in InQueue)
                           /\ pc[t] \in Busy => pc'[t] = pc[t]
    BY DEF SignalAll, InQueue, Busy
  <1>2. GroupInv'
    <2>1. ASSUME group # None
          PROVE  /\ pc'[queue[1]] = pc[queue[1]]
                 /\ db'.logfile = db.logfile /\ db'.torn = db.torn /\ logs'[db.logfile] = logs[db.logfile]
                 /\ db.logfile \in DOMAIN logs /\ db.logfile \in DOMAIN logs'
      <3>1. queue # <<>> /\ pc[queue[1]] \in Busy /\ queue[1] \in Threads
        BY <2>1 DEF IInv, QueueInv, ThreadTypes
      <3>2. db # None
        BY <3>1 DEF IInv, Core, StoreInv
      <3>3. db.logfile \in DOMAIN logs /\ db'.logfile \in DOMAIN logs'
        BY <3>2 DEF IInv, Core, NumbersInv
      <3> QED
        BY <1>1, <3>1, <3>2, <3>3
    <2> QED
      BY <2>1, GroupKept
  <1>3. \A w \in Writers : pc'[w] = pc[w] \/ (pc[w] \in InQueue /\ pc'[w] \in InQueue)
    BY <1>1 DEF Threads
  <1>4. ResultsStay
    BY DEF ResultsStay
  <1>5. TornInv'
    BY <1>4, TornStays
  <1> QED
    BY <1>2, <1>3, <1>5, CalmStep

\* Writers leave with an error, or a thread that asked for a flush without one.
LEMMA FailStep ==
  ASSUME IInv, IInv', OwnersInv, Unseen, NEW n \in DOMAIN queue, NEW s \in {"ok", "error"}, Leave(n, s),
         group = None \/ n = group.size, GroupInv, TornInv',
         s = "ok" => {queue[i] : i \in 1 .. n} \cap Writers = {}
  PROVE  Implemented
  <1> DEFINE W == {queue[i] : i \in 1 .. n} \cap Writers
  <1>0. ThreadTypes /\ QueueInv
    BY DEF IInv
  <1>1. /\ \A w \in W : Status(w) = "called" /\ pc'[w] = "done"
        /\ Given(W, s) /\ group' = None /\ W \in SUBSET Writers
        /\ \A w \in Writers : pc[w] \in {"done", "dead"} => pc'[w] \in {"done", "dead"}
    BY <1>0, LeaveStatus
  <1>2. group # None => group.record.batches = W
    BY DEF GroupInv
  <1>3. s = "ok" => W = {}
    OBVIOUS
  <1> HIDE DEF W
  <1>4. /\ Safe' = Safe
        /\ \A r : Lasts(r)' <=> Lasts(r)
        /\ \A r : Seen(r)' <=> Seen(r)
    BY DEF Unseen
  <1>5. Visible' = Visible /\ Kept' = Kept
    BY <1>4, VisibleSame, KeptSame
  <1>6. OwnersInv'
    <2>1. \A r : NewRecord(r) => \A w \in r.batches : pc'[w] \in {"done", "dead"}
      BY <1>1, <1>2 DEF NewRecord
    <2> QED
      BY <1>1, <1>4, <2>1, OwnersKept
  <1>7. [Store!Next]_(Store!vars)
    <2>1. CASE s = "error"
      BY <1>1, <1>4, <1>5, <2>1, StepFail
    <2>2. CASE s = "ok"
      <3>1. Quiet
        BY <1>1, <1>3, <2>2 DEF Given, Quiet
      <3> QED
        BY <1>4, <1>5, <3>1, Stutters
    <2> QED
      BY <2>1, <2>2
  <1>8. GroupInv'
    BY <1>1 DEF GroupInv
  <1> QED
    BY <1>6, <1>7, <1>8 DEF Implemented

\* The first writer takes others with it into a group.
LEMMA GroupStep ==
  ASSUME IInv, IInv', OwnersInv, TornInv', Unseen, group = None,
         NEW t \in Threads, t \notin Flushers, pc[t] = "front", NEW d \in Stores, GroupWith(d),
         \A r : InLog(logs', db'.logfile, r) => Lasts(r)
  PROVE  Implemented
  <1>0. ThreadTypes /\ QueueInv
    BY DEF IInv
  <1>1. queue # <<>> /\ 1 \in DOMAIN queue /\ queue[1] = t /\ Head(queue) = t
    BY <1>0, FirstIsAwake DEF InQueue
  <1>2. UNCHANGED <<queue, result>> /\ pc' = [pc EXCEPT ![t] = "append"]
    BY <1>1 DEF GroupWith
  <1>3. /\ pc'[t] = "append"
        /\ \A w \in Threads : pc'[w] = pc[w] \/ (pc[w] \in InQueue /\ pc'[w] \in InQueue)
    BY <1>0, <1>2 DEF ThreadTypes, InQueue
  <1>4. GroupInv'
    <2>1. PICK n \in BuildBatchGroup :
            group' = [size |-> n, record |-> [seq |-> d.last + 1,
                                              batches |-> {queue[i] : i \in 1 .. n} \cap Writers]]
      BY DEF GroupWith
    <2>2. group'.size = n /\ group'.record.batches = {queue[i] : i \in 1 .. n} \cap Writers
      BY <2>1
    <2>3. Head(queue) \in SyncWriters \/ \A i \in 1 .. n : queue[i] \notin SyncWriters
      BY DEF BuildBatchGroup
    <2>4. queue[1] \in SyncWriters \/ group'.record.batches \cap SyncWriters = {}
      BY <1>1, <2>2, <2>3
    <2>5. t \in Writers /\ queue'[1] = t
      BY <1>1, <1>2 DEF Threads
    <2>6. t \in group'.record.batches
      <3>1. n \in 1 .. Len(queue) /\ 1 \in 1 .. n
        <4>1. queue \in Seq(Threads)
          BY <1>0 DEF ThreadTypes
        <4> QED
          BY <4>1 DEF BuildBatchGroup
      <3> QED
        BY <1>1, <2>2, <2>5, <3>1
    <2>7. ~InLog(logs', db'.logfile, group'.record)
      <3> SUFFICES ASSUME InLog(logs', db'.logfile, group'.record) PROVE FALSE
        OBVIOUS
      <3>1. Lasts(group'.record)
        OBVIOUS
      <3>2. PICK new : new = group'.record
        OBVIOUS
      <3>3. Lasts(new) /\ ~NewRecord(new)
        BY <3>1, <3>2 DEF NewRecord
      <3>4. pc[t] \in {"done", "dead"}
        BY <2>6, <3>2, <3>3 DEF OwnersInv
      <3> QED
        BY <3>4
    <2> QED
      BY <1>1, <1>2, <1>3, <2>2, <2>4, <2>5, <2>7 DEF GroupInv
  <1>5. \A w \in Writers : pc'[w] = pc[w] \/ (pc[w] \in InQueue /\ pc'[w] \in InQueue)
    BY <1>3 DEF Threads
  <1>6. Hardens
    BY DEF Hardens, Unseen
  <1>7. result' = result
    BY <1>2
  <1> QED
    BY <1>4, <1>5, <1>6, <1>7, CalmStep

\* What a thread in Write does with no group: it takes one, fails, waits or changes memtables.
LEMMA FrontSteps ==
  ASSUME NoMemTable, IInv, IInv', RInv, ResultsStay, NEW t \in Threads,
         WriteInRoom(t) \/ FailAfterError(t) \/ WaitForRoom(t) \/ SwitchMemTable(t)
  PROVE  DiskInv' /\ Implemented
  <1>0. /\ ThreadTypes /\ QueueInv /\ Types /\ Core /\ DiskInv /\ OwnersInv /\ GroupInv /\ TornInv
        /\ db # None /\ db \in Stores
    <2>1. Types /\ Core /\ StoreInv /\ ThreadTypes /\ QueueInv
      BY DEF IInv, Core, Types
    <2>2. Writing(t)
      BY DEF Writing
    <2>3. db # None /\ db \in Stores
      BY <2>1, <2>2, WritersHaveStore
    <2> QED
      BY <2>1, <2>3 DEF RInv
  <1>1. pc[t] = "front" /\ group = None
    <2>1. pc[t] = "front"
      BY DEF WriteInRoom, FailAfterError, WaitForRoom, SwitchMemTable
    <2> QED
      BY <1>0, <2>1, GroupOfWriter
  <1>2. 1 \in DOMAIN queue /\ queue[1] = t
    BY <1>0, <1>1, FirstIsAwake DEF InQueue
  <1>3. UNCHANGED <<disk, db, bg, edit>> => DiskInv' /\ Unseen /\ TornInv'
    <2> SUFFICES ASSUME UNCHANGED <<disk, db, bg, edit>> PROVE DiskInv' /\ Unseen /\ TornInv'
      OBVIOUS
    <2>1. \A r : NewRecord(r) => FALSE
      BY <1>1 DEF NewRecord
    <2>2. DiskInv' /\ Unseen
      BY <1>0, <2>1, DiskQuiet
    <2> QED
      BY <1>0, <2>2, TornStays
  <1>4. CASE WriteInRoom(t)
    <2>1. UNCHANGED <<disk, db, bg, edit>> /\ GroupWith(db) /\ t \notin Flushers
      BY <1>4 DEF WriteInRoom, HasRoom
    <2>2. \A r : InLog(logs', db'.logfile, r) => Lasts(r)
      <3>1. db.log \in Nat /\ db.logfile \in Nat /\ db.log <= db.logfile
        BY <1>0, OldTables
      <3>2. \A r : InLog(logs, db.logfile, r) => InLogs(logs, db.log, r)
        BY <3>1 DEF InLog, InLogs
      <3>3. \A r : InLogs(logs, db.log, r) => Lasts(r)
        BY <1>0 DEF DiskInv, SameInv, OnDisk
      <3> QED
        BY <2>1, <3>2, <3>3 DEF disk
    <2> QED
      BY <1>0, <1>1, <1>3, <2>1, <2>2, GroupStep
  <1>5. CASE FailAfterError(t)
    <2>1. UNCHANGED <<disk, db, bg, edit>> /\ Leave(1, "error")
      BY <1>5 DEF FailAfterError
    <2>2. Unseen /\ DiskInv' /\ TornInv'
      BY <1>3, <2>1
    <2> QED
      BY <1>0, <1>1, <1>2, <2>1, <2>2, FailStep
  <1>6. CASE WaitForRoom(t)
    <2>1. UNCHANGED <<disk, db, bg, edit, queue, group, result>> /\ pc' = [pc EXCEPT ![t] = "waiting"]
      BY <1>6 DEF WaitForRoom
    <2>2. Unseen /\ DiskInv' /\ TornInv'
      BY <1>3, <2>1
    <2>3. \A w \in Writers : pc'[w] = pc[w] \/ (pc[w] \in InQueue /\ pc'[w] \in InQueue)
      BY <1>0, <1>1, <2>1 DEF ThreadTypes, InQueue, Threads
    <2>4. GroupInv'
      BY <1>1, <2>1 DEF GroupInv
    <2>5. Hardens
      BY <2>2 DEF Hardens, Unseen
    <2> QED
      BY <1>0, <1>1, <2>1, <2>2, <2>3, <2>4, <2>5, CalmStep
  <1>7. CASE SwitchMemTable(t)
    <2>1. UNCHANGED <<tables, manifests, current, bg, edit>> /\ ~db.bgError /\ db.imm = None
      BY <1>7 DEF SwitchMemTable, MustWait
    <2>2. CASE Leave(1, "error") /\ UNCHANGED <<logs, db>>
      <3>1. Unseen /\ DiskInv' /\ TornInv'
        BY <1>3, <2>1, <2>2 DEF disk
      <3> QED
        BY <1>0, <1>1, <1>2, <2>2, <3>1, FailStep
    <2>3. CASE /\ logs' = Put(logs, db.next, EmptyFile)
               /\ LET d == [db EXCEPT !.next = @ + 1, !.logfile = db.next, !.imm = db.mem, !.mem = {},
                                     !.torn = FALSE]
                  IN  db' = Scheduled(d)
               /\ IF t \in Flushers THEN Leave(1, "ok") ELSE GroupWith(db)
      <3>1. db' = Scheduled(Switch(db))
        BY <2>3 DEF Switch
      <3>2. DiskInv' /\ Unseen
        BY <1>0, <1>1, <2>1, <2>3, <3>1, DiskSwitch
      <3>5. ~db'.torn
        BY <1>0, <3>1, Switched
      <3>6. TornInv'
        BY <1>0, <3>5, TornStays
      <3>7. \A r : InLog(logs', db'.logfile, r) => Lasts(r)
        <4>1. db'.logfile = db.next
          BY <1>0, <3>1, Switched
        <4>2. logs'[db.next] = EmptyFile
          BY <2>3 DEF Put
        <4> QED
          BY <4>1, <4>2 DEF InLog, EmptyFile
      <3>3. CASE t \in Flushers
        <4>1. {queue[i] : i \in 1 .. 1} \cap Writers = {}
          <5>1. t \notin Writers
            BY <3>3, ConstantsAssumption
          <5>2. \A i \in 1 .. 1 : i = 1
            OBVIOUS
          <5> QED
            BY <1>2, <5>1, <5>2
        <4> QED
          BY <1>0, <1>1, <1>2, <2>3, <3>2, <3>3, <3>6, <4>1, FailStep
      <3>4. CASE t \notin Flushers
        BY <1>0, <1>1, <2>3, <3>2, <3>4, <3>6, <3>7, GroupStep
      <3> QED
        BY <3>2, <3>3, <3>4
    <2> QED
      BY <1>7, <2>2, <2>3 DEF SwitchMemTable
  <1> QED
    BY <1>4, <1>5, <1>6, <1>7

\* The group is logged, or its record is lost behind a failed one, or the append fails.
LEMMA LogStep ==
  ASSUME IInv, IInv', RInv, ResultsStay, NEW t \in Threads, AddRecord(t)
  PROVE  DiskInv' /\ Implemented
  <1>0. /\ ThreadTypes /\ QueueInv /\ DiskInv /\ OwnersInv /\ GroupInv /\ TornInv /\ pc[t] \in Busy
        /\ group # None /\ group.record \in Records /\ queue[1] = t /\ db # None
    <2>1. ThreadTypes /\ QueueInv /\ DiskInv /\ OwnersInv /\ GroupInv /\ TornInv /\ pc[t] \in Busy
      BY DEF IInv, RInv, AddRecord, Busy
    <2>2. group # None /\ group.record \in Records
      BY <2>1, GroupOfWriter
    <2>3. queue # <<>> /\ queue[1] = t
      BY <2>1, FirstIsAwake DEF Busy, InQueue
    <2> QED
      BY <2>1, <2>2, <2>3 DEF IInv, Core, StoreInv
  <1> DEFINE p == IF t \in SyncWriters THEN "sync" ELSE "insert"
  <1>1. UNCHANGED <<tables, manifests, current, bg, edit>>
    BY DEF AddRecord
  <1>2. /\ group.size \in DOMAIN queue /\ db \in Stores
        /\ ~InLog(logs, db.logfile, group.record) /\ queue[1] \in Writers
    <2>1. group.size \in DOMAIN queue /\ pc[queue[1]] = "append"
      BY <1>0, GroupOfWriter DEF AddRecord
    <2> QED
      BY <1>0, <2>1, StoreFacts DEF GroupInv, IInv
  <1>3. ASSUME pc' = [pc EXCEPT ![t] = p]
        PROVE  pc'[t] = p /\ \A w \in Writers : pc'[w] = pc[w] \/ (pc[w] \in InQueue /\ pc'[w] \in InQueue)
    BY <1>0, <1>3 DEF ThreadTypes, InQueue, Busy, Threads
  <1>4. p \in {"sync", "insert"} /\ (p = "insert" => t \notin SyncWriters)
    OBVIOUS
  <1> HIDE DEF p
  <1>5. CASE /\ logs' = [logs EXCEPT ![db.logfile] = Added(@, group.record)]
             /\ pc' = [pc EXCEPT ![t] = p] /\ UNCHANGED <<db, queue, group, result>>
    <2> DEFINE W == group.record.batches
    <2>1. /\ DiskInv' /\ Safe' = Safe
          /\ \A r : Lasts(r)' <=> Lasts(r) \/ r = group.record
          /\ \A r : Seen(r)' <=> Seen(r)
          /\ InLog(logs', db.logfile, group.record)
      BY <1>0, <1>1, <1>5, DiskAdd
    <2>2. /\ W \in SUBSET Writers /\ W \cap Visible = {} /\ \A w \in W : Status(w) = "called"
      BY <1>0, GroupWriters
    <2> HIDE DEF W
    <2>3. Quiet /\ \A w \in Writers : pc[w] \in {"done", "dead"} => pc'[w] \in {"done", "dead"}
      BY <1>3, <1>5, QuietMoves
    <2>4. OwnersInv'
      <3>1. \A r : Lasts(r)' => Lasts(r) \/ NewRecord(r)'
        BY <1>0, <1>5, <2>1 DEF NewRecord
      <3>2. \A r : NewRecord(r) => NewRecord(r)'
        BY <1>5 DEF NewRecord
      <3> QED
        BY <1>0, <2>1, <2>3, <3>1, <3>2, OwnersKept
    <2>5. GroupInv'
      BY <1>0, <1>3, <1>4, <1>5, <2>1 DEF GroupInv
    <2>6. TornInv'
      BY <1>0, <1>5, TornStays
    <2>7. Visible' = Visible
      BY <2>1, VisibleSame
    <2>8. Kept' = Kept \cup W
      BY <2>1 DEF Kept, Batches, Lasts, W
    <2>9. Store!Next
      BY <2>1, <2>2, <2>3, <2>7, <2>8, StepLog
    <2> QED
      BY <2>1, <2>4, <2>5, <2>6, <2>9 DEF Implemented
  <1>6. CASE db.torn /\ UNCHANGED logs /\ pc' = [pc EXCEPT ![t] = p] /\ UNCHANGED <<db, queue, group, result>>
    <2>1. DiskInv' /\ Unseen
      <3>1. \A r : NewRecord(r) => NewRecord(r)'
        BY <1>6 DEF NewRecord
      <3> QED
        BY <1>0, <1>1, <1>6, <3>1, DiskQuiet DEF disk
    <2>2. GroupInv'
      BY <1>0, <1>3, <1>4, <1>6 DEF GroupInv
    <2>3. TornInv'
      BY <1>0, <1>6, TornStays
    <2>4. Hardens
      BY <2>1 DEF Hardens, Unseen
    <2> QED
      BY <1>0, <1>3, <1>6, <2>1, <2>2, <2>3, <2>4, CalmStep
  <1>7. CASE db' = WithSequence([db EXCEPT !.torn = TRUE]) /\ Leave(group.size, "error") /\ UNCHANGED logs
    <2> DEFINE e == [db EXCEPT !.torn = TRUE]
    <2>1. /\ e \in Stores /\ e.l0 = db.l0 /\ e.deep = db.deep /\ e.log = db.log /\ e.logfile = db.logfile
          /\ e.mem = db.mem /\ e.imm = db.imm /\ e.bgError = db.bgError
      BY <1>2, Torn
    <2>2. db' = WithSequence(e)
      BY <1>7
    <2> HIDE DEF e
    <2>3. /\ db' # None /\ db'.l0 = db.l0 /\ db'.deep = db.deep /\ db'.log = db.log /\ db'.logfile = db.logfile
          /\ db'.mem = db.mem /\ db'.imm = db.imm /\ db'.bgError = db.bgError
      BY <1>0, <2>1, <2>2, Sequenced
    <2>4. DiskInv' /\ Unseen
      <3>1. \A r : ~(NewRecord(r) /\ InLog(logs, db.logfile, r))
        BY <1>2 DEF NewRecord
      <3> QED
        BY <1>0, <1>1, <1>7, <2>3, <3>1, DiskQuiet DEF disk
    <2>5. TornInv'
      <3>1. result'[queue[1]] = "error"
        <4>1. result' = [u \in Threads |-> IF u \in {queue[i] : i \in 1 .. group.size} THEN "error" ELSE result[u]]
          BY <1>7 DEF Leave
        <4>2. 1 \in 1 .. group.size /\ queue[1] \in Threads
          <5>1. queue \in Seq(Threads) /\ group.size \in 1 .. Len(queue)
            BY <1>0, <1>2 DEF ThreadTypes
          <5> QED
            BY <1>0, <5>1
        <4> QED
          BY <4>1, <4>2
      <3> QED
        BY <1>2, <3>1 DEF TornInv
    <2> QED
      BY <1>0, <1>2, <1>7, <2>4, <2>5, FailStep
  <1> QED
    BY <1>5, <1>6, <1>7 DEF AddRecord, p

\* The log is synced for the group, or that fails.
LEMMA SyncStep ==
  ASSUME IInv, IInv', RInv, ResultsStay, NEW t \in Threads, SyncLog(t)
  PROVE  DiskInv' /\ Implemented
  <1>0. /\ ThreadTypes /\ QueueInv /\ DiskInv /\ OwnersInv /\ GroupInv /\ TornInv /\ pc[t] = "sync" /\ pc[t] \in Busy
        /\ group # None /\ group.record \in Records /\ group.size \in DOMAIN queue
        /\ queue[1] = t /\ db # None /\ db \in Stores
    <2>1. ThreadTypes /\ QueueInv /\ DiskInv /\ OwnersInv /\ GroupInv /\ TornInv /\ pc[t] = "sync" /\ pc[t] \in Busy
      BY DEF IInv, RInv, SyncLog, Busy
    <2>2. group # None /\ group.record \in Records /\ group.size \in DOMAIN queue
      BY <2>1, GroupOfWriter
    <2>3. queue # <<>> /\ queue[1] = t
      BY <2>1, FirstIsAwake DEF Busy, InQueue
    <2>4. db # None
      BY <2>3 DEF IInv, Core, StoreInv
    <2> QED
      BY <2>1, <2>2, <2>3, <2>4, StoreFacts DEF IInv
  <1>1. UNCHANGED <<tables, manifests, current, bg, edit>>
    BY DEF SyncLog
  <1>2. CASE /\ logs' = [logs EXCEPT ![db.logfile] = Synced(@)] /\ pc' = [pc EXCEPT ![t] = "insert"]
             /\ UNCHANGED <<db, queue, group, result>>
    <2>1. /\ DiskInv' /\ Hardens
          /\ \A r : InLog(logs', db.logfile, r) <=> InLog(logs, db.logfile, r)
          /\ logs'[db.logfile].synced = Len(logs'[db.logfile].recs)
      BY <1>0, <1>1, <1>2, DiskHarden
    <2>2. \A w \in Writers : pc'[w] = pc[w] \/ (pc[w] \in InQueue /\ pc'[w] \in InQueue)
      BY <1>0, <1>2 DEF ThreadTypes, InQueue, Busy, Threads
    <2>3. GroupInv'
      <3>1. db.torn \/ InLog(logs', db.logfile, group.record)
        BY <1>0, <2>1 DEF GroupInv
      <3>2. pc'[queue[1]] = "insert"
        BY <1>0, <1>2 DEF ThreadTypes
      <3> QED
        BY <1>0, <1>2, <2>1, <3>1, <3>2 DEF GroupInv
    <2>4. TornInv'
      BY <1>0, <1>2, TornStays
    <2> QED
      BY <1>0, <1>2, <2>1, <2>2, <2>3, <2>4, CalmStep
  <1>3. CASE db' = WithError(WithSequence(db)) /\ Leave(group.size, "error") /\ UNCHANGED logs
    <2>1. /\ db'.l0 = db.l0 /\ db'.deep = db.deep /\ db'.log = db.log /\ db'.logfile = db.logfile
          /\ db'.mem = db.mem /\ db'.imm = db.imm /\ db'.next = db.next /\ db'.pending = db.pending
          /\ db'.bgError /\ db'.torn = db.torn
      BY <1>0, <1>3 DEF WithError, WithSequence, Stores
    <2>2. db' # None
      <3>1. Cardinality(group.record.batches) \in Nat /\ db.last \in Nat
        BY <1>0, RecordSize, Fields
      <3>2. WithSequence(db) \in Stores
        BY <1>0, <3>1 DEF WithSequence, Stores
      <3> QED
        BY <1>3, <3>2, Calls, Fields DEF SameButCall
    <2>3. DiskInv' /\ Unseen
      BY <1>0, <1>1, <1>3, <2>1, <2>2, DiskQuiet DEF disk
    <2>4. TornInv'
      BY <1>0, <2>1, TornStays
    <2> QED
      BY <1>0, <1>3, <2>3, <2>4, FailStep
  <1> QED
    BY <1>2, <1>3 DEF SyncLog

\* The group comes to the memtable and its writers return: what they asked to be synced is.
LEMMA InsertStep ==
  ASSUME IInv, IInv', RInv, ResultsStay, NEW t \in Threads, InsertInto(t)
  PROVE  DiskInv' /\ Implemented
  <1>0. /\ ThreadTypes /\ QueueInv /\ DiskInv /\ OwnersInv /\ GroupInv /\ TornInv /\ pc[t] = "insert" /\ pc[t] \in Busy
        /\ group # None /\ group.record \in Records /\ group.size \in DOMAIN queue
        /\ queue[1] = t /\ db # None /\ db \in Stores
    <2>1. ThreadTypes /\ QueueInv /\ DiskInv /\ OwnersInv /\ GroupInv /\ TornInv /\ pc[t] = "insert" /\ pc[t] \in Busy
      BY DEF IInv, RInv, InsertInto, Busy
    <2>2. group # None /\ group.record \in Records /\ group.size \in DOMAIN queue
      BY <2>1, GroupOfWriter
    <2>3. queue # <<>> /\ queue[1] = t
      BY <2>1, FirstIsAwake DEF Busy, InQueue
    <2>4. db # None
      BY <2>3 DEF IInv, Core, StoreInv
    <2> QED
      BY <2>1, <2>2, <2>3, <2>4, StoreFacts DEF IInv
  <1>n. PICK new : new = group.record
    OBVIOUS
  <1> DEFINE W == group.record.batches
             k == db.logfile
             s == IF db.torn THEN "unsure" ELSE "ok"
  <1>1. /\ db' = WithSequence([db EXCEPT !.mem = @ \cup {group.record}]) /\ Leave(group.size, s)
        /\ UNCHANGED <<logs, tables, manifests, current, bg, edit>>
    BY DEF InsertInto, disk
  <1>2. ~db.torn => InLog(logs, k, new)
    BY <1>0, <1>n DEF GroupInv
  <1>3. /\ db'.l0 = db.l0 /\ db'.deep = db.deep /\ db'.log = db.log /\ db'.logfile = db.logfile
        /\ db'.imm = db.imm /\ db'.next = db.next /\ db'.pending = db.pending /\ db'.bgError = db.bgError
        /\ db'.mem = db.mem \cup {group.record} /\ db'.torn = db.torn /\ db' # None
    <2> DEFINE M == db.mem \cup {group.record}
               e == [db EXCEPT !.mem = M]
               last == e.last + Cardinality(group.record.batches)
    <2>1. M \in SUBSET Records /\ Cardinality(group.record.batches) \in Nat /\ db.last \in Nat
      BY <1>0, RecordSize, Fields
    <2> HIDE DEF M
    <2>2. /\ e \in Stores /\ e.l0 = db.l0 /\ e.deep = db.deep /\ e.log = db.log /\ e.logfile = db.logfile
          /\ e.imm = db.imm /\ e.next = db.next /\ e.pending = db.pending /\ e.bgError = db.bgError
          /\ e.mem = M /\ e.last = db.last /\ e.torn = db.torn
      BY <1>0, <2>1 DEF Stores
    <2>3. db' = [e EXCEPT !.last = last]
      BY <1>1 DEF WithSequence, M
    <2> HIDE DEF e
    <2>4. last \in Nat
      BY <2>1, <2>2
    <2> HIDE DEF last
    <2>5. /\ db' \in Stores /\ db'.l0 = e.l0 /\ db'.deep = e.deep /\ db'.log = e.log /\ db'.logfile = e.logfile
          /\ db'.imm = e.imm /\ db'.next = e.next /\ db'.pending = e.pending /\ db'.bgError = e.bgError
          /\ db'.mem = e.mem /\ db'.torn = e.torn
      BY <2>2, <2>3, <2>4 DEF Stores
    <2> QED
      BY <2>2, <2>5, Fields DEF M
  <1>4. group' = None
    BY <1>1 DEF Leave
  <1>6. /\ W \in SUBSET Writers /\ W \cap Visible = {} /\ \A w \in W : Status(w) = "called"
        /\ W = {queue[i] : i \in 1 .. group.size} \cap Writers
    BY <1>0, GroupWriters
  <1>7. /\ Given(W, s) /\ \A w \in W : pc'[w] = "done"
        /\ \A w \in Writers : pc[w] \in {"done", "dead"} => pc'[w] \in {"done", "dead"}
    <2>1. s \in {"ok", "unsure", "error"}
      OBVIOUS
    <2> HIDE DEF s
    <2> QED
      BY <1>0, <1>1, <1>6, <2>1, LeaveStatus
  <1>u. db.torn => Unsure(new)'
    <2> SUFFICES ASSUME db.torn, NEW w \in W PROVE w \in Writers /\ result'[w] = "unsure"
      BY <1>n DEF Unsure
    <2>1. w \in Writers /\ w \in {queue[i] : i \in 1 .. group.size}
      BY <1>6
    <2>2. result' = [u \in Threads |-> IF u \in {queue[i] : i \in 1 .. group.size} THEN "unsure" ELSE result[u]]
      BY <1>1 DEF Leave
    <2> QED
      BY <2>1, <2>2 DEF Threads
  <1>5. /\ DiskInv' /\ Safe' = Safe
        /\ \A r : Lasts(r)' <=> Lasts(r)
        /\ \A r : Seen(r)' <=> Seen(r) \/ r = new
    BY <1>0, <1>1, <1>2, <1>3, <1>4, <1>n, <1>u, DiskInsert
  <1>8. ~db.torn => W \subseteq Kept
    <2> SUFFICES ASSUME ~db.torn PROVE W \subseteq Kept
      OBVIOUS
    <2>1. db.log \in Nat /\ k \in Nat /\ db.log <= k
      BY <1>0, StoreFacts, Fields DEF IInv
    <2>2. InLogs(logs, db.log, new)
      BY <1>2, <2>1 DEF InLog, InLogs
    <2>3. Lasts(new)
      BY <1>0, <2>2 DEF DiskInv, SameInv, OnDisk
    <2> QED
      BY <1>n, <2>3 DEF Lasts, Kept, Batches
  <1>9. ~db.torn => W \cap SyncWriters \subseteq Safe
    <2> SUFFICES ASSUME ~db.torn PROVE W \cap SyncWriters \subseteq Safe
      OBVIOUS
    <2>1. CASE t \in SyncWriters
      <3>1. logs[k].synced = Len(logs[k].recs)
        BY <1>0, <2>1 DEF GroupInv
      <3>2. /\ k \in DOMAIN logs /\ File(logs[k], Records) /\ k \in Nat
            /\ \A m \in PossibleStates : m.log \in Nat /\ m.log <= k
        BY <1>0, LastLog
      <3>3. \A m \in PossibleStates : OnSynced(tables, logs, m, new)
        <4>1. \E i \in 1 .. logs[k].synced : new = logs[k].recs[i]
          BY <1>2, <3>1, <3>2 DEF InLog, File
        <4> QED
          BY <3>2, <4>1 DEF OnSynced, InSynced
      <3>4. PossibleStates # {}
        BY <1>0, OldTables
      <3> QED
        BY <1>n, <3>3, <3>4, SafeAre DEF SafeWrites
    <2>2. CASE t \notin SyncWriters
      BY <1>0, <2>2 DEF GroupInv
    <2> QED
      BY <2>1, <2>2
  <1>10. Visible' = Visible \cup W
    <2>1. \A w : w \in Visible' <=> w \in Visible \/ w \in W
      BY <1>5, <1>n, VisibleAre, VisibleAreNext
    <2> QED
      BY <2>1
  <1>11. Kept' = Kept
    BY <1>5, KeptSame
  <1> HIDE DEF W
  <1>12. OwnersInv'
    <2>1. \A r : r = new => \A w \in r.batches : pc'[w] \in {"done", "dead"}
      BY <1>7, <1>n DEF W
    <2>2. \A r : NewRecord(r) => r = new
      BY <1>n DEF NewRecord
    <2>3. /\ \A r : Lasts(r)' => Lasts(r) \/ NewRecord(r)'
          /\ \A r : NewRecord(r) => NewRecord(r)' \/ \A w \in r.batches : pc'[w] \in {"done", "dead"}
          /\ \A r : Seen(r)' => \/ Seen(r)
                                \/ Lasts(r) /\ ~NewRecord(r)
                                \/ \A w \in r.batches : pc'[w] \in {"done", "dead"}
      BY <1>5, <2>1, <2>2
    <2> QED
      BY <1>0, <1>7, <2>3, OwnersKept
  <1>13. GroupInv'
    BY <1>4 DEF GroupInv
  <1>14. Store!Next
    <2>1. CASE ~db.torn
      BY <1>5, <1>6, <1>7, <1>8, <1>9, <1>10, <1>11, <2>1, StepPublish
    <2>2. CASE db.torn
      <3>1. PICK v \in Writers : result[v] = "error"
        BY <1>0, <2>2 DEF TornInv
      <3>2. Status(v) = "error"
        BY <1>0, <3>1, NoneAssumption DEF QueueInv, Status, Threads
      <3> QED
        BY <1>5, <1>6, <1>7, <1>10, <1>11, <2>2, <3>1, <3>2, StepPublishUnsure
    <2> QED
      BY <2>1, <2>2
  <1>15. TornInv'
    BY <1>0, <1>3, TornStays
  <1> QED
    BY <1>5, <1>12, <1>13, <1>14, <1>15 DEF Implemented

\* A thread calls Write.
LEMMA EnqueueStep ==
  ASSUME IInv, IInv', RInv, ResultsStay, NEW t \in Threads, Enqueue(t)
  PROVE  DiskInv' /\ Implemented
  <1>0. ThreadTypes /\ QueueInv /\ DiskInv /\ OwnersInv /\ GroupInv /\ TornInv
    BY DEF IInv, RInv
  <1> DEFINE p == IF queue = <<>> THEN "front" ELSE "asleep"
  <1>1. /\ pc[t] = "todo" /\ db # None /\ queue' = Append(queue, t) /\ pc' = [pc EXCEPT ![t] = p]
        /\ UNCHANGED <<disk, db, bg, edit, group, result>>
    BY DEF Enqueue
  <1>2. p \in InQueue
    BY DEF InQueue
  <1> HIDE DEF p
  <1>3. DiskInv' /\ Unseen /\ TornInv'
    <2>1. \A r : NewRecord(r) => NewRecord(r)'
      BY <1>1 DEF NewRecord
    <2>2. DiskInv' /\ Unseen
      BY <1>0, <1>1, <2>1, DiskQuiet
    <2> QED
      BY <1>0, <1>1, <2>2, TornStays
  <1>4. pc'[t] = p /\ \A u \in Threads : u # t => pc'[u] = pc[u]
    BY <1>0, <1>1 DEF ThreadTypes
  <1>5. GroupInv'
    <2>1. ASSUME group # None
          PROVE  /\ \A i \in DOMAIN queue : queue'[i] = queue[i]
                 /\ pc'[queue[1]] = pc[queue[1]]
                 /\ db'.logfile = db.logfile /\ db'.torn = db.torn /\ logs'[db.logfile] = logs[db.logfile]
                 /\ db.logfile \in DOMAIN logs /\ db.logfile \in DOMAIN logs'
      <3>1. \A i \in DOMAIN queue : queue'[i] = queue[i]
        BY <1>0, <1>1 DEF ThreadTypes
      <3>2. queue[1] \in Threads /\ pc[queue[1]] \in Busy
        BY <1>0, <2>1 DEF QueueInv, ThreadTypes
      <3>3. queue[1] # t
        BY <1>1, <3>2 DEF Busy
      <3>4. UNCHANGED <<db, logs>> /\ db.logfile \in DOMAIN logs
        BY <1>1, StoreFacts DEF disk, IInv
      <3> QED
        BY <1>4, <3>1, <3>2, <3>3, <3>4
    <2> QED
      BY <1>0, <1>1, <2>1, GroupKept
  <1>6. CASE t \notin Writers
    <2>1. \A w \in Writers : pc'[w] = pc[w] \/ (pc[w] \in InQueue /\ pc'[w] \in InQueue)
      BY <1>4, <1>6 DEF Threads
    <2>2. Hardens
      BY <1>3 DEF Hardens, Unseen
    <2> QED
      BY <1>0, <1>1, <1>3, <1>5, <2>1, <2>2, CalmStep
  <1>7. CASE t \in Writers
    <2>1. Status(t) = "todo" /\ Status(t)' = "called"
      BY <1>1, <1>2, <1>4 DEF Status, InQueue
    <2>2. \A w \in Writers : w # t => Status(w)' = Status(w)
      BY <1>1, <1>4 DEF Status, Threads
    <2>3. Given({t}, "called")
      BY <2>1, <2>2 DEF Given
    <2>4. Safe' = Safe /\ Visible' = Visible /\ Kept' = Kept
      BY <1>3, VisibleSame, KeptSame DEF Unseen
    <2>5. Store!Next
      BY <1>7, <2>1, <2>3, <2>4, StepCall
    <2>6. OwnersInv'
      <3>1. \A w \in Writers : pc[w] \in {"done", "dead"} => pc'[w] \in {"done", "dead"}
        BY <1>1, <1>4 DEF Threads
      <3>2. \A r : NewRecord(r) => NewRecord(r)'
        BY <1>1 DEF NewRecord
      <3> QED
        BY <1>0, <1>3, <3>1, <3>2, OwnersKept DEF Unseen
    <2> QED
      BY <1>3, <1>5, <2>5, <2>6 DEF Implemented
  <1> QED
    BY <1>6, <1>7

\* The process ends, and perhaps power is lost.
LEMMA EndStep ==
  ASSUME IInv, IInv', RInv, ResultsStay, Closed \/ ProcessCrash \/ PowerLoss
  PROVE  DiskInv' /\ Implemented
  <1>0. ThreadTypes /\ QueueInv /\ DiskInv /\ OwnersInv /\ GroupInv /\ TornInv
    BY DEF IInv, RInv
  <1>1. /\ DiskInv' /\ Safe \subseteq Safe'
        /\ Closed \/ ProcessCrash => Safe' = Safe /\ \A r : Lasts(r)' <=> Lasts(r)
        /\ \A r : Lasts(r)' => Lasts(r)
        /\ \A r : Seen(r)' <=> Lasts(r)'
    <2>1. CASE Closed \/ ProcessCrash
      BY <1>0, <2>1, DiskEnded
    <2>2. CASE PowerLoss /\ ~(Closed \/ ProcessCrash)
      BY <1>0, <2>2, DiskPowerLoss
    <2> QED
      BY <2>1, <2>2
  <1>2. /\ group' = None /\ result' = result
        /\ \A w \in Writers : pc'[w] = IF pc[w] \in InQueue THEN "dead" ELSE pc[w]
    <2>1. CASE Closed
      <3>1. /\ db # None /\ db.shutting /\ UNCHANGED <<pc, group, result>>
        BY <2>1 DEF Closed, client
      <3>2. queue = <<>> /\ DOMAIN queue = {}
        BY <3>1, StoreFacts DEF IInv
      <3>3. group = None /\ \A w \in Threads : pc[w] \notin InQueue
        BY <1>0, <3>2 DEF QueueInv
      <3> QED
        BY <3>1, <3>3 DEF Threads
    <2>2. CASE ProcessCrash \/ PowerLoss
      <3>1. /\ group' = None /\ result' = result
            /\ pc' = [t \in Threads |-> IF pc[t] \in {"todo", "done"} THEN pc[t] ELSE "dead"]
        BY <2>2 DEF ProcessCrash, PowerLoss, ProcessGone
      <3>2. \A w \in Writers : w \in Threads /\ pc[w] \in Places
        BY <1>0 DEF Threads, ThreadTypes
      <3> QED
        BY <3>1, <3>2 DEF Places, InQueue
    <2> QED
      BY <2>1, <2>2
  <1>3. \A w \in Writers : Status(w)' = IF Status(w) = "called" THEN "dead" ELSE Status(w)
    <2> TAKE w \in Writers
    <2>1. w \in Threads /\ pc[w] \in Places /\ (pc[w] = "done" => result[w] \in {"ok", "unsure", "error"})
      BY <1>0 DEF Threads, ThreadTypes, QueueInv
    <2>2. CASE pc[w] \in InQueue
      <3>1. Status(w) = "called" /\ pc'[w] = "dead"
        BY <1>2, <2>2 DEF Status, InQueue
      <3> QED
        BY <3>1 DEF Status
    <2>3. CASE pc[w] \in {"todo", "done", "dead"}
      <3>1. pc'[w] = pc[w]
        BY <1>2, <2>3 DEF InQueue
      <3>2. Status(w) # "called"
        BY <2>1, <2>3 DEF Status
      <3> QED
        BY <1>2, <3>1, <3>2 DEF Status
    <2> QED
      BY <2>1, <2>2, <2>3 DEF Places
  <1>4. Kept' \subseteq Kept /\ (Closed \/ ProcessCrash => Kept' = Kept)
    <2>1. Closed \/ ProcessCrash => Kept' = Kept
      BY <1>1, KeptSame
    <2>2. Kept' \subseteq Kept
      BY <1>1 DEF Lasts, Kept, Batches
    <2> QED
      BY <2>1, <2>2
  <1>5. Visible' = Kept'
    <2>1. \A w : w \in Visible' <=> \E r : Lasts(r)' /\ w \in r.batches
      BY <1>1, VisibleAreNext
    <2>2. \A w : w \in Kept' <=> \E r : Lasts(r)' /\ w \in r.batches
      BY DEF Kept, Batches, Lasts
    <2> QED
      BY <2>1, <2>2
  <1>6. \A w \in Visible \ Kept : w \in Writers /\ Status(w) = "unsure"
    <2> SUFFICES ASSUME NEW w \in Visible, w \notin Kept PROVE w \in Writers /\ Status(w) = "unsure"
      OBVIOUS
    <2>1. PICK r : Seen(r) /\ w \in r.batches
      BY VisibleAre
    <2>2. ~Lasts(r)
      BY <2>1 DEF Kept, Batches, Lasts
    <2>3. Unsure(r)
      BY <1>0, <2>1, <2>2, SeenLasts
    <2>4. w \in Writers /\ result[w] = "unsure"
      BY <2>1, <2>3 DEF Unsure
    <2>5. pc[w] = "done"
      BY <1>0, <2>4, NoneAssumption DEF QueueInv, Threads
    <2> QED
      BY <2>4, <2>5 DEF Status
  <1>7. Store!Next
    <2>1. CASE Closed \/ ProcessCrash
      <3>1. Visible' = Kept /\ Kept' = Kept /\ Safe' = Safe
        BY <1>1, <1>4, <1>5, <2>1
      <3> QED
        BY <1>3, <1>6, <3>1, StepStop
    <2>2. CASE ~(Closed \/ ProcessCrash)
      BY <1>1, <1>3, <1>4, <1>5, StepPowerLoss
    <2> QED
      BY <2>1, <2>2
  <1>8. GroupInv'
    BY <1>2 DEF GroupInv
  <1>9. OwnersInv'
    <2>1. \A w \in Writers : pc[w] \in {"done", "dead"} => pc'[w] \in {"done", "dead"}
      BY <1>2 DEF InQueue
    <2>2. \A r : NewRecord(r) => \A w \in r.batches : pc'[w] \in {"done", "dead"}
      <3>1. group # None => \A w \in group.record.batches : w \in Writers /\ pc[w] \in InQueue
        BY <1>0, GroupWriters
      <3> QED
        BY <1>2, <3>1 DEF NewRecord
    <2>3. \A r : Seen(r)' => \/ Seen(r)
                             \/ Lasts(r) /\ ~NewRecord(r)
                             \/ \A w \in r.batches : pc'[w] \in {"done", "dead"}
      BY <1>1, <2>2
    <2> QED
      BY <1>0, <1>1, <2>1, <2>2, <2>3, OwnersKept
  <1>10. TornInv'
    <2>1. db' = None
      BY CoreGone DEF IInv
    <2> QED
      BY <2>1 DEF TornInv
  <1> QED
    BY <1>1, <1>7, <1>8, <1>9, <1>10 DEF Implemented

\* Recovery, LogAndApply, the background thread and iterators.
LEMMA OtherSteps ==
  ASSUME IInv, IInv', RInv, ResultsStay,
         NewDB \/ Open \/ OpenDone \/ LogAndApply \/ BackgroundCall \/ NewIterator \/ DeleteIterator \/ Close
  PROVE  DiskInv' /\ Implemented
  <1>0. DiskInv /\ OwnersInv /\ GroupInv /\ TornInv /\ Core /\ StoreInv
    BY DEF IInv, RInv, Core
  <1>1. DiskInv' /\ Hardens
    <2>u. Unseen => Hardens
      BY DEF Unseen, Hardens
    <2>1. CASE NewDB \/ Open \/ OpenDone
      BY <1>0, <2>u, <2>1, DiskNewDB, DiskOpen, DiskOpenStops, DiskOpenDone
    <2>2. CASE AppendManifest \/ SyncManifest \/ SetCurrentFile
      BY <1>0, <2>2, DiskAppend, DiskSync, DiskNamed
    <2>3. CASE EditFails
      BY <1>0, <2>u, <2>3, DiskOpenFails, DiskEnds
    <2>4. CASE CompactMemTable \/ StartCompaction \/ MoveTable
      BY <1>0, <2>u, <2>4, DiskMemTable, DiskStart, DiskMove
    <2>5. CASE FinishCompaction \/ NothingToDo \/ MemTableInstalled \/ CompactionInstalled \/ MoveInstalled
      BY <1>0, <2>u, <2>5, DiskEnds, DiskInstalled
    <2>6. CASE Close
      <3>1. db # None /\ db \in Stores
        BY <1>0, <2>6, StoreFacts DEF Close
      <3>2. UNCHANGED <<disk, bg, edit, group>> /\ db' = [db EXCEPT !.shutting = TRUE]
        BY <2>6 DEF Close, client
      <3>3. /\ db' \in Stores /\ db'.l0 = db.l0 /\ db'.deep = db.deep /\ db'.log = db.log /\ db'.logfile = db.logfile
            /\ db'.mem = db.mem /\ db'.imm = db.imm /\ db'.next = db.next /\ db'.pending = db.pending
            /\ db'.bgError = db.bgError
        BY <3>1, <3>2 DEF Stores
      <3>4. db' # None
        BY <3>3, Fields
      <3> QED
        <4>1. \A r : NewRecord(r) => NewRecord(r)'
          BY <3>2 DEF NewRecord
        <4> QED
          BY <1>0, <2>u, <3>1, <3>2, <3>3, <3>4, <4>1, DiskQuiet
    <2>7. CASE NewIterator \/ DeleteIterator
      <3>1. db # None /\ UNCHANGED <<disk, db, bg, edit, group>>
        BY <1>0, <2>7 DEF NewIterator, DeleteIterator, StoreInv, client
      <3>2. \A r : NewRecord(r) => NewRecord(r)'
        BY <3>1 DEF NewRecord
      <3> QED
        BY <1>0, <2>u, <3>1, <3>2, DiskQuiet
    <2> QED
      BY <2>1, <2>2, <2>3, <2>4, <2>5, <2>6, <2>7 DEF LogAndApply, BackgroundCall
  <1>2. UNCHANGED <<queue, group, result>> /\ (UNCHANGED pc \/ SignalAll)
    <2>1. CASE NewDB \/ Open \/ OpenDone \/ AppendManifest \/ SyncManifest \/ SetCurrentFile
                 \/ StartCompaction \/ MoveTable \/ NewIterator \/ DeleteIterator \/ Close
      BY <2>1 DEF NewDB, Open, OpenDone, AppendManifest, SyncManifest, SetCurrentFile,
                  StartCompaction, MoveTable, NewIterator, DeleteIterator, Close, client
    <2>2. CASE EditFails \/ CompactMemTable
      BY <2>2 DEF EditFails, CompactMemTable
    <2>3. CASE MemTableInstalled \/ MoveInstalled \/ FinishCompaction \/ CompactionInstalled \/ NothingToDo
      BY <2>3 DEF MemTableInstalled, MoveInstalled, FinishCompaction, CompactionInstalled, NothingToDo
    <2> QED
      BY <2>1, <2>2, <2>3 DEF LogAndApply, BackgroundCall
  <1>3. db # None => db' # None /\ db'.logfile = db.logfile /\ db'.torn = db.torn /\ logs'[db.logfile] = logs[db.logfile]
    <2>1. db # None => ~(NewDB \/ Open \/ OpenDone)
      BY <1>0 DEF NewDB, Open, OpenDone, StoreInv
    <2> QED
      BY <2>1, LastLogKept DEF LogAndApply
  <1>4. db = None => db' = None \/ ~db'.torn
    <2> SUFFICES ASSUME db = None, db' # None PROVE ~db'.torn
      OBVIOUS
    <2>1. OpenDone
      BY <1>0 DEF Core, StoreInv, NewDB, Open, LogAndApply, AppendManifest, SyncManifest, SetCurrentFile, EditFails,
                  BackgroundCall, CompactMemTable, MemTableInstalled, StartCompaction, MoveTable, MoveInstalled,
                  FinishCompaction, CompactionInstalled, NothingToDo, MayWork, BackgroundIdle,
                  NewIterator, DeleteIterator, Close
    <2> QED
      BY <1>0, <2>1, CoreOpenDone
  <1> QED
    BY <1>0, <1>1, <1>2, <1>3, <1>4, BackgroundStep

-----------------------------------------------------------------------------
(* The theorem *)

\* There is nothing at first, to be found or to be seen.
LEMMA InitRefines ==
  ASSUME Init
  PROVE  RInv /\ Store!Init
  <1>0. /\ logs = <<>> /\ tables = <<>> /\ manifests = <<>> /\ current = 0
        /\ db = None /\ bg = None /\ edit = None
        /\ pc = [t \in Threads |-> "todo"] /\ queue = <<>> /\ group = None
    BY DEF Init
  <1>2. Recoverable = {} /\ PossibleStates = {}
    BY <1>0 DEF Recoverable, PossibleStates
  <1>3. \A r : ~Lasts(r) /\ ~Seen(r)
    BY <1>0, <1>2 DEF Lasts, Seen
  <1>4. SameInv /\ MemInv /\ LogsInv /\ BehindInv /\ CoversInv /\ MergeInv
    BY <1>0, <1>2 DEF SameInv, MemInv, LogsInv, BehindInv, CoversInv, MergeInv
  <1>5. FirstInv
    BY <1>2 DEF FirstInv
  <1>6. OwnersInv /\ GroupInv /\ TornInv
    BY <1>0, <1>3 DEF OwnersInv, GroupInv, TornInv
  <1>7. Visible = {} /\ Batches(Recoverable) = {} /\ Safe = {}
    BY <1>0, <1>2 DEF Visible, Safe, Batches
  <1>8. \A w \in Writers : Status(w) = "todo"
    BY <1>0 DEF Status, Threads
  <1>9. Store!Init
    BY <1>7, <1>8 DEF Store!Init
  <1> QED
    BY <1>4, <1>5, <1>6, <1>9 DEF RInv, DiskInv

\* What Write has returned stays so: only writers in the queue come to have a result.
LEMMA ResultsAreKept ==
  ASSUME IInv, [Next]_vars
  PROVE  ResultsStay
  <1>0. ThreadTypes /\ QueueInv
    BY DEF IInv
  <1>1. ASSUME result' = result PROVE ResultsStay
    BY <1>1 DEF ResultsStay
  <1>2. ASSUME NEW n, NEW s, n \in DOMAIN queue, Leave(n, s) PROVE ResultsStay
    <2> DEFINE left == {queue[i] : i \in 1 .. n}
    <2>1. result' = [t \in Threads |-> IF t \in left THEN s ELSE result[t]]
      BY <1>2 DEF Leave
    <2>2. \A i \in 1 .. n : i \in DOMAIN queue /\ queue[i] \in Threads
      BY <1>0, <1>2 DEF ThreadTypes
    <2>3. \A t \in left : t \in Threads /\ pc[t] \in InQueue
      BY <1>0, <2>2 DEF QueueInv
    <2>4. \A t \in left : result[t] = None
      BY <1>0, <2>3 DEF QueueInv, InQueue
    <2> HIDE DEF left
    <2> QED
      BY <2>1, <2>4 DEF ResultsStay, Threads
  <1>3. ASSUME NEW t \in Threads, Writing(t) PROVE ResultsStay
    <2>1. pc[t] \in InQueue /\ pc[t] # "asleep"
      BY <1>3 DEF Writing, WriteInRoom, FailAfterError, WaitForRoom, SwitchMemTable, AddRecord, SyncLog, InsertInto, InQueue
    <2>2. 1 \in DOMAIN queue
      BY <1>0, <2>1, FirstIsAwake
    <2>3. pc[t] \in Busy => group.size \in DOMAIN queue
      BY <1>0, GroupOfWriter
    <2>4. CASE WriteInRoom(t) \/ WaitForRoom(t)
      BY <1>1, <2>4 DEF WriteInRoom, WaitForRoom, GroupWith
    <2>5. CASE FailAfterError(t)
      BY <1>2, <2>2, <2>5 DEF FailAfterError
    <2>6. CASE SwitchMemTable(t)
      BY <1>1, <1>2, <2>2, <2>6 DEF SwitchMemTable, GroupWith
    <2>7. CASE AddRecord(t)
      BY <1>1, <1>2, <2>3, <2>7 DEF AddRecord, Busy
    <2>8. CASE SyncLog(t)
      BY <1>1, <1>2, <2>3, <2>8 DEF SyncLog, Busy
    <2>9. CASE InsertInto(t)
      BY <1>2, <2>3, <2>9 DEF InsertInto, Busy
    <2> QED
      BY <1>3, <2>4, <2>5, <2>6, <2>7, <2>8, <2>9 DEF Writing
  <1>4. CASE NewDB \/ Open \/ OpenDone \/ AppendManifest \/ SyncManifest \/ SetCurrentFile \/ EditFails
    BY <1>1, <1>4 DEF NewDB, Open, OpenDone, AppendManifest, SyncManifest, SetCurrentFile, EditFails, client
  <1>5. CASE CompactMemTable \/ MemTableInstalled \/ StartCompaction \/ FinishCompaction
    BY <1>1, <1>5 DEF CompactMemTable, MemTableInstalled, StartCompaction, FinishCompaction, client
  <1>6. CASE CompactionInstalled \/ MoveTable \/ MoveInstalled \/ NothingToDo
    BY <1>1, <1>6 DEF CompactionInstalled, MoveTable, MoveInstalled, NothingToDo, client
  <1>7. ASSUME NEW t \in Threads, Enqueue(t) PROVE ResultsStay
    BY <1>1, <1>7 DEF Enqueue
  <1>8. CASE NewIterator \/ DeleteIterator \/ Close \/ Closed
    BY <1>1, <1>8 DEF NewIterator, DeleteIterator, Close, Closed, client
  <1>9. CASE ProcessCrash \/ PowerLoss
    BY <1>1, <1>9 DEF ProcessCrash, PowerLoss, ProcessGone
  <1>10. CASE UNCHANGED vars
    BY <1>1, <1>10 DEF vars, client
  <1> QED
    BY <1>3, <1>4, <1>5, <1>6, <1>7, <1>8, <1>9, <1>10 DEF Next, LogAndApply, BackgroundCall

\* Every step is one of DurableStore, or nothing is to be seen of it.
LEMMA NextRefines ==
  ASSUME NoMemTable, IInv, IInv', RInv, [Next]_vars
  PROVE  RInv' /\ [Store!Next]_(Store!vars)
  <1>0. ResultsStay
    BY ResultsAreKept
  <1>1. CASE UNCHANGED vars
    <2>1. UNCHANGED <<logs, tables, manifests, current, db, bg, edit, pc, queue, group, result>>
      BY <1>1 DEF vars, disk, client
    <2>2. PossibleStates' = PossibleStates /\ Base' = Base /\ Recoverable' = Recoverable
      BY <2>1 DEF PossibleStates, Base, Recoverable, Held, Replayed, Contents, LogRecords, AllOfLogs
    <2>3. (\A r : Lasts(r)' <=> Lasts(r)) /\ (\A r : Seen(r)' <=> Seen(r))
      BY <2>1, <2>2 DEF Lasts, Seen, InMemory, InTables, Files
    <2>4. Safe' = Safe
      BY <2>1, <2>2, SafeSame
    <2>5. Visible' = Visible /\ Kept' = Kept
      BY <2>3, VisibleSame, KeptSame
    <2>6. Quiet
      BY <2>1 DEF Quiet, Status
    <2>7. [Store!Next]_(Store!vars)
      BY <2>4, <2>5, <2>6, Stutters
    <2>8. SameInv' /\ MemInv' /\ LogsInv' /\ BehindInv'
      <3>1. \A r : Unsure(r)' <=> Unsure(r)
        BY <2>1 DEF Unsure
      <3> QED
        BY <2>1, <2>2, <2>3, <3>1 DEF RInv, DiskInv, SameInv, MemInv, LogsInv, BehindInv, NewRecord
    <2>9. CoversInv' /\ MergeInv' /\ FirstInv'
      BY <2>1, <2>2 DEF RInv, DiskInv, CoversInv, MergeInv, FirstInv, InTables, Files
    <2>10. OwnersInv' /\ GroupInv' /\ TornInv'
      BY <2>1, <2>3 DEF RInv, OwnersInv, GroupInv, TornInv, NewRecord
    <2> QED
      BY <2>7, <2>8, <2>9, <2>10 DEF RInv, DiskInv
  <1>2. CASE Next
    <2>1. DiskInv' /\ Implemented
      <3>1. ASSUME NEW t \in Threads, Writing(t) PROVE DiskInv' /\ Implemented
        BY <1>0, <3>1, FrontSteps, LogStep, SyncStep, InsertStep DEF Writing
      <3>2. ASSUME NEW t \in Threads, Enqueue(t) PROVE DiskInv' /\ Implemented
        BY <1>0, <3>2, EnqueueStep
      <3>3. CASE Closed \/ ProcessCrash \/ PowerLoss
        BY <1>0, <3>3, EndStep
      <3>4. CASE NewDB \/ Open \/ OpenDone \/ LogAndApply \/ BackgroundCall \/ NewIterator \/ DeleteIterator \/ Close
        BY <1>0, <3>4, OtherSteps
      <3> QED
        BY <1>2, <3>1, <3>2, <3>3, <3>4 DEF Next
    <2> QED
      BY <2>1 DEF RInv, Implemented
  <1> QED
    BY <1>1, <1>2

\* The store keeps the promise of WriteOptions::sync and of Write as DurableStore has it, whatever
\* is interleaved, fails or is lost, appends to a log and the writes behind them included: LevelDB, seen through Status, Visible, Recoverable and Safe, is a DurableStore.
THEOREM Implements ==
  ASSUME NoMemTable
  PROVE  Spec => ImplementsStore
  <1>1. Init => IInv /\ RInv /\ Store!Init
    BY InitInv, InitRefines
  <1>2. IInv /\ RInv /\ [Next]_vars => IInv' /\ RInv' /\ [Store!Next]_(Store!vars)
    <2> SUFFICES ASSUME IInv, RInv, [Next]_vars PROVE IInv' /\ RInv' /\ [Store!Next]_(Store!vars)
      OBVIOUS
    <2>1. IInv'
      BY NextInv
    <2> QED
      BY <2>1, NextRefines
  <1> QED
    BY <1>1, <1>2, PTL DEF Spec, ImplementsStore, Store!Spec

-----------------------------------------------------------------------------
(* What the promise of DurableStore says of the queue and of the files *)

\* A write made with sync that has returned without an error, and is not behind a failed append
\* to its log, is read from then on, from the memtables and tables, or, with no store open, from
\* what recovery will find.
SyncedReturnedSeen == \A w \in SyncWriters : pc[w] = "done" /\ result[w] = "ok" => w \in Visible

\* What is read, or would be recovered if the process ended now, is of threads that have called
\* Write, also after writes that were cut off or failed.
OnlyCalledSeen == \A w \in Visible \cup Batches(Recoverable) : w \in Writers /\ pc[w] # "todo"

\* What DurableStore keeps true: what is safe is there, or will be once the store is open again;
\* a synced write that has returned is safe, and seen already; and nothing is invented.
Hidden == Batches(Recoverable) \ Visible
PromiseInv ==
  /\ Safe \subseteq Visible \cup Hidden
  /\ \A w \in Writers \cap SyncWriters : Status(w) = "ok" => w \in Safe /\ w \in Visible
  /\ \A w \in Visible \cup Hidden : w \in Writers /\ Status(w) # "todo"
  /\ \A w \in Writers : Status(w) = "unsure" => \E v \in Writers : Status(v) = "error"

\* What a step of DurableStore leaves of the status of a thread outside of W.
LEMMA SetStatus ==
  ASSUME NEW W, NEW s, [w \in Writers |-> Status(w)]' = Store!Set(W, s)
  PROVE  \A w \in Writers : Status(w)' = IF w \in W THEN s ELSE Status(w)
  <1>1. [w \in Writers |-> Status(w)'] = [w \in Writers |-> IF w \in W THEN s ELSE Status(w)]
    BY DEF Store!Set
  <1> QED
    BY <1>1

\* Every step of DurableStore keeps its promise.
LEMMA PromiseKept ==
  ASSUME PromiseInv, [Store!Next]_(Store!vars)
  PROVE  PromiseInv' /\ Safe \subseteq Safe'
  <1> DEFINE f == [w \in Writers |-> Status(w)]
  <1>1. Store!Called = {w \in Writers : Status(w) = "called"}
    BY DEF Store!Called
  <1>2. ASSUME f' = f, Visible' = Visible, Hidden' = Hidden, Safe' = Safe PROVE PromiseInv' /\ Safe \subseteq Safe'
    <2>1. [w \in Writers |-> Status(w)'] = [w \in Writers |-> Status(w)]
      BY <1>2
    <2>2. \A w \in Writers : Status(w)' = Status(w)
      BY <2>1
    <2>3. \A w \in Writers : Status(w)' = "unsure" => \E v \in Writers : Status(v)' = "error"
      BY <2>2 DEF PromiseInv
    <2> QED
      BY <1>2, <2>2, <2>3 DEF PromiseInv
  <1>3. CASE UNCHANGED Store!vars
    BY <1>2, <1>3 DEF Store!vars, Hidden
  <1>4. ASSUME NEW w \in Writers, Store!Call(w) PROVE PromiseInv' /\ Safe \subseteq Safe'
    <2>1. /\ \A v \in Writers : Status(v)' = IF v \in {w} THEN "called" ELSE Status(v)
          /\ Visible' = Visible /\ Hidden' = Hidden /\ Safe' = Safe
      BY <1>4, SetStatus DEF Store!Call, Hidden
    <2>2. Status(w) = "todo"
      BY <1>4 DEF Store!Call
    <2> QED
      BY <2>1, <2>2 DEF PromiseInv
  <1>5. ASSUME NEW W \in SUBSET Store!Called, Store!Log(W) PROVE PromiseInv' /\ Safe \subseteq Safe'
    <2>1. f' = f /\ Visible' = Visible /\ Hidden' = Hidden \cup W /\ Safe' = Safe
      BY <1>5 DEF Store!Log, Hidden
    <2>2. [w \in Writers |-> Status(w)'] = [w \in Writers |-> Status(w)]
      BY <2>1
    <2>3. \A w \in Writers : Status(w)' = Status(w)
      BY <2>2
    <2>4. \A w \in Writers : Status(w)' = "unsure" => \E v \in Writers : Status(v)' = "error"
      BY <2>3 DEF PromiseInv
    <2> QED
      BY <1>1, <2>1, <2>3, <2>4 DEF PromiseInv
  <1>6. ASSUME NEW W \in SUBSET Store!Called, Store!Publish(W) PROVE PromiseInv' /\ Safe \subseteq Safe'
    <2>1. /\ W \subseteq Hidden /\ W \cap SyncWriters \subseteq Safe
          /\ \A v \in Writers : Status(v)' = IF v \in W THEN "ok" ELSE Status(v)
          /\ Visible' = Visible \cup W /\ Hidden' = Hidden \ W /\ Safe' = Safe
      BY <1>6, SetStatus DEF Store!Publish, Hidden
    <2> QED
      BY <1>1, <2>1 DEF PromiseInv
  <1>u. ASSUME NEW W \in SUBSET Store!Called, Store!PublishUnsure(W) PROVE PromiseInv' /\ Safe \subseteq Safe'
    <2>1. /\ \A v \in Writers : Status(v)' = IF v \in W THEN "unsure" ELSE Status(v)
          /\ Visible' = Visible \cup W /\ Hidden' = Hidden \ W /\ Safe' = Safe
          /\ \E w \in Writers : Status(w) = "error"
      BY <1>u, SetStatus DEF Store!PublishUnsure, Hidden
    <2> QED
      BY <1>1, <2>1 DEF PromiseInv
  <1>7. ASSUME NEW W \in SUBSET Store!Called, Store!Fail(W) PROVE PromiseInv' /\ Safe \subseteq Safe'
    <2>1. /\ \A v \in Writers : Status(v)' = IF v \in W THEN "error" ELSE Status(v)
          /\ Visible' = Visible /\ Hidden' = Hidden /\ Safe' = Safe
      BY <1>7, SetStatus DEF Store!Fail, Hidden
    <2> QED
      BY <2>1 DEF PromiseInv
  <1>8. ASSUME NEW S \in SUBSET (Visible \cup Hidden), Store!Harden(S) PROVE PromiseInv' /\ Safe \subseteq Safe'
    <2>1. f' = f /\ Visible' = Visible /\ Hidden' = Hidden /\ Safe' = Safe \cup S
      BY <1>8 DEF Store!Harden, Hidden
    <2>2. [w \in Writers |-> Status(w)'] = [w \in Writers |-> Status(w)]
      BY <2>1
    <2>3. \A w \in Writers : Status(w)' = Status(w)
      BY <2>2
    <2>4. \A w \in Writers : Status(w)' = "unsure" => \E v \in Writers : Status(v)' = "error"
      BY <2>3 DEF PromiseInv
    <2> QED
      BY <2>1, <2>3, <2>4 DEF PromiseInv
  <1>9. ASSUME NEW S \in SUBSET (Visible \cup Hidden), Store!PowerLoss(S) PROVE PromiseInv' /\ Safe \subseteq Safe'
    <2>1. /\ Safe \subseteq S /\ Visible' = S /\ Hidden' = {} /\ Safe \subseteq Safe' /\ Safe' \subseteq S
          /\ \A v \in Writers : Status(v)' = IF v \in Store!Called THEN "dead" ELSE Status(v)
      BY <1>9, SetStatus DEF Store!PowerLoss, Hidden
    <2> QED
      BY <1>1, <2>1 DEF PromiseInv
  <1>10. ASSUME NEW S \in SUBSET (Visible \cup Hidden), Store!Stop(S) PROVE PromiseInv' /\ Safe \subseteq Safe'
    <2>1. /\ \A w \in Visible \ S : Status(w) = "unsure" /\ w \notin Safe
          /\ Hidden \subseteq S /\ Visible' = S /\ Hidden' = {} /\ Safe' = Safe
          /\ \A v \in Writers : Status(v)' = IF v \in Store!Called THEN "dead" ELSE Status(v)
      <3>1. \A w \in Visible \ S : w \in Writers
        BY DEF PromiseInv
      <3> QED
        BY <1>10, <3>1, SetStatus DEF Store!Stop, Hidden
    <2> QED
      BY <1>1, <2>1 DEF PromiseInv
  <1> QED
    BY <1>3, <1>4, <1>5, <1>6, <1>u, <1>7, <1>8, <1>9, <1>10 DEF Store!Next, Hidden

\* The promise of DurableStore is kept by a LevelDB store.
LEMMA PromiseHolds ==
  ASSUME NoMemTable
  PROVE  Spec => []PromiseInv
  <1>1. Spec => Store!Spec
    BY Implements DEF ImplementsStore
  <1>2. Store!Init => PromiseInv
    <2> SUFFICES ASSUME Store!Init PROVE PromiseInv
      OBVIOUS
    <2>1. /\ [w \in Writers |-> Status(w)] = [w \in Writers |-> "todo"]
          /\ Visible = {} /\ Hidden = {} /\ Safe = {}
      BY DEF Store!Init, Hidden
    <2>2. \A w \in Writers : Status(w) = "todo"
      BY <2>1
    <2> QED
      BY <2>1, <2>2 DEF PromiseInv
  <1>3. PromiseInv /\ [Store!Next]_(Store!vars) => PromiseInv'
    BY PromiseKept
  <1> QED
    BY <1>1, <1>2, <1>3, PTL DEF Store!Spec

\* The promise of WriteOptions::sync, of DurableStore and in the terms of LevelDB itself: for
\* any number of writers, failed calls, ends of the process and losses of power.  A write that
\* has returned is excepted, as unsure, only if another one has returned an error.
THEOREM SyncedWritesAreSeen ==
  ASSUME NoMemTable
  PROVE  Spec => [](Store!SyncedSeen /\ SyncedReturnedSeen /\ Store!UnsureBehindFailure)
  <1>1. PromiseInv => Store!SyncedSeen /\ SyncedReturnedSeen
    BY ConstantsAssumption DEF PromiseInv, Store!SyncedSeen, SyncedReturnedSeen, Status
  <1>2. PromiseInv => Store!UnsureBehindFailure
    BY DEF PromiseInv, Store!UnsureBehindFailure
  <1> QED
    BY <1>1, <1>2, PromiseHolds, PTL

\* Recovery makes nothing up: what it brings back somebody asked to write.
THEOREM OnlyCalledWritesAreSeen ==
  ASSUME NoMemTable
  PROVE  Spec => [](Store!NothingInvented /\ OnlyCalledSeen)
  <1>1. PromiseInv => Store!NothingInvented /\ OnlyCalledSeen
    BY DEF PromiseInv, Hidden, Store!NothingInvented, OnlyCalledSeen, Status
  <1> QED
    BY <1>1, PromiseHolds, PTL

\* What no loss of power can undo, a synced log record or a table of a synced manifest, stays
\* so: no flush, compaction, switch of files, restart or loss of power takes a write out of it.
THEOREM SafeWritesStaySafe ==
  ASSUME NoMemTable
  PROVE  Spec => Store!SafeStaysSafe
  <1>1. Spec => Store!Spec
    BY Implements DEF ImplementsStore
  <1>2. PromiseInv /\ [Store!Next]_(Store!vars) => [Safe \subseteq Safe']_(Store!vars)
    BY PromiseKept
  <1> QED
    BY <1>1, <1>2, PromiseHolds, PTL DEF Store!Spec, Store!SafeStaysSafe
=============================================================================
