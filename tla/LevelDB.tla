------------------------------- MODULE LevelDB -------------------------------
(***************************************************************************)
(* The concurrent and crash-safe side of the LevelDB store Firebase        *)
(* persists with (db/db_impl.cc, and the file bookkeeping of               *)
(* db/version_set.cc): writers that queue and write in groups, one         *)
(* background thread that turns memtables into tables and merges tables,   *)
(* a reader that pins a version, the files of all of them, the end of the  *)
(* process and the loss of power at every step, and recovery.              *)
(*                                                                         *)
(* Each writer calls Write once.  A batch is named by its writer, and a    *)
(* memtable or a table is the set of the records in it; which keys they    *)
(* hold, and what a merge may drop, is the matter of module Compaction.    *)
(* Level 0 is kept apart from the deeper levels, for writers wait on it.   *)
(*                                                                         *)
(* Of a log a loss of power leaves a beginning, and a log never synced may *)
(* be gone with its name (LogFile says why records are lost whole).  The   *)
(* other names are taken to be on disk when the call that makes, changes   *)
(* or removes them returns: those of tables and of synced logs, CURRENT,   *)
(* and deletions.  LevelDB syncs the directory for manifests only, and     *)
(* leaves the rest to the file system.                                     *)
(***************************************************************************)
EXTENDS Integers, Sequences, FiniteSets, SequencesExt

CONSTANTS
    Writers,        \* threads that write a batch
    SyncWriters,    \* those of them that set WriteOptions::sync
    Flushers,       \* threads that pass a null batch (TEST_CompactMemTable)
    MemCapacity,    \* write_buffer_size, in batches
    L0Trigger,      \* config::kL0_CompactionTrigger
    L0Stop,         \* config::kL0_StopWritesTrigger
    DeepTrigger,    \* the size limit of the deeper levels, in tables
    MaxStarts,      \* bound: times the store is opened
    MaxPowerLosses, \* bound: times power is lost
    MaxFaults,      \* bound: calls of the file system that fail
    None

ASSUME ConstantsAssumption ==
    /\ SyncWriters \subseteq Writers /\ Flushers \cap Writers = {}
    /\ MemCapacity \in Nat /\ L0Trigger \in Nat \ {0} /\ L0Stop \in Nat
    /\ L0Trigger <= L0Stop /\ DeepTrigger \in Nat
    /\ MaxStarts \in Nat /\ MaxPowerLosses \in Nat /\ MaxFaults \in Nat

Threads == Writers \cup Flushers

Records == {r \in [seq : Nat \ {0}, batches : SUBSET Writers] : IsFiniteSet(r.batches)}
Groups == [size : Nat, record : Records]
ManifestStates == [l0 : SUBSET Nat, deep : SUBSET Nat, log : Nat, next : Nat, last : Nat]
Stores ==
    [l0 : SUBSET Nat, deep : SUBSET Nat, log : Nat, logfile : Nat, next : Nat, last : Nat,
     manifest : Nat, mem : SUBSET Records, imm : (SUBSET Records) \cup {None},
     pending : SUBSET Nat, bgError : BOOLEAN, scheduled : BOOLEAN, shutting : BOOLEAN,
     torn : BOOLEAN]
Merges == [level0 : SUBSET Nat, below : SUBSET Nat, out : Nat]
Edits ==
    [at : {"append", "sync", "current", "install"}, owner : {"open", "flush", "compaction", "move"},
     manifest : Nat, state : ManifestStates]

ASSUME NoneAssumption ==
    None \notin {"ok", "unsure", "error"} \cup Groups \cup Stores \cup Merges \cup Edits

VARIABLES
    logs,       \* log files: their records, and how many are synced
    tables,     \* table files: the records in each
    manifests,  \* MANIFEST files, each record with the state it adds up to
    current,    \* the manifest CURRENT names, 0 before there is one
    db,         \* the DBImpl and its VersionSet, None while there is none (torn: an append
                \* to log_ has failed, its block_offset_ is not where the file ends)
    bg,         \* the merge of tables in progress, or None
    edit,       \* LogAndApply in progress, or None
    pc,         \* where each thread is in Write
    queue,      \* writers_
    group,      \* what the front writer is writing, or None
    result,     \* what Write returned; "unsure" is an ok behind a failed append to its log
    pinned,     \* the version an iterator holds, or None
    starts, powerLosses, faults

disk == <<logs, tables, manifests, current>>
client == <<pc, queue, group, result>>
bounds == <<starts, powerLosses, faults>>
vars == <<disk, db, bg, edit, client, pinned, bounds>>

-----------------------------------------------------------------------------
(* Files *)

Files(v) == v.l0 \cup v.deep
Contents(S) == UNION {tables[n] : n \in S \cap DOMAIN tables}
Batches(R) == UNION {r.batches : r \in R}
LogRecords(n, k) == {logs[n].recs[i] : i \in 1 .. k}
Without(f, S) == [n \in DOMAIN f \ S |-> f[n]]
Put(f, n, x) == [m \in DOMAIN f \cup {n} |-> IF m = n THEN x ELSE f[m]]

EmptyFile == [recs |-> <<>>, synced |-> 0]
Added(f, r) == [f EXCEPT !.recs = Append(@, r)]
Synced(f) == [f EXCEPT !.synced = Len(f.recs)]

\* The records a store opened on manifest state m would replay, and all it would
\* hold, with the first cut[n] records of log n left.
Replayed(m, cut) == UNION {LogRecords(n, cut[n]) : n \in {k \in DOMAIN logs : k >= m.log}}
Held(m, cut) == Contents(Files(m)) \cup Replayed(m, cut)

AllOfLogs == [n \in DOMAIN logs |-> Len(logs[n].recs)]
SyncedLogs == [n \in DOMAIN logs |-> logs[n].synced]

\* The states of the current manifest a loss of power may leave it with.
PossibleStates ==
    IF current = 0 THEN {}
    ELSE {manifests[current].recs[i] :
             i \in {j \in DOMAIN manifests[current].recs : j >= manifests[current].synced}}

Recoverable ==
    IF current = 0 \/ manifests[current].recs = <<>> THEN {}
    ELSE Held(Last(manifests[current].recs), AllOfLogs)

-----------------------------------------------------------------------------
(* What DeleteObsoleteFiles leaves, for the state d of the store: tables of *)
(* a version in use or being written, the logs and manifests still needed.  *)

\* MUTANT: files are collected although an edit may or may not be in.
DeleteObsoleteFiles_AfterError(d) ==
    LET live == d.pending \cup Files(d) \cup (IF pinned = None THEN {} ELSE pinned)
    IN  /\ tables' = Without(tables, DOMAIN tables \ live)
        /\ logs' = Without(logs, {n \in DOMAIN logs : n < d.log})
        /\ manifests' = Without(manifests, {n \in DOMAIN manifests : n < d.manifest})

DeleteObsoleteFiles(d) ==
    IF d.bgError THEN UNCHANGED <<logs, tables, manifests>>
    ELSE LET live == d.pending \cup Files(d) \cup (IF pinned = None THEN {} ELSE pinned)
         IN  /\ tables' = Without(tables, DOMAIN tables \ live)
             /\ logs' = Without(logs, {n \in DOMAIN logs : n < d.log})
             /\ manifests' = Without(manifests, {n \in DOMAIN manifests : n < d.manifest})

\* A level is over its limit (VersionSet::Finalize).
NeedsCompaction(d) == Cardinality(d.l0) >= L0Trigger \/ Cardinality(d.deep) >= DeepTrigger

\* MaybeScheduleCompaction
Scheduled(d) ==
    IF ~d.scheduled /\ ~d.shutting /\ ~d.bgError /\ (d.imm # None \/ NeedsCompaction(d))
    THEN [d EXCEPT !.scheduled = TRUE]
    ELSE d

\* background_work_finished_signal_.SignalAll
SignalAll == pc' = [t \in Threads |-> IF pc[t] = "waiting" THEN "front" ELSE pc[t]]

\* RecordBackgroundError
WithError(d) == [d EXCEPT !.bgError = TRUE]

Fault == faults < MaxFaults /\ faults' = faults + 1
NoFault == UNCHANGED faults

-----------------------------------------------------------------------------
(* Opening *)

Init ==
    /\ logs = <<>> /\ tables = <<>> /\ manifests = <<>> /\ current = 0
    /\ db = None /\ bg = None /\ edit = None
    /\ pc = [t \in Threads |-> "todo"] /\ queue = <<>> /\ group = None
    /\ result = [t \in Threads |-> None] /\ pinned = None
    /\ starts = 0 /\ powerLosses = 0 /\ faults = 0

NoVersion == [l0 |-> {}, deep |-> {}]
ManifestState(v, log, next, last) ==
    [l0 |-> v.l0, deep |-> v.deep, log |-> log, next |-> next, last |-> last]

\* NewDB writes the first manifest without a sync, then names it.
NewDB ==
    /\ db = None /\ edit = None /\ current = 0 /\ starts < MaxStarts
    /\ \/ /\ 1 \notin DOMAIN manifests
          /\ manifests' = Put(manifests, 1, Added(EmptyFile, ManifestState(NoVersion, 0, 2, 0)))
          /\ UNCHANGED current
       \/ /\ 1 \in DOMAIN manifests
          /\ current' = 1 /\ UNCHANGED manifests
    /\ UNCHANGED <<logs, tables, db, bg, edit, client, pinned, bounds>>

\* next_file_number_ when the logs in L, the oldest ones, have been replayed: each
\* with records takes a number for its table, then its own is marked as used.
NextFileNumber(m, L) ==
    LET taken(S) == Cardinality({n \in S : logs[n].recs # <<>>})
    IN  Max({m.next + 1 + taken(L)} \cup {n + 1 + taken({k \in L : k > n}) : n \in L})

\* Each log that may hold unsaved records becomes a table of level 0.
RecoverLogFiles(m) ==
    LET replayed == {n \in DOMAIN logs : n >= m.log}
        table(n) == NextFileNumber(m, {k \in replayed : k < n})
        full == {n \in replayed : logs[n].recs # <<>>}
    IN  [next |-> NextFileNumber(m, replayed),
         new |-> [k \in {table(n) : n \in full} |->
                     UNION {LogRecords(n, Len(logs[n].recs)) : n \in {l \in full : table(l) = k}}]]

\* MUTANT: the sequence numbers of the logs are forgotten.
LastSequence_Manifest(R, last) == last

LastSequence(R, last) ==
    LET ends == {r.seq + Cardinality(r.batches) - 1 : r \in R} \cup {last}
    IN  CHOOSE s \in ends : \A e \in ends : e <= s

\* The table files with those of the recovered tables that are in W.
WithTables(new, W) ==
    [n \in DOMAIN tables \cup W |-> IF n \in W THEN new[n] ELSE tables[n]]

\* Recover, then a new log; the new manifest is written by the steps below.  A
\* recovery that fails leaves the tables it has written so far.
Open ==
    /\ db = None /\ edit = None /\ starts < MaxStarts
    /\ current # 0 /\ manifests[current].recs # <<>>
    /\ LET m == Last(manifests[current].recs)
           a == RecoverLogFiles(m)
           last == LastSequence(Replayed(m, AllOfLogs), m.last)
           log == a.next
           v == [l0 |-> m.l0 \cup DOMAIN a.new, deep |-> m.deep]
       IN  /\ Files(m) \subseteq DOMAIN tables          \* or Corruption
           /\ \/ /\ NoFault
                 /\ tables' = WithTables(a.new, DOMAIN a.new)
                 /\ logs' = Put(logs, log, EmptyFile)
                 /\ edit' = [at |-> "append", owner |-> "open", manifest |-> m.next,
                             state |-> ManifestState(v, log, log + 1, last)]
              \/ /\ Fault
                 /\ \E W \in SUBSET DOMAIN a.new : tables' = WithTables(a.new, W)
                 /\ UNCHANGED <<logs, edit>>
    /\ starts' = starts + 1
    /\ UNCHANGED <<manifests, current, db, bg, client, pinned, powerLosses>>

\* The edit of Open is in: DeleteObsoleteFiles, MaybeScheduleCompaction.
OpenDone ==
    /\ edit # None /\ edit.owner = "open" /\ edit.at = "install"
    /\ LET m == edit.state
           d == [l0 |-> m.l0, deep |-> m.deep, log |-> m.log, logfile |-> m.log,
                 next |-> m.next, last |-> m.last, manifest |-> edit.manifest,
                 mem |-> {}, imm |-> None, pending |-> {}, bgError |-> FALSE,
                 scheduled |-> FALSE, shutting |-> FALSE, torn |-> FALSE]
       IN  /\ DeleteObsoleteFiles(d)
           /\ db' = Scheduled(d)
    /\ edit' = None
    /\ UNCHANGED <<current, bg, client, pinned, bounds>>

-----------------------------------------------------------------------------
(* LogAndApply: append, sync, name the new manifest; then install it *)

BeginEdit(d, v, log, owner) ==
    edit' = [at |-> "append", owner |-> owner, manifest |-> d.manifest,
             state |-> ManifestState(v, log, d.next, d.last)]

\* What the edit, which names the files it adds and deletes, makes of the state m
\* the manifest adds up to: m may hold an edit that failed and db does not know of.
Applied(m) ==
    [edit.state EXCEPT !.l0 = (m.l0 \ (db.l0 \ @)) \cup (@ \ db.l0),
                       !.deep = (m.deep \ (db.deep \ @)) \cup (@ \ db.deep)]

\* A manifest of Open starts with a snapshot of the recovered version.
AppendManifest ==
    /\ edit # None /\ edit.at = "append"
    /\ LET n == edit.manifest
           f == IF edit.owner = "open" THEN Added(EmptyFile, edit.state)
                ELSE Added(manifests[n], Applied(Last(manifests[n].recs)))
       IN  manifests' = Put(manifests, n, f)
    /\ edit' = [edit EXCEPT !.at = "sync"]
    /\ UNCHANGED <<logs, tables, current, db, bg, client, pinned, bounds>>

SyncManifest ==
    /\ edit # None /\ edit.at = "sync"
    /\ manifests' = [manifests EXCEPT ![edit.manifest] = Synced(@)]
    /\ edit' = [edit EXCEPT !.at = IF edit.owner = "open" THEN "current" ELSE "install"]
    /\ UNCHANGED <<logs, tables, current, db, bg, client, pinned, bounds>>

SetCurrentFile ==
    /\ edit # None /\ edit.at = "current"
    /\ current' = edit.manifest
    /\ edit' = [edit EXCEPT !.at = "install"]
    /\ UNCHANGED <<logs, tables, manifests, db, bg, client, pinned, bounds>>

\* The store once the edit is in; a call that has ended may schedule the next.
Installed(d) == [d EXCEPT !.l0 = edit.state.l0, !.deep = edit.state.deep,
                          !.log = edit.state.log]
CallEnded(d) == Scheduled([d EXCEPT !.scheduled = FALSE])

-----------------------------------------------------------------------------
(* The background thread *)

BackgroundIdle == db # None /\ db.scheduled /\ bg = None /\ edit = None
MayWork == BackgroundIdle /\ ~db.shutting /\ ~db.bgError

\* imm is written to a table of level 0, or of a deeper one nothing overlaps.
\* A merge in progress stops for it at every key, whatever failed before, until
\* the store is closing.
CompactMemTable ==
    /\ db # None /\ edit = None /\ db.imm # None
    /\ MayWork \/ (bg # None /\ ~(db.shutting /\ db.bgError))
    /\ LET d == [db EXCEPT !.next = @ + 1]
           new == IF db.imm = {} THEN {} ELSE {db.next}
           failed == IF bg = None THEN CallEnded(WithError(d)) ELSE WithError(d)
       IN  \/ /\ NoFault
              /\ tables' = IF new = {} THEN tables ELSE Put(tables, db.next, db.imm)
              /\ IF db.shutting
                 THEN db' = failed /\ SignalAll /\ UNCHANGED edit
                 ELSE /\ \E v \in {[l0 |-> db.l0 \cup new, deep |-> db.deep],
                                   [l0 |-> db.l0, deep |-> db.deep \cup new]} :
                             BeginEdit(d, v, db.logfile, "flush")
                      /\ db' = d /\ UNCHANGED pc
           \/ Fault /\ db' = failed /\ SignalAll /\ UNCHANGED <<tables, edit>>
    /\ UNCHANGED <<logs, manifests, current, bg, queue, group, result, pinned, starts, powerLosses>>

MemTableInstalled ==
    /\ edit # None /\ edit.owner = "flush" /\ edit.at = "install"
    /\ LET d == [Installed(db) EXCEPT !.imm = None]
       IN  /\ DeleteObsoleteFiles(d)
           /\ db' = IF bg = None THEN CallEnded(d) ELSE d
    /\ edit' = None
    /\ SignalAll
    /\ UNCHANGED <<current, bg, queue, group, result, pinned, bounds>>

\* PickCompaction and OpenCompactionOutputFile: some tables of level 0 with the
\* deeper ones they overlap, or deeper ones of two levels, are merged into one
\* table that is pending until installed.
StartCompaction ==
    /\ MayWork /\ db.imm = None
    /\ \E level0 \in SUBSET db.l0, below \in SUBSET db.deep :
           /\ \/ level0 # {} /\ Cardinality(db.l0) >= L0Trigger
              \/ level0 = {} /\ Cardinality(below) > 1 /\ Cardinality(db.deep) >= DeepTrigger
           /\ bg' = [level0 |-> level0, below |-> below, out |-> db.next]
           /\ tables' = Put(tables, db.next, Contents(level0 \cup below))
    /\ db' = [db EXCEPT !.next = @ + 1, !.pending = @ \cup {db.next}]
    /\ UNCHANGED <<logs, manifests, current, edit, client, pinned, bounds>>

\* A table that overlaps nothing is moved down without a merge (IsTrivialMove).
\* Moves between deeper levels change nothing that is modelled.
MoveTable ==
    /\ MayWork /\ db.imm = None /\ Cardinality(db.l0) >= L0Trigger
    /\ \E n \in db.l0 : BeginEdit(db, [l0 |-> db.l0 \ {n}, deep |-> db.deep \cup {n}], db.log, "move")
    /\ UNCHANGED <<disk, db, bg, client, pinned, bounds>>

MoveInstalled ==
    /\ edit # None /\ edit.owner = "move" /\ edit.at = "install"
    /\ db' = CallEnded(Installed(db))
    /\ edit' = None
    /\ SignalAll
    /\ UNCHANGED <<disk, bg, queue, group, result, pinned, bounds>>

\* DoCompactionWork's end: install the output, or give it up and leave the file.
FinishCompaction ==
    /\ bg # None /\ edit = None
    /\ LET v == [l0 |-> db.l0 \ bg.level0, deep |-> (db.deep \ bg.below) \cup {bg.out}]
           givenUp == /\ db' = CallEnded(WithError([db EXCEPT !.pending = @ \ {bg.out}]))
                      /\ bg' = None /\ SignalAll /\ UNCHANGED edit
       IN  \/ /\ NoFault
              /\ IF db.shutting THEN givenUp
                 ELSE BeginEdit(db, v, db.log, "compaction") /\ UNCHANGED <<db, bg, pc>>
           \/ Fault /\ givenUp
    /\ UNCHANGED <<disk, queue, group, result, pinned, starts, powerLosses>>

CompactionInstalled ==
    /\ edit # None /\ edit.owner = "compaction" /\ edit.at = "install"
    /\ LET d == [Installed(db) EXCEPT !.pending = @ \ {bg.out}]
       IN  DeleteObsoleteFiles(d) /\ db' = CallEnded(d)
    /\ bg' = None /\ edit' = None
    /\ SignalAll
    /\ UNCHANGED <<current, queue, group, result, pinned, bounds>>

\* An edit that could not be written may still be in the manifest (unsynced).
EditFails ==
    /\ edit # None /\ edit.at # "install" /\ Fault
    /\ edit' = None
    /\ IF edit.owner = "open"
       THEN /\ manifests' = Without(manifests, {edit.manifest})
            /\ UNCHANGED <<logs, tables, db, bg, pc>>
       ELSE LET d == WithError(IF edit.owner = "compaction"
                               THEN [db EXCEPT !.pending = @ \ {bg.out}] ELSE db)
                ends == edit.owner = "compaction" \/ bg = None
            IN  /\ db' = IF ends THEN CallEnded(d) ELSE d
                /\ bg' = IF ends THEN None ELSE bg
                /\ SignalAll
                /\ IF edit.owner = "compaction" THEN DeleteObsoleteFiles(d)
                   ELSE UNCHANGED <<logs, tables, manifests>>
    /\ UNCHANGED <<current, queue, group, result, pinned, starts, powerLosses>>

\* BackgroundCall finds the store closing or failed, or nothing to do.
NothingToDo ==
    /\ BackgroundIdle
    /\ db.shutting \/ db.bgError \/ (db.imm = None /\ ~NeedsCompaction(db))
    /\ db' = CallEnded(db)
    /\ SignalAll
    /\ UNCHANGED <<disk, bg, edit, queue, group, result, pinned, bounds>>

-----------------------------------------------------------------------------
(* Writers *)

Enqueue(t) ==
    /\ pc[t] = "todo" /\ db # None /\ ~db.shutting
    /\ queue' = Append(queue, t)
    /\ pc' = [pc EXCEPT ![t] = IF queue = <<>> THEN "front" ELSE "asleep"]
    /\ UNCHANGED <<disk, db, bg, edit, group, result, pinned, bounds>>

\* MUTANT: the new head of the queue is not woken.
Leave_NoSignal(n, s) ==
    LET left == {queue[i] : i \in 1 .. n}
    IN  /\ queue' = SubSeq(queue, n + 1, Len(queue))
        /\ result' = [t \in Threads |-> IF t \in left THEN s ELSE result[t]]
        /\ pc' = [t \in Threads |-> IF t \in left THEN "done" ELSE pc[t]]
        /\ group' = None

\* The first n writers of the queue return s, and the next one is woken.
Leave(n, s) ==
    LET left == {queue[i] : i \in 1 .. n}
    IN  /\ queue' = SubSeq(queue, n + 1, Len(queue))
        /\ result' = [t \in Threads |-> IF t \in left THEN s ELSE result[t]]
        /\ pc' = [t \in Threads |-> IF t \in left THEN "done"
                                    ELSE IF n < Len(queue) /\ t = queue[n + 1] THEN "front"
                                    ELSE pc[t]]
        /\ group' = None

\* MUTANT: a writer that does not sync takes the ones behind it that do.
BuildBatchGroup_AnySync ==
    {n \in 1 .. Len(queue) : n < Len(queue) => queue[n + 1] \notin Flushers}

\* The writers a group may take: the batches of a group are limited in size, a
\* null batch is not, and a writer that does not sync takes none that does.
BuildBatchGroup ==
    {n \in 1 .. Len(queue) :
        /\ Head(queue) \in SyncWriters \/ \A i \in 1 .. n : queue[i] \notin SyncWriters
        /\ n < Len(queue) => queue[n + 1] \notin Flushers}

GroupWith(d) ==
    /\ \E n \in BuildBatchGroup :
           group' = [size |-> n,
                     record |-> [seq |-> d.last + 1,
                                 batches |-> {queue[i] : i \in 1 .. n} \cap Writers]]
    /\ pc' = [pc EXCEPT ![Head(queue)] = "append"]
    /\ UNCHANGED <<queue, result>>

HasRoom(t) == t \notin Flushers /\ Cardinality(Batches(db.mem)) <= MemCapacity
MustWait == db.imm # None \/ Cardinality(db.l0) >= L0Stop

\* MakeRoomForWrite up to the unlock in Write: fail, wait, or go on, in the
\* memtable at hand or in a new one with a new log.
WriteInRoom(t) ==
    /\ pc[t] = "front" /\ ~db.bgError /\ HasRoom(t)
    /\ GroupWith(db)
    /\ UNCHANGED <<disk, db, bg, edit, pinned, bounds>>

FailAfterError(t) ==
    /\ pc[t] = "front" /\ db.bgError
    /\ Leave(1, "error")
    /\ UNCHANGED <<disk, db, bg, edit, pinned, bounds>>

WaitForRoom(t) ==
    /\ pc[t] = "front" /\ ~db.bgError /\ ~HasRoom(t) /\ MustWait
    /\ pc' = [pc EXCEPT ![t] = "waiting"]
    /\ UNCHANGED <<disk, db, bg, edit, queue, group, result, pinned, bounds>>

SwitchMemTable(t) ==
    /\ pc[t] = "front" /\ ~db.bgError /\ ~HasRoom(t) /\ ~MustWait
    /\ \/ /\ NoFault
          /\ logs' = Put(logs, db.next, EmptyFile)
          /\ LET d == [db EXCEPT !.next = @ + 1, !.logfile = db.next, !.imm = db.mem, !.mem = {},
                                !.torn = FALSE]
             IN  db' = Scheduled(d)
          /\ IF t \in Flushers THEN Leave(1, "ok") ELSE GroupWith(db)
       \/ Fault /\ Leave(1, "error") /\ UNCHANGED <<logs, db>>
    /\ UNCHANGED <<tables, manifests, current, bg, edit, pinned, starts, powerLosses>>

WithSequence(d) == [d EXCEPT !.last = @ + Cardinality(group.record.batches)]

\* An append that fails leaves a part of the record, and the store goes on in the
\* same log.  What is appended behind it may or may not be read by a recovery.
AddRecord(t) ==
    /\ pc[t] = "append"
    /\ \/ /\ NoFault
          /\ \/ logs' = [logs EXCEPT ![db.logfile] = Added(@, group.record)]
             \/ db.torn /\ UNCHANGED logs
          /\ pc' = [pc EXCEPT ![t] = IF t \in SyncWriters THEN "sync" ELSE "insert"]
          /\ UNCHANGED <<db, queue, group, result>>
       \/ /\ Fault
          /\ db' = WithSequence([db EXCEPT !.torn = TRUE])
          /\ Leave(group.size, "error")
          /\ UNCHANGED logs
    /\ UNCHANGED <<tables, manifests, current, bg, edit, pinned, starts, powerLosses>>

\* After a failed sync the record may or may not be there: no more writes.
SyncLog(t) ==
    /\ pc[t] = "sync"
    /\ \/ /\ NoFault
          /\ logs' = [logs EXCEPT ![db.logfile] = Synced(@)]
          /\ pc' = [pc EXCEPT ![t] = "insert"]
          /\ UNCHANGED <<db, queue, group, result>>
       \/ /\ Fault
          /\ db' = WithError(WithSequence(db))
          /\ Leave(group.size, "error")
          /\ UNCHANGED logs
    /\ UNCHANGED <<tables, manifests, current, bg, edit, pinned, starts, powerLosses>>

InsertInto(t) ==
    /\ pc[t] = "insert"
    /\ db' = WithSequence([db EXCEPT !.mem = @ \cup {group.record}])
    /\ Leave(group.size, IF db.torn THEN "unsure" ELSE "ok")
    /\ UNCHANGED <<disk, bg, edit, pinned, bounds>>

-----------------------------------------------------------------------------
(* Readers, closing, the end of the process, the loss of power *)

NewIterator ==
    /\ db # None /\ ~db.shutting /\ pinned = None
    /\ pinned' = Files(db)
    /\ UNCHANGED <<disk, db, bg, edit, client, bounds>>

DeleteIterator ==
    /\ pinned # None
    /\ pinned' = None
    /\ UNCHANGED <<disk, db, bg, edit, client, bounds>>

\* ~DBImpl waits for the background thread; the client has stopped using it.
Close ==
    /\ db # None /\ ~db.shutting /\ queue = <<>> /\ pinned = None
    /\ db' = [db EXCEPT !.shutting = TRUE]
    /\ UNCHANGED <<disk, bg, edit, client, pinned, bounds>>

\* MUTANT: the destructor does not wait for the background thread.
Closed_NoWait ==
    /\ db # None /\ db.shutting
    /\ db' = None
    /\ UNCHANGED <<disk, bg, edit, client, pinned, bounds>>

Closed ==
    /\ db # None /\ db.shutting /\ ~db.scheduled
    /\ db' = None
    /\ UNCHANGED <<disk, bg, edit, client, pinned, bounds>>

ProcessGone ==
    /\ db' = None /\ bg' = None /\ edit' = None /\ pinned' = None
    /\ queue' = <<>> /\ group' = None
    /\ pc' = [t \in Threads |-> IF pc[t] \in {"todo", "done"} THEN pc[t] ELSE "dead"]
    /\ UNCHANGED <<result, current, tables, starts, faults>>

ProcessCrash ==
    /\ db # None \/ edit # None
    /\ ProcessGone
    /\ UNCHANGED <<logs, manifests, powerLosses>>

\* What a file may have lost: some of the records after the synced ones.
Truncations(f) ==
    {g \in [DOMAIN f -> UNION {{[recs |-> SubSeq(f[n].recs, 1, k), synced |-> k] :
                                   k \in f[n].synced .. Len(f[n].recs)} : n \in DOMAIN f}] :
        \A n \in DOMAIN f : /\ IsPrefix(g[n].recs, f[n].recs)
                            /\ g[n].synced >= f[n].synced}

PowerLoss ==
    /\ powerLosses < MaxPowerLosses /\ powerLosses' = powerLosses + 1
    /\ ProcessGone
    /\ \E gone \in SUBSET {n \in DOMAIN logs : logs[n].synced = 0} :
           logs' \in Truncations(Without(logs, gone))
    /\ manifests' \in Truncations(manifests)

Writing(t) ==
    \/ WriteInRoom(t) \/ FailAfterError(t) \/ WaitForRoom(t) \/ SwitchMemTable(t)
    \/ AddRecord(t) \/ SyncLog(t) \/ InsertInto(t)

LogAndApply == AppendManifest \/ SyncManifest \/ SetCurrentFile \/ EditFails

BackgroundCall ==
    \/ CompactMemTable \/ MemTableInstalled
    \/ StartCompaction \/ FinishCompaction \/ CompactionInstalled
    \/ MoveTable \/ MoveInstalled
    \/ NothingToDo

Next ==
    \/ NewDB \/ Open \/ OpenDone \/ LogAndApply
    \/ BackgroundCall
    \/ \E t \in Threads : Enqueue(t) \/ Writing(t)
    \/ NewIterator \/ DeleteIterator
    \/ Close \/ Closed \/ ProcessCrash \/ PowerLoss

\* Threads of the process are scheduled: writers, and the background thread.
Fairness ==
    /\ \A t \in Threads : WF_vars(Writing(t))
    /\ WF_vars(LogAndApply)
    /\ WF_vars(BackgroundCall)

Spec == Init /\ [][Next]_vars /\ Fairness

-----------------------------------------------------------------------------
(* Properties *)

TypeOK ==
    /\ \A n \in DOMAIN logs : logs[n].synced \in 0 .. Len(logs[n].recs)
    /\ \A n \in DOMAIN manifests : manifests[n].synced \in 0 .. Len(manifests[n].recs)
    /\ current \in Nat
    /\ pc \in [Threads -> {"todo", "asleep", "front", "waiting", "append", "sync", "insert", "done", "dead"}]
    /\ result \in [Threads -> {None, "ok", "unsure", "error"}]
    /\ \A t \in Threads : (result[t] # None) = (pc[t] = "done")
    /\ queue \in Seq(Threads) /\ IsInjective(queue)
    /\ \A t \in Threads : pc[t] \notin {"todo", "asleep", "done", "dead"} =>
           queue # <<>> /\ t = Head(queue)
    /\ (group # None) = (\E t \in Threads : pc[t] \in {"append", "sync", "insert"})
    /\ db = None => /\ bg = None /\ pinned = None /\ queue = <<>>
                    /\ edit # None => edit.owner = "open"
    /\ db # None => /\ db.log <= db.logfile /\ db.logfile \in DOMAIN logs
                    /\ \A n \in DOMAIN logs : n < db.next
                    /\ (bg # None \/ edit # None) => db.scheduled

\* No file is deleted that a reader, the running store, or the store as it may
\* be found after a crash or a loss of power at this very moment, still needs:
\* pending_outputs_, the versions in use and bg_error_ keep DeleteObsoleteFiles
\* away from them.  (The store is past the first manifest, which is not synced.)
NeededFilesKept ==
    /\ pinned # None => pinned \subseteq DOMAIN tables
    /\ db # None => Files(db) \subseteq DOMAIN tables
    /\ current > 1 => /\ current \in DOMAIN manifests
                      /\ manifests[current].synced > 0
    /\ \A m \in PossibleStates : Files(m) \subseteq DOMAIN tables

\* The batches a reader may see have sequence numbers of their own, and none is
\* above versions_->LastSequence() once its writer is done, also when logs and
\* manifests of several lives of the store, and failed writes, come together.
SequencesOrdered ==
    LET last(r) == r.seq + Cardinality(r.batches) - 1
        R == IF db = None THEN Recoverable
             ELSE db.mem \cup (IF db.imm = None THEN {} ELSE db.imm) \cup Contents(Files(db))
    IN  /\ \A r, q \in R : r # q => last(r) < q.seq \/ last(q) < r.seq
        /\ db # None => \A r \in R : last(r) <= db.last

\* A thread that has called Write returns, unless its process ends: nobody is
\* left waiting for room, for its turn or for the leader of its group.
WritersReturn ==
    \A t \in Threads : pc[t] \in {"asleep", "front"} ~> pc[t] \in {"done", "dead"}

-----------------------------------------------------------------------------
(* The promise of WriteOptions::sync *)

Visible ==
    IF db = None THEN Batches(Recoverable)
    ELSE Batches(db.mem \cup (IF db.imm = None THEN {} ELSE db.imm) \cup Contents(Files(db)))

Safe == {w \in Batches(Recoverable) :
            \A m \in PossibleStates : w \in Batches(Held(m, SyncedLogs))}

Status(t) ==
    IF pc[t] \in {"todo", "dead"} THEN pc[t]
    ELSE IF pc[t] = "done" THEN result[t] ELSE "called"

Store == INSTANCE DurableStore WITH
    status <- [w \in Writers |-> Status(w)],
    visible <- Visible,
    limbo <- Batches(Recoverable) \ Visible,
    safe <- Safe

\* The store keeps DurableStore's promise: what is visible, what a crash or a
\* loss of power may take, and what a returned write may rely on.
ImplementsStore == Store!Spec
=============================================================================
