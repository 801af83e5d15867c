# FantasyIQ: a verification of the app's roster, tables and advice

FantasyIQ is an iOS app for fantasy football. A user opens a table of all NFL
players, presses a button to add one to the roster, and swipes rows away again.
The projections come from a web API; the roster is kept with Core Data; teams are
exchanged over the Firebase Realtime Database, whose client keeps its data in a LevelDB
store. This directory holds TLA+ models of the app's own code and of the two vendored
components that carry concurrency and failure of their own (the Firebase database client
and LevelDB), the TLC runs that check them and TLAPS proofs about them. Paths below are
relative to the repository's `FantasyIQ/FantasyIQ/`, those of LevelDB to
`FantasyIQ/Pods/leveldb-library/`, those of the client to
`FantasyIQ/Pods/FirebaseDatabase/Firebase/Database/Core/`.

## 1. Inventory

| Component | Source | State | Operations |
|---|---|---|---|
| Roster rows | `ModelControllers/FantasyIQController.swift`, `Models/User+Convenience.swift`, `Models/CoreDataStack.swift`, `ViewControllers/RosterTableViewController.swift`, `ViewControllers/AllPlayersTableViewController.swift` (add button) | the shared `mainContext`, the store, `projectedSeasonStats`, `projectedGameStats`, what the fetched results controller lists | `turnAddedPlayerToSeasonProjection`, `turnAddedPlayerToGameProjection`, `fetchPlayerAndProjectedSeasonStats`, `fetchProjectedGameStats`, `createPlayer`, `createPlayerGameProjection`, `deletePlayer`, `saveToCoreData` |
| Table of all players | `ViewControllers/AllPlayersTableViewController.swift`, `fetchAllPlayers` | `allFantasyPlayers`, each table's idea of its number of rows, the main queue's reload blocks | `viewDidLoad`, `numberOfRowsInSection`, `cellForRowAt`, `fetchAllPlayers` |
| Depth chart and trade advice | `FantasyIQController.swift:230-285` | none: functions of the fetched roster | the three `calculateDepthChartRanking...`, `calculateTradeCombinations` |
| Week statistics and breakout search | `FantasyIQController.swift:114-191, 287-302` | `currentWeek`, `upComingWeek`, `currentPlayerGameStats` | `fetchCurrentWeek`, `fetchUpcomingWeek`, `fetchCurrentPlayerGameStats`, `calculatePotentialBreakoutPlayers` |
| Team exchange | `FantasyIQController.swift:304-334`, `Models/Team.swift`, `Models/Player.swift` | the tree below `Team` in the Firebase database, `receivedPlayers`, `receviedTeam` | `createTeam`, `fetchTeams`, `addPlayerToFirebase`, `toAnyObject`, `init?(snapshot:)` |
| Shell and views | `AppDelegate.swift`, `SceneDelegate.swift`, `Views/`, `AppearanceHelper.swift` | none of its own | launch, outlets, colours |
| Firebase database client (vendored) | `FRepo.m`, `FPersistentConnection.m`, `FSyncTree.m`, `FWriteTree.m` | connection state, outstanding puts, listens, held back answers, pending writes, server cache | `setValue`, value observers, connecting, losing the connection, restoring state, answers and data |
| LevelDB (vendored) | `db/db_impl.cc`, `db/version_set.cc`, `db/db_iter.cc`, `table/merger.cc` and what they call | memtables, logs, tables, manifests, the version, writers' queue, snapshots, iterators | `Open`, `Write`, `Get`, `NewIterator`, `GetSnapshot`, `CompactRange`, flushes and compactions of the background thread, recovery |
| Other pods | GTMSessionFetcher, nanopb, GoogleUtilities and others | | not on the path of any operation of the app |

### How they interact

* All view controllers share one `FantasyIQController` (handed over by the
  `AddPlayer` segue) and one Core Data context, `CoreDataStack.shared.mainContext`.
* Every request is a `URLSession.shared` data task. Its completion handler runs on
  URLSession's delegate queue, which is serial, and not on the main thread.
  `createPlayer` is called from there, so objects of the main-queue context are
  inserted, assigned and saved off the main thread, without `perform`.
* `deletePlayer`, cell configuration and the fetched results controller run on the
  main thread, against the same context.
* The players table's completion handler hops to the main queue with
  `DispatchQueue.main.async`, but only to reload; the list itself has been replaced
  before, on URLSession's queue.
* `fetchCurrentWeek`, the breakout search, the trade advice and the team exchange
  have no caller in the app. Without `fetchCurrentWeek` no game projection is ever
  requested.
* The team exchange calls `setValue` and `observe` of the Firebase client, on the path
  `Team`. The client shows its own pending writes over what the server told it, and sends
  outstanding puts and listens again after each reconnection. The app does not switch on
  persistence.
* With persistence on, the client keeps its pending writes and server cache in a LevelDB
  store (`APLevelDB.mm`), whose writers, readers and background thread share one mutex
  which is released during every access to a file.

### What is hard here

* Two threads on one context: a save of one commits the other's half-built row; a
  failed save resets the context under the other.
* The process can die between a foreign save of a half-built row and its completion.
* State read when a request is made and used when the answer is handled: the name of
  the tapped entry, the list it is looked up in, the number of rows of a table.
* Answers of two visits to a table in either order.
* 16-bit identifiers, converted with a trap.
* The fetched results controller is not fetched again after a reset.
* Puts that the server has applied are sent again, over newer writes of other devices;
  answers are held back behind listens; a restart forgets both.
* LevelDB: groups of writers with and without sync; a flush in the middle of a merge; files
  that a reader, a merge or the next recovery still needs; edits that may or may not be in
  the manifest; crashes and losses of power at every step; tables that share a user key.

`PROJECT.json` lists these hazards at their lines, with the properties that cover them.

### What makes each component correct

* Roster rows: a saved row is whole; a torn one has an explanation; a swipe takes
  effect; the row is that of the player tapped; nothing stays pending; requests end;
  the table shows the store.
* Table of all players: rows and list agree outside two windows; indexing is safe;
  a table that stays on screen settles.
* Advice: more depth does not hurt, only the deciding row counts, advice can be
  followed.
* Breakout search: a reported player has the points, a missed one is explained.
* Team exchange: a device sees its own writes, an acknowledged write is not undone, the
  devices agree in the end, every write is answered; what one device writes another can
  read (it cannot).
* LevelDB: a synced write survives, a returned write survives a crash, nothing is invented;
  no file that is needed is deleted; writers return; reads and iterators see the history of
  writes, whatever compactions do.

## 2. Modules

| Module | What it is |
|---|---|
| `Roster` | from the add button to the store and the roster table, both threads |
| `MCRoster` | feeds for the runs |
| `RosterProofs` | two inductive invariants and nine theorems |
| `AllPlayersTable` | visits, fetches, reload blocks and indexing |
| `MCAllPlayersTable` | three visits |
| `AllPlayersTableProofs` | three theorems |
| `DepthChart` | rankings and advice over every roster |
| `MCDepthChart` | points around every bar |
| `DepthChartProofs` | four theorems |
| `BreakoutSearch` | the breakout search and the answers that come in meanwhile |
| `MCBreakoutSearch` | a list of four entries |
| `BreakoutSearchProofs` | three theorems |
| `TeamExchange` | the three Firebase operations, the client below them, a server |
| `MCTeamExchange` | a phone and a pad |
| `TeamExchangeProofs` | inductive invariants of clients, wires, server and of what is shown; five theorems |
| `DurableStore` | abstract: what a LevelDB store promises of its writes |
| `LevelDB` | writers, background thread, files, failures and recovery; implements `DurableStore` |
| `LevelDBProofs` | inductive invariant of files, threads, tables and sequence numbers; four theorems |
| `LevelDBRefinement` | what the files hold, step by step; `LevelDB` implements `DurableStore` and keeps its promise; four theorems |
| `MCLevelDB` | a syncing writer, one that does not sync, a flusher |
| `LogFile` | blocks and fragments of logs, cut short or failed half-way |
| `StoreLogs` | composes the two: the logs of `LevelDB` as files of `LogFile` |
| `Compaction` | versions, levels, compactions, snapshots and reads |
| `MCCompaction` | keys and ranges for the two findings |
| `Iteration` | an iterator over the store of `Compaction`, a round of a loop a step |
| `MCIteration` | both together, the iterator open while the store is small |
| `CompactionProofs` | inductive invariants of levels, merges, what the store holds, and of iterators; four theorems |

An operator marked `MUTANT` is a plausible bug in the definition that follows it. No
specification uses it; it documents what each property would catch.

### Roster

`<<"Player", t>>` is the row that tap `t` creates and `<<"PlayerGame", t>>` the row of
its game projection.

| Model | Code |
|---|---|
| `ReceiveFeed`, `ShowCells`, `Tap` | `fetchAllPlayers`; `cellForRowAt` capturing the entry; the button, with the look-up by name of `fetchPlayerAndProjectedSeasonStats` |
| `SeasonAnswered` | its completion handler: keep the projection, request the game projection if the week is known, `Int16(...)`, then `createPlayer` up to the insertion |
| `GameAnswered`, `GameIncomplete`, `TaskFails` | the handler of `fetchProjectedGameStats`, the answers with a missing field, the error paths |
| `ConversionTraps` | `Int16(id)` on a wider identifier: the process dies |
| `AssignAttribute` | one assignment of `Player.init` or `PlayerGame.init`; after the last, `saveToCoreData` |
| `DeletePlayer` | the swipe, up to `moc.save()` |
| `SaveSucceeds`, `SaveFails`, `ResetContext` | `saveToCoreData` |
| `ProcessPendingChanges` | the main run loop, which tells the fetched results controller what is pending |
| `Relaunch` | the process dies and starts again, at any moment |

`status[o]` is what the context knows of an object, `filled[o]` the number of its
attributes assigned in memory, `store[o]` the number in the store. An assignment is a
step; so is a save, a reset, a swipe. The two threads interleave at every step, since
nothing in the code orders them. (A save that runs while another save runs is undefined
in Core Data; the model takes the two in some order.)

Core Data is external and modelled from how this code uses it: `save` commits every
pending change of the context whichever thread made it; a save that fails has already
processed the pending changes, so the table follows them; `reset` forgets all objects;
changing or deleting a forgotten object has no effect on the store.

`asked`, `reported` and `cutOff` are history variables for the properties. `asked`
loses on `Relaunch` the rows that are back in the table.

### AllPlayersTable

One table per visit, one list for all. `FetchAnswered` replaces the list and queues the
reload in one step: between the two only the main thread could look, and what it sees
then it also sees while the reload is queued. `rows[v]` is the row count UIKit was told,
`ShowRow(i)` the subscript `allFantasyPlayers[indexPath.row]`, `trapped` the crash.

### DepthChart

The roster is a sequence of rows in the order it is fetched. The sort is by position
only, so a new row may come first or last. The points are naturals; the bars of the code
are whole numbers. Rows without a position, on which the code traps, belong to `Roster`
(they are the torn rows).

### BreakoutSearch

The caller's thread runs two loops (`Request`, then `TakeAnswers` and `Return`); the
handlers of the requests run on URLSession's queue. An append is two steps
(`StatsAnswered`, `EndAppend`), because the caller may take the array in the middle of
one: the outcome is then the array as it was before, or a crash. The second loop is one
step, for `for player in playerGameStats` walks a copy. Requests are made only while
`currentWeek` is known, and `fetchCurrentWeek` may be answered at any moment.
`currentPlayerGameStats` is written and read by one handler and left out.

### TeamExchange

| Model | Code |
|---|---|
| `CreateTeam`, `AddPlayerToFirebase`, `SetValue` | `createTeam`, `addPlayerToFirebase` over `FRepo`'s `set:withNode:withCallback:` |
| `FetchTeams`, `RaiseEvents`, `Receive` | `fetchTeams`, the events of `FSyncTree`, the observer with `Team.init?(snapshot:)` |
| `OnReady`, `RestoredListens`, `RestoredPuts`, `InOrder`, `OnDisconnect`, `Relaunch` | the connection of `FPersistentConnection`, `restoreState`, a new launch |
| `OnDataUpdate`, `OnPutAnswer`, `OnListenAnswer`, `AckWrites` | what the client does with data and answers, `removeWriteId` |
| `ServerListens`, `ServerApplies`, `ServerRefuses` | the server, external |

Both operations of the app replace the players node of a team, so a write is named by its
device and number and a tree is a function from teams to writes. The outstanding puts and
the pending writes are sets: a dictionary is one in the code, and the number of a write is
its place wherever the code goes by order (`InOrder`, the overlay). What can be decoded
depends on the keys only (`NodeKeys`, `Readable`). The server is assumed to read a
connection's requests in order and to tell the listeners of a change before it answers
the put that made it, which is what the client's held back answers rely on. It is also assumed
to read nothing more of a connection once the client has lost it: were it to apply a put of the
old connection behind the same put, and a newer one, sent over the new connection,
`AckedNotUndone` would not hold. What a client shows is its cache with the pending writes laid
over it, as `FViewProcessor` makes it for the views an event reaches (`Shown`).

### LevelDB and DurableStore

A batch is named by its writer; a record of a log, a memtable and a table hold batches
with their sequence numbers. A step is what runs under the mutex, or one call of the file
system with the mutex released.

| Model | Code |
|---|---|
| `Enqueue`, `WriteInRoom`, `WaitForRoom`, `SwitchMemTable`, `FailAfterError`, `AddRecord`, `SyncLog`, `InsertInto`, `Leave` | `DBImpl::Write`, `MakeRoomForWrite`, `BuildBatchGroup` |
| `CompactMemTable`, `MemTableInstalled` | `CompactMemTable`, called by itself or at any key of a merge |
| `StartCompaction`, `FinishCompaction`, `CompactionInstalled`, `MoveTable`, `MoveInstalled`, `NothingToDo` | `BackgroundCall`, `BackgroundCompaction` with its trivial moves, `DoCompactionWork` |
| `AppendManifest`, `SyncManifest`, `SetCurrentFile`, `EditFails` | `LogAndApply` |
| `NewDB`, `Open`, `OpenDone` | `DB::Open`, `Recover`, `RecoverLogFile` |
| `NewIterator`, `DeleteIterator` | a reader that pins a version |
| `Close`, `Closed`, `ProcessCrash`, `PowerLoss` | the destructor, the end of the process, the loss of what is not synced |

A merge takes some tables of level 0 and some deeper ones, or tables of two deeper levels; a
table of level 0 may be moved down instead. Which ones the code takes is a matter of keys and
sizes, and that of `Compaction`. Two cases change nothing that is modelled here and are left
out: moves between deeper levels and merges of a lone deep table. A compaction that reads ask
for (`allowed_seeks`) starts like the others, only earlier.

An append to a log may fail (`AddRecord`). The code returns the error to the group, moves the
last sequence number on and goes on in the same log without a background error
(`db_impl.cc:1215-1243`), but a part of the record may be in the file, and `block_offset_` no
longer is where the file ends. Such a log is `torn`. Recovery may then drop what is appended
behind the failure, although it was appended, synced and returned ok
(`db/log_reader.cc:247-256`), so that in a torn log `AddRecord` adds the record or does not. A
write that returns ok while the log is torn has the result "unsure". A new log, and a new
memtable, end that state, and the table of the memtable makes the unsure writes as sure as
others. `include/leveldb/options.h:173-181` makes no such exception: it says that no write is
lost if only the process crashes, and compares sync with `fsync()`. That comment is not kept
for unsure writes; `DurableStore` states the promise the code does keep.

`PowerLoss` cuts every log and manifest anywhere after its last sync, and a log that was never
synced may be gone with its name. Assumptions: a record is read whole or not at all, also of a
log cut anywhere or with a failed append in it (`TruncatedLogRead`, `FailedAppendRead`); a
table is synced before an edit names it (`BuildTable`, `FinishCompactionOutputFile`); all other
names, those of tables and of synced logs and CURRENT, and deletions are on disk when the call
that makes them returns. LevelDB syncs the directory for manifests only (`Sync` in
`util/env_posix.cc:299-316`) and leaves the rest to the file system: on one that may lose the
name of a synced file, the promise of a synced write would not hold. `reuse_logs` is off, its
default. A recovery may fail at any of its calls, with some of its tables written (`Open`,
`EditFails`); its last sequence number is the greatest of the manifest's and of those in the
logs it replays. A record of a
manifest names files added and deleted; the model keeps the state it adds up to, which is not
that of the store once an edit has failed and may still be there (`Applied`). The sizes in
bytes become numbers of batches (`MemCapacity`) and of level-0 tables. The file numbers that
recovery gives are those of the loop over the logs with `NewFileNumber` and
`MarkFileNumberUsed`, in closed form (`NextFileNumber`): the greatest of a few sums, each
counting the tables written from some log on.

`DurableStore` knows four things: `status` of every write (among them "unsure": returned behind
an append that failed, for which a write has returned an error), the `visible` writes, those in
`limbo` (in a log, seen by nobody until the process ends) and the `safe` ones. The end of the
process loses no write that is visible, unless it is unsure and not yet safe. `LevelDB`
instantiates it with: visible is what memtables and tables hold, or what recovery would
find while the store is closed; limbo the rest of what recovery would find; safe what it
would find whatever a loss of power takes.

### LogFile

`Emit` is the loop of `Writer::AddRecord` with `EmitPhysicalRecord`; `room` is what the file
takes of a record before a call fails, and `offset` is `block_offset_`, which moves on all
the same. `ReadPhysicalRecord` and `ReadRecords` are the reader's two loops. A checksum is
taken to be right only over the bytes of one fragment. The reader starts at offset 0, as
`RecoverLogFile` has it. A flush passes trailer, header and payload to the file at once, for
a block fits the file's buffer (`util/env_posix.cc`).

### Compaction and Iteration

`hist` is the history of writes, and an entry is its index in it. A table is the set of its
entries, so that its range and order come from the entries. Where the code compares sizes
in bytes (which level to compact, whether inputs may grow, where an output ends), both
outcomes are possible. `job` is a merge in progress: what it keeps is decided with the
oldest snapshot at its beginning; the version may change under it by a flush. The two
loops that take in tables until nothing changes, of `GetOverlappingInputs` in level 0 and of
`AddBoundaryInputs`, are the least sets closed under what one round adds
(`FindSmallestBoundaryFile` is such a round), which is what they compute. In
level 0 the range that grows is covered by the tables taken and the range asked for, for each
table taken touches what was there: a table that overlaps the one overlaps one of the others.

`SplitKeys` are the keys of which an output table may end between two entries. The code ends
an output behind any entry once the file is large enough (`db_impl.cc:989`), so that
`SplitKeys = Keys` is what it may do; fewer are an assumption about the values and the places
of the cuts. `DeletedKeys` are keys that clients delete. Deletions are read right under the
assumption that the two are disjoint, as in `compaction`: a deleted key whose entries are split
over tables is the finding of `compaction_deletion`. `MostKeysReadHistory` is proved for
`SplitKeys = Keys` too, and says then that keys without deletions are read right.

`CompactRange` waits for each of its merges, and the code frees `manual_compaction_` after
each of them (`db_impl.cc:765`), when the background thread may have been scheduled again
(`db_impl.cc:684`): `PickCompaction` may start a merge of its own between two of its steps.

`Iteration` adds an iterator to that store: its steps are `IterStep`, and `StoreStep` is any
step of `Compaction`. A round of a loop of `DBIter` is a step, since the memtable grows
between two of them (`Write` inserts with the mutex released). `iter.children` is what the
merging iterator reads: references that no compaction takes away, of which the memtable
alone grows, until it is switched (`growing`). `iter.m` is where `MergingIterator` has each child and its
direction; `skip` and `saved` are the two uses of `saved_key_`.

| Model | Code |
|---|---|
| `First`, `Final`, `After`, `Before`, `SeekIn` | the five moves of a child, those of the skip list; an iterator of a table does the same |
| `MergeFirst`, `MergeLast`, `MergeSeek`, `MergeNext`, `MergePrev`, `Current` | `MergingIterator`, with what a change of direction does to the other children |
| `NewIterator`, `DeleteIterator` | `NewIterator` of `DBImpl`, with or without a snapshot, and the clean-up |
| `SeekToFirst`, `SeekToLast`, `IterSeek`, `IterNext`, `IterPrev` | the five calls of `DBIter`, up to the loop they go into |
| `FindNextUserEntry`, `FindPrevUserEntry`, `BeforeKey` | one round of each loop, the last that of `Prev` |

`goal` is a history variable: the entry that the call under way has to end at, taken from
`hist` when it is made. There is one iterator, because iterators do not touch the store or one another.

## 3. Runs

| Run | Bounds | What it shows |
|---|---|---|
| `roster_app` | 2 taps, 2 feeds: namesakes, a player whose place in the list changes, a nameless entry and an identifier above 32767; week never fetched (as shipped) | the safety properties of the roster over every interleaving of two adds, deletions, failing saves and crashes |
| `roster_week` | 1 tap, same feeds, week may become known, fairness | the two rows of a tap in order, both of the player tapped; every request and every pending change comes to an end |
| `roster_torn_cell` | 1 tap | finding: a row is displayed before its team is assigned |
| `table_visits` | 3 visits, lists of 0 to 2 entries, fairness | where table and list may disagree; a table on screen settles |
| `table_row_range` | the same | finding: a row beyond the end of the list is asked for |
| `depth_chart` | rosters of up to 3 rows, points 149, 150, 199, 200, 249, 250, 300 | how rankings and advice move with each added row |
| `breakout_search` | a list of 4 entries, answers with 17 points, fewer, or none | who can be reported or overlooked; the search returns |
| `team_exchange` | 1 team; a phone with 2 writes, 1 lost connection or restart and 1 refusal; a pad with 1 write; 1 observer each; fairness | what a device shows, what is sent again, what is received, agreement, answers |
| `leveldb` | 1 syncing writer, 1 that does not, 1 flusher; a full memtable after 1 batch; level-0 trigger and stop 2, trigger of deeper levels 2; 2 openings, 1 loss of power, 1 failed call; fairness; logs of up to 3 records of length 1, 4, 5 or 16 in blocks of 10 with headers of 3 | the promise of `DurableStore`, needed files, sequence numbers, writers return, logs are read back |
| `compaction` | keys 1 (deleted) and 2 (split), 4 levels, 4 writes, 1 snapshot, manual compactions of key 1, during which only snapshots of the first two writes are held; an iterator, any number of calls, while writes and snapshots are at most 3 and no merge runs | reads, levels and what an iterator shows agree with the history |
| `compaction_manual` | 3 keys, 5 writes, manual compaction of all | finding: a flush in the middle of a merge makes tables of a level overlap |
| `compaction_deletion` | 2 keys, both deleted and split, 4 writes | finding: a deletion is dropped while the value it hides stays |

Why the bounds are enough: the context tells objects apart only by their status, and the
queue is serial, so one row being built, one finished row and one swipe are the parties of
every interleaving; two taps give them. With the week known one tap already makes two
rows. Two late answers and a current one need three visits; a list that shrinks by one
needs lengths 0 to 2. The rankings distinguish one row, two rows and "several", and the
points values lie on both sides of every bar. Four entries give an answer before, at and
after the deciding one, and one that comes too late. Two writes of the phone around one of
the pad are the least for which sending the first again could undo the second, or the
pad's. With `MemCapacity` 0 every batch
but the first of a memtable switches it, so three threads make a wait for each of its two
reasons, a group of two, merges and moves of recovered and of flushed tables, and a flush with
the store closing; the second opening recovers from logs and manifests of two lives with a
record that failed to sync or was appended behind a failure. A memtable that is flushed in the
middle of a merge would take a trigger of 1 or a thread more, and ten times the states: what
holds of files and writes then is left to the theorems, which have no bounds, and what it does
to the levels to `compaction`. Four entries on two keys fill four levels with
tables that share a user key, and are the least for the first finding on deletions; the
overlap needs five. An iterator needs two keys to turn
round between, and three writes: two that it may show and one that hides one of them or is newer
than what it reads. A memtable may be switched and flushed while it
is open; merges run before that only, for what they do does not reach its references
(`IteratorsAreRight` is without this bound).

`table_visits`, `table_row_range`, `breakout_search`, `team_exchange`, `leveldb` and the
runs of `Compaction` do not check for deadlock: a trapped process stops, and so does a
system whose users and faults have used up their bounds.

### Properties

* `NothingLeftPending`: `saveToCoreData` leaves nothing behind; a pending change belongs
  to an operation in progress.
* `SavedRowWhole`: after its own save a row is stored whole, or the user deleted it, or
  the *other* thread's failed save reset it away. The last case is real: `moc.reset()` in
  `deletePlayer`'s failing save forgets the row being built, whose own save then succeeds
  with nothing to save.
* `TornRowExplained`: the only lasting torn rows are those whose builder died or was cut
  off.
* `RowIsTappedPlayer`: look-up by name and 16-bit narrowing never store another player,
  namesakes excepted. "Jones" of the feeds stands at another place in each list, so that a
  look-up in a list that was replaced is held to it, and so is his game row in `roster_week`.
* `DeleteTakesEffect`, `TableMatchesStore`, `RowsFollowUser`: the store follows the user,
  except for objects a reset made the context forget.
* `GameRowFollowsSeasonRow`: the serial queue orders the two rows of a tap.
* `AddCompletes`, `ContextCommits`: liveness of requests and of pending changes.
* `OwnAnswerShown`, `FirstVisitSafe`, `TableSettles`: the table of all players.
* `QBDepthNeverHurts`, `ThirdRowNeverCounts`, `AdviceCanBeFollowed`: the advice. Receivers
  and backs do not share the first: one back of 150 to 249 points is "Medium", two are
  "Weak".
* `ReportedHasPoints`, `MissedBreakoutExplained`, `SearchReturns`: the
  search. A player is overlooked if his answer comes after the second loop has started,
  which follows the first at once, or behind an answer without points.

* `ReadYourWrites`, `AckedNotUndone`, `Converges`, `EveryWriteAnswered`: the client's
  overlay of pending writes, its order of sending again and its held back answers.
  `NothingReceived`: `createTeam` writes its keys one level below where
  `Team.init?(snapshot:)` looks for them, so no device ever receives a team.
* `ImplementsStore`: `LevelDB` refines `DurableStore`. It relates logs, manifests, tables
  and memtables to what returned writes may rely on, behind a failed append too; among the bugs it would catch are a
  group that does not sync for one of its members, a log dropped before its table is in
  the manifest and garbage collection after an uncertain edit.
* `NeededFilesKept`: for the running store, the reader, and *every* state of the manifest
  that a crash or a loss of power at this moment may leave. From the second manifest on:
  the first one (`NewDB`) is not synced, and a loss of power may leave a store that cannot
  be opened.
* `SequencesOrdered`: sequence numbers of several lives of the store never collide.
* `WritersReturn`: nobody waits for ever for room, for a turn or for a group's leader.
* `TruncatedLogRead`, `FailedAppendRead`: what the reader makes of a log that ends anywhere,
  and of one in which the writer and the file disagree about the offset. They
  are checked of the logs of the store (`StoreLogs`), each with up to three records, those
  in it and those that may follow. `TruncatedLogRead` is why `Truncations` of `LevelDB` is all
  that a loss of power can do. `FailedAppendRead` is why a record behind a failed append is
  there or is not, whole and once and for all, as `AddRecord` of `LevelDB` has it: whether it
  is read does not change with what is appended or cut later, records of before the failure
  are read, and what is read is never mixed of two.
* `SnapshotsReadHistory`, `LevelsDisjoint`, `IteratorsReadHistory`: the drop rules of
  merges, the boundary tables, the placing of memtables, and the changes of direction of
  iterators, against the history of writes.

### Findings

* `DisplayedRowHasTeam` (`RosterTableViewController.swift:85`, `player.team!`): the main
  thread may process the insertion of a row the queue is still building.
* `RowInRange` (`AllPlayersTableViewController.swift:50`): on a second visit the table
  shows the rows of the previous list while a shorter answer replaces it.
* `LevelsDisjoint` in `compaction_manual` (`db/version_set.cc:1464`): `CompactRange` may
  merge two tables of a level with a gap between them. A memtable that is flushed during
  the merge (`db/db_impl.cc:912`) overlaps neither and goes down to the level the merge writes
  to, where the output of the merge, which spans the gap, comes to overlap it. The assertion at
  `db/version_set.cc:748` says it must not.
* `SnapshotsReadHistory` in `compaction_deletion` (`db/version_set.cc:1410`): the deletion
  of a key ends a table of level 2 and the deleted value begins the next one. A compaction
  of level 1 takes in the first of the two only, since boundary tables are looked for in its
  own level alone; the deletion is dropped, because no *deeper* level holds the key, and
  the deleted value is read again. The comment at `db/db_impl.cc:952-958` takes it for
  granted that such a value is part of the merge.

### Fairness

Weak fairness on the handlers of tasks (URLSession ends each task, at the latest with a
time-out), on the assignments and context steps of a thread that has started (code runs
on; the caller of the search too), and in the table on layout and on the main queue's blocks (the main run loop turns).
The user, the feed, the run loop's processing of changes in the roster and crashes carry
no fairness. In `TeamExchange` a reconnection is always scheduled and some attempt succeeds,
and both ends read what they are sent. In `LevelDB` a thread inside `Write` and the
background thread are scheduled by the system, each by weak fairness, as is the call of
`LogAndApply` one of them is in; opening, closing, crashes and faults are not.

## 4. Proofs

The theorems hold for any number of taps, any feeds, any number of visits, any points and any length of the lists.

* `RosterProofs`. The properties are not inductive by themselves: that a saved row is
  whole depends on who builds it and on what the context knows. `IInv` adds
  `FreshInv` (a task without an answer has left no trace), `ThreadInv` (what a busy
  thread works on, and that the queue saves whole rows only), `StatusInv` (what each
  status says of the store, the threads and the user) and `ShownInv`. One lemma per
  action shows that it preserves `IInv`. From it follow `TypeCorrect`,
  `NoStrandedChange`, `SavedRowsAreWhole`, `DeletesTakeEffect` and, with
  `OnlySavesWrite`, the action property of `RowsFollowTheUser`. A second invariant, `RowInv`,
  is inductive relative to the first: what is matched by name when a tap is answered
  (`MatchInv`) and what a row's identifier comes from (`SourceInv`) give
  `RowsAreTappedPlayers`; who may leave a row half stored (`TornInv`) gives
  `TornRowsExplained`; the order of the two requests of a tap (`OrderInv`) gives
  `GameRowsFollow`; and what the table is told and when (`TableInv`) gives
  `TableMatchesTheStore`.
* `AllPlayersTableProofs`. `TypeCorrect` (with `Called`: a request that is answered was made),
  `StaleRowsExplained` and `FirstVisitIsSafe`, from an invariant
  that ties the rows of the table on screen to the author of the list and to the queue
  of reload blocks.
* `DepthChartProofs`. `TypeCorrect`, `QBDepthNeverHurtsAlways`,
  `ThirdRowNeverCountsAlways` and `AdviceCanBeFollowedAlways`. The deciding row is the least
  position with a row; appending keeps it (`DeciderAppend`), and a row that is fetched first
  decides, with the others behind it to make it several (`FirstDecides`). That the latter
  settles the position rests on a weak position having rows (`WeakFlex`).

* `BreakoutSearchProofs`. `TypeCorrect` (with `AnsweredOnce`), `ReportedPlayerHasPoints`, `MissesExplained`.
  The invariant says that the copy the second loop took remains a beginning of the array
  (`ScanIsPrefix`) and what has been found in it (`ResultInv`).

* `TeamExchangeProofs`. `AckedWritesStand`, for any number of devices, teams, writes, lost
  connections, restarts and refusals. That the server does not hold a device's write older
  than one it acknowledged does not follow from itself: it depends on what is still under
  way. The invariant, one `DeviceInv` for each device, says that the numbers of a device's
  writes rise from what it has read to what is answered and on to what is requested
  (`OrderInv`), that with a connection every outstanding put is requested or answered
  (`CoverInv`: no older write is left to be sent later), and that the server's
  tree holds what is answered, or newer (`StandInv`). `ListenInv` counts the listen of
  a connection; `OwnInv` says that a device sends writes of its own. With a sorted
  `restoreState` the puts that are sent again come in order, and that is where the proof uses
  it. `CachesHoldTrees` says that a change reaches a device only behind a whole tree
  (`CacheInv`); `TypeCorrect` needs it, for a change is applied to what the cache holds.
  `NothingIsReceived`.
  `OwnWritesAreRead` needs a further invariant, `ShowInv`, inductive relative to the first. A
  value *follows* a write if it is that write or was applied after it, and the server's tree
  follows what was applied (`HistoryInv`). `BehindInv` says that the data which come behind
  an answer follow the write it answers; `ObserversInv` that a device with observers is told of
  changes, unless its listen is on its way or was refused; `CompletionInv` that, when a
  completion runs, the cache follows the write: the tree has come right before the answer to
  the listen, the change right before the answer to the put, or the completion is held back.
  `PendingInv` says that the pending writes are those under way, newer than the acknowledged
  ones, and that each team has a newest, and `OutstandingInv` that a connection requests and
  answers only what is outstanding, nothing of an earlier launch. What is
  shown of a team is then the newest pending write, or the cache, which follows the newest
  acknowledged one.

* `LevelDBProofs`. `TypeCorrect`, `NeededFilesAreKept` and `SequencesAreOrdered`, for any
  number of threads, capacities, openings, faults and losses of power. That no needed file is
  deleted depends on which states the manifest may be found in, and so on numbers:
  `NumbersInv` says that file numbers rise (a new manifest is none that there is, a new log
  comes after all logs, an edit's log lies between those of the store), `EditInv` what the
  manifest holds of an edit under way, `BaseInv` that it has the tables of the store as long
  as nothing has failed (afterwards no file is deleted), `TablesInv` that no table is missing of what is read,
  merged, edited or may be found. `QueueInv` and `StoreInv` say who may act. `RisingInv` says that the
  file numbers and the last sequence number in a manifest never fall, are not above those of the
  store, and cover its tables, so that recovery, which takes the greatest of that number and of
  those in the logs, gives none again that is in a table. For the order of
  sequence numbers a record is `Live` if the store holds it, or would hold it opened on some
  state of the manifest, on an edit under way, or on its own version and logs; it is `Firm` if
  the running store has it in memory or in tables. `SequenceInv` says that live records are
  apart, that a firm one is at most LastSequence, and a live one too unless it is the record
  being written; `BoundInv` that recovery finds a greatest number at all. The difference of the
  two is what makes a failed sync harmless: its record stays in the log, is not seen, and its
  numbers are not given again. Every step moves records only from one of these places to
  another (`StoreMoves`), and only a group adds one (`NewIsApart`).

* `LevelDBRefinement`. `Implements`: `LevelDB`, seen through `Status`, `Visible`, `Recoverable`
  and `Safe`, is a `DurableStore`, for any number of threads, capacities, openings, faults, crashes
  and losses of power. The refinement mapping is computed from what recovery *would* find, so
  most of the argument is about files no step touches but whose meaning it might change. Above
  `IInv` of `LevelDBProofs` stands `RInv`, which TLC checked before it was proved. `SameInv` is its
  centre: whatever state of the manifest is found, an edit under way included, recovery finds
  the same records, and the running store has them too. It is inductive because the memtables and the logs
  hold the same (`MemInv`), no state that may be found starts behind a log that was deleted
  (`LogsInv`), an edit loses no record of the tables and adds those of the memtable only
  (`CoversInv`), a merge has the records of its inputs (`MergeInv`), which are still
  tables of the store when it ends, and the manifest, also one in which an error has left an edit, has the tables the next edit starts
  from (`BehindInv`).
  `FirstInv` covers the time before the first start, where nothing is there to be found.
  `OwnersInv` and `GroupInv` say whose writes a record is of: nobody reads a write that has
  neither returned nor been cut off, and the record of a group is in the log before it
  is in the memtable, unless the log is torn, and synced if its first writer asks for that.
  Unsure records (`Unsure`: all their writers returned so) are what memory may hold and a log
  not; `TornInv` says that a log is torn only if a write has failed, and results stay
  (`ResultsAreKept`). The steps are then mapped one by one: a call
  (`StepCall`), an append (`StepLog`), a sync or a table that becomes part of every state
  (`StepHarden`), an insertion (`StepPublish`), one into the memtable of a torn log (`StepPublishUnsure`), an error (`StepFail`), the end of the
  process (`StepStop`), a loss of power (`StepPowerLoss`); all others change nothing that is seen
  (`Stutters`). Opening changes nothing either: recovery finds what was promised. The theorem
  has one hypothesis, `NoMemTable`: the value for none is not a set of records. It is stated as a
  hypothesis because TLC, for which that value is a model value, cannot evaluate it. What
  `DurableStore` promises follows for the queue and the files: `SyncedWritesAreSeen`,
  `OnlyCalledWritesAreSeen` and `SafeWritesStaySafe`. Its inductive invariant (`PromiseInv`,
  which every step of `DurableStore` keeps: `PromiseKept`) adds to these
  that what is safe is visible or in limbo and that a synced write that has returned is
  safe: the first makes a crash harmless, the second a loss of power.

* `CompactionProofs`. `LevelsAreDisjoint`, `MostKeysReadHistory`, `SnapshotsAreRead` and `IteratorsAreRight`, for any keys, numbers of
  levels, writes and snapshots. `LevelsDisjoint` is not inductive, for two reasons: where the
  output of a merge comes to lie depends on what its inputs were chosen from, and a flush may
  change the levels before it is installed. The invariant `IInv`, which TLC checked on four
  instances before it was proved, has these parts. `OrderInv`: of the entries of a key, what is
  higher up is newer (memory, the tables of level 0 as they were written, then level by level).
  `SortedInv`: tables of a deeper level follow one another, and a key without long
  values is in one of them. `Holds(All)`: what a live snapshot or the present should read is in
  the store, or it is a deletion and nothing older is left. `JobInv`: of a merge under way,
  what is kept together with the rest of the store holds the same, and its `Inputs` are such
  that what stays of their keys in their level is newer (this is what `AddBoundaryInputs` is
  for), what stays in the next level lies outside of their range, and there is no gap
  between them (`Gapless`). The last keeps a memtable that is flushed meanwhile from coming to
  lie among the inputs (`FlushedInputs`): it goes below them only if it overlaps none, and then
  it lies to one side of all. `ChosenInputs` proves of every choice `PickCompaction` may make that it
  is such: what is taken is connected (`Drawn`), and complete for its keys (`Whole`).
  `OutputTables` says that a cut of the kept entries yields tables that follow
  one another, `MergeHolds` that the drop rules lose nothing that is read, `Replaced` that
  order and sorting survive the exchange of tables. One lemma for each action leads to
  `Invariant`. Reading is a second argument: the newest table of level 0 with an answer
  (`Level0Finds`), the one table that the binary search finds in a deeper level (`FileFinds`)
  and the first place with an answer (`GetFindsNewest`) give the newest entry that is there.
  There are two hypotheses, and each is needed. `NoManual`: no client calls `CompactRange`.
  No code of the repository outside LevelDB does, and `compaction_manual` shows what happens
  if one does. Ranges of a single key would not do either: what is left of a range begins where
  the last input of level 0 ends (`ManualEnd`), which may be below the key, so that the next
  merge has tables with a gap between them as its inputs (TLC finds two tables of level 1 that overlap after seven writes of
  four keys). So `compaction`, which has one range of one key in it, goes beyond the theorems where it
  is small enough. And for `SnapshotsAreRead`, no key is both deleted and long (`DeletedKeys`
  and `SplitKeys` are apart); `compaction_deletion` shows the
  need. `MostKeysReadHistory` does without it: the other keys are not harmed by one that is both.

  `IteratorsAreRight`, under the same two hypotheses, for any number of calls. What the children hold when
  the iterator is opened is what the store holds, so that the reads at `s` are among it
  (`ReadsAll`); from then on the children change only by entries written later than `s` (`GrownIsGood`),
  which every loop skips. Of the merging iterator three lemmas state what a move passes by
  (`NextMoves`, `PrevMoves`, `SeekMoves`): going forward every child is at its first entry
  behind the current one, in reverse at its last before it, but for entries that `s` does not see (`Placed`). `IterInv` then has one clause for each loop:
  `NextInv`, `BeforeInv` and `PrevInv` say that `goal` still lies ahead, and what `skip` and `saved`
  have to do with the entries passed; `RestInv` relates what is shown to where the children are, in
  reverse before all entries of the key. TLC checked `IterInv` on three keys, one
  deleted and one split, with any number of calls, before it was proved.

Assumptions: `FeedAssumption` (a feed is a list of entries with natural identifiers),
`WeekAssumption`, `VisitsAssumption`, `LengthsAssumption`, `PointsAssumption`,
`RowsAssumption`, `EntriesAssumption`, in `LevelDB` `ConstantsAssumption` (threads that write
are not those that flush, capacities and bounds are natural numbers) and `NoneAssumption` (no store,
edit, merge, group or result is the value for none), and in `TeamExchange` `BoundsAssumption` (the bounds are
natural numbers), `NoWriteAssumption` and `NoDataAssumption` (the two values are none of
those they stand for the absence of), and in `Compaction` `ConstantsAssumption` (keys are
natural numbers, deleted and split keys are keys, a memtable is placed at least one level above
the last), in `Iteration` `NoneAssumption` (the value for no entry is no number). The theorems of `LevelDBRefinement` assume `NoMemTable` as well, those of
`CompactionProofs` `NoManual`.

Only model-checked: the properties of `LogFile` (`TruncatedLogRead`, `FailedAppendRead`), whose
loops are recursive operators, reads and levels with
manual compactions, and all liveness
(`AddCompletes`, `ContextCommits`, `TableSettles`, `SearchReturns`, `Converges`,
`EveryWriteAnswered`, `WritersReturn`), which is out of the prover's reach.

## 5. Not modelled

* Labels, colours, identifiers (UUIDs) and the values of attributes: no property tells
  them apart.
* A second `RosterTableViewController`, the fetch of `PlayerGame` rows
  (`fetchedRCForGameProjection`), which nothing uses.
* Duplicates: tapping a player twice makes two rows; nothing in the code says it should
  not.
* `fetchUpcomingWeek`, which fills a field nobody reads.
* Of the Firebase client: merges, transactions, onDisconnect operations, queries,
  priorities, disk persistence (which the app does not switch on).
* Of LevelDB: the formats of tables and batches, the bits of checksums, the reader's
  initial offset, block and table caches, filters, the memory order of the skip list, `reuse_logs`, size and property
  queries, the repairer, the C interface.
* The other code below `Pods/`: nanopb's wire format and GTMSessionFetcher's upload
  sessions are reached by no operation of the app; the public headers of Firebase declare
  interfaces whose implementation is not part of the path modelled.

## 6. Plan

1. Done: `Roster`, `AllPlayersTable`, `DepthChart`, `BreakoutSearch`, with proofs;
   `TeamExchange`; `LevelDB` with `DurableStore`; `LogFile`; `Compaction`
   and `Iteration`.
2. Done: proofs of the safety properties of `Roster`, of `AckedNotUndone` and
   `ReadYourWrites`, of the invariants of `LevelDB` and of its refinement of
   `DurableStore`, and of the levels, reads and iterators of `Compaction` and `Iteration`.
3. `AppSession`: `Roster` composed with `AllPlayersTable`, so that the list the button
   looks in is the one of the visits; an abstract roster that `Roster` implements up to
   torn and cut-off rows.
