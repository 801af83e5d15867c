------------------------------- MODULE Roster -------------------------------
(***************************************************************************)
(* Adding and deleting roster rows: the path from the "add" button of the  *)
(* players table to the Core Data store and the roster table.              *)
(*                                                                         *)
(* Two threads share one NSManagedObjectContext, the container's           *)
(* viewContext:                                                            *)
(*   "queue"  URLSession's serial delegate queue.  A task's completion     *)
(*            handler runs here, and createPlayer inserts, fills and saves *)
(*            from it.                                                     *)
(*   "main"   the main thread, where a row is swiped away (deletePlayer).  *)
(* Neither hops to the context's queue with perform, so the model lets     *)
(* every context call of one thread fall between any two calls of the      *)
(* other.                                                                  *)
(***************************************************************************)
EXTENDS Integers, Sequences

CONSTANTS
  Taps,         \* the presses of an "add" button in one behaviour
  Feeds,        \* the lists FantasyPlayers may answer with: sequences of entries
  NoName,       \* the Name of an entry whose Name is null
  WeekFetched   \* whether a caller ever runs fetchCurrentWeek (none does in the app)

Range(f) == {f[i] : i \in DOMAIN f}

Entries == UNION {Range(f) : f \in Feeds}

ASSUME FeedAssumption ==
  \A f \in Feeds : /\ DOMAIN f = 1 .. Len(f)
                   /\ Len(f) \in Nat
                   /\ \A i \in DOMAIN f : f[i].PlayerID \in Nat

ASSUME WeekAssumption == WeekFetched \in BOOLEAN

Int16Max == 32767

\* The assignments of the convenience initialisers, in order.
PlayerAttributes ==
  <<"name", "fantasyPoints", "position", "season", "identifier", "team", "playerID">>
GameAttributes ==
  <<"name", "fantasyPoints", "position", "activated", "identifier", "team",
    "opponent", "number", "homeAway", "playerID">>

\* A managed object is the row of one entity that one tap creates.
Objects == {"Player", "PlayerGame"} \X Taps
Whole(o) == IF o[1] = "Player" THEN Len(PlayerAttributes) ELSE Len(GameAttributes)
TeamAt == CHOOSE i \in 1 .. Len(PlayerAttributes) : PlayerAttributes[i] = "team"

NotStored == -1
NoPlayer == 0
Threads == {"main", "queue"}

VARIABLES
  allFantasyPlayers,    \* the controller's list of entries
  cells,                \* the entries captured by the cells on screen
  currentWeek,          \* whether the controller's currentWeek is set
  projectedSeasonStats, \* PlayerID of the controller's last season projection
  projectedGameStats,   \* PlayerID of the controller's last game projection
  tapped,               \* tapped[t]: the entry the closure of tap t captured
  wanted,               \* wanted[t]: the PlayerID its season projection is asked for
  task,                 \* task[o]: the data task whose answer creates o
  pc,                   \* pc[th]: where thread th is in the context operation it runs
  working,              \* working[th]: the object that operation is about
  status,               \* status[o]: what the context knows of o
  filled,               \* filled[o]: how many attributes of o are assigned in memory
  rowID,                \* rowID[o]: the playerID o is built from
  store,                \* store[o]: how many attributes of o the store holds
  shown,                \* the Player rows the fetched results controller lists
  asked,                \* history: the rows the user swiped away
  reported,             \* history: the objects whose own save returned without error
  cutOff                \* history: the objects a reset forgot while they were built

feedVars == <<allFantasyPlayers, cells, currentWeek>>
statVars == <<projectedSeasonStats, projectedGameStats>>
taskVars == <<tapped, wanted, task>>
threadVars == <<pc, working>>
contextVars == <<status, filled, rowID, store, shown>>
historyVars == <<asked, reported, cutOff>>
vars == <<feedVars, statVars, taskVars, threadVars, contextVars, historyVars>>

-----------------------------------------------------------------------------
Init ==
  /\ allFantasyPlayers = <<>>
  /\ cells = {}
  /\ currentWeek = FALSE
  /\ projectedSeasonStats = NoPlayer
  /\ projectedGameStats = NoPlayer
  /\ tapped = [t \in Taps |-> <<>>]
  /\ wanted = [t \in Taps |-> NoPlayer]
  /\ task = [o \in Objects |-> "none"]
  /\ pc = [th \in Threads |-> "idle"]
  /\ working = [th \in Threads |-> <<>>]
  /\ status = [o \in Objects |-> "absent"]
  /\ filled = [o \in Objects |-> 0]
  /\ rowID = [o \in Objects |-> NoPlayer]
  /\ store = [o \in Objects |-> NotStored]
  /\ shown = {}
  /\ asked = {}
  /\ reported = {}
  /\ cutOff = {}

\* fetchAllPlayers' completion handler replaces the list whole.
ReceiveFeed ==
  /\ pc["queue"] = "idle"
  /\ allFantasyPlayers' \in Feeds
  /\ UNCHANGED <<cells, currentWeek, statVars, taskVars, threadVars, contextVars, historyVars>>

\* Cells are configured from the list as it is; each captures its entry.
ShowCells ==
  /\ pc["main"] = "idle"
  /\ cells' = Range(allFantasyPlayers)
  /\ UNCHANGED <<allFantasyPlayers, currentWeek, statVars, taskVars, threadVars,
                 contextVars, historyVars>>

FetchCurrentWeek ==
  /\ WeekFetched
  /\ pc["queue"] = "idle"
  /\ currentWeek' = TRUE
  /\ UNCHANGED <<allFantasyPlayers, cells, statVars, taskVars, threadVars,
                 contextVars, historyVars>>

\* allFantasyPlayers.filter{$0.Name == playerName}.first, as a position.
FirstMatch(name, i) ==
  /\ i \in DOMAIN allFantasyPlayers
  /\ allFantasyPlayers[i].Name = name
  /\ \A j \in DOMAIN allFantasyPlayers : allFantasyPlayers[j].Name = name => i <= j

\* MUTANT: the list is asked for the player at the place the cell had.
Tap_ByPosition(t, e) ==
  /\ pc["main"] = "idle"
  /\ task[<<"Player", t>>] = "none"
  /\ e \in cells
  /\ e.Name # NoName
  /\ \E i \in DOMAIN allFantasyPlayers, f \in Feeds :
       /\ i \in DOMAIN f /\ f[i] = e
       /\ wanted' = [wanted EXCEPT ![t] = allFantasyPlayers[i].PlayerID]
  /\ tapped' = [tapped EXCEPT ![t] = e]
  /\ task' = [task EXCEPT ![<<"Player", t>>] = "inflight"]
  /\ UNCHANGED <<feedVars, statVars, threadVars, contextVars, historyVars>>

\* The button of a cell: the season projection is requested by the entry's NAME,
\* looked up in the list of the moment.  Without a name, or without a match, the
\* tap changes nothing.
Tap(t, e) ==
  /\ pc["main"] = "idle"
  /\ task[<<"Player", t>>] = "none"
  /\ e \in cells
  /\ e.Name # NoName
  /\ \E i \in DOMAIN allFantasyPlayers :
       /\ FirstMatch(e.Name, i)
       /\ wanted' = [wanted EXCEPT ![t] = allFantasyPlayers[i].PlayerID]
  /\ tapped' = [tapped EXCEPT ![t] = e]
  /\ task' = [task EXCEPT ![<<"Player", t>>] = "inflight"]
  /\ UNCHANGED <<feedVars, statVars, threadVars, contextVars, historyVars>>

-----------------------------------------------------------------------------
\* The context, as this code uses it.

\* A change the context holds and the store does not have.
Pending(o) ==
  \/ status[o] \in {"inserted", "deleted"}
  \/ status[o] = "persistent" /\ filled[o] # store[o]

\* MUTANT: the table does not follow deletions.
Refreshed_KeepsDeleted ==
  shown \cup {o \in Objects : o[1] = "Player" /\ status[o] \in {"inserted", "deleted"}}

\* What the fetched results controller lists once pending changes are processed.
Refreshed ==
  (shown \cup {o \in Objects : o[1] = "Player" /\ status[o] = "inserted"})
    \ {o \in Objects : status[o] = "deleted"}

\* MUTANT: a save commits insertions and deletions but not later edits.
Committed_NoEdits(o) ==
  IF status[o] = "inserted" THEN filled[o]
  ELSE IF status[o] = "deleted" THEN NotStored
  ELSE store[o]

\* One save commits every pending change of the context, whichever thread made it.
Committed(o) ==
  IF status[o] \in {"inserted", "persistent"} THEN filled[o]
  ELSE IF status[o] = "deleted" THEN NotStored
  ELSE store[o]

\* MUTANT: a deleted object stays registered and is written back by the next save.
AfterSave_Revives(o) == IF status[o] \in {"inserted", "deleted"} THEN "persistent" ELSE status[o]

AfterSave(o) ==
  IF status[o] = "inserted" THEN "persistent"
  ELSE IF status[o] = "deleted" THEN "gone"
  ELSE status[o]

\* A thread returns from saveToCoreData.
Return(th) ==
  /\ pc' = [pc EXCEPT ![th] = "idle"]
  /\ working' = [working EXCEPT ![th] = <<>>]

SaveSucceeds(th) ==
  /\ pc[th] = "save"
  /\ shown' = Refreshed
  /\ store' = [o \in Objects |-> Committed(o)]
  /\ status' = [o \in Objects |-> AfterSave(o)]
  /\ reported' = IF th = "queue" THEN reported \cup {working[th]} ELSE reported
  /\ Return(th)
  /\ UNCHANGED <<feedVars, statVars, taskVars, filled, rowID, asked, cutOff>>

\* MUTANT: the catch clause logs the error and does not reset.
SaveFails_KeepsChanges(th) ==
  /\ pc[th] = "save"
  /\ shown' = Refreshed
  /\ Return(th)
  /\ UNCHANGED <<feedVars, statVars, taskVars, status, filled, rowID, store, historyVars>>

\* A failing save still processes pending changes, so the table follows them.
SaveFails(th) ==
  /\ pc[th] = "save"
  /\ shown' = Refreshed
  /\ pc' = [pc EXCEPT ![th] = "reset"]
  /\ UNCHANGED <<feedVars, statVars, taskVars, working, status, filled, rowID, store,
                 historyVars>>

\* moc.reset() forgets every object the context knows, also those of the other
\* thread.  Nobody runs performFetch again, so the table keeps its stale rows.
ResetContext(th) ==
  /\ pc[th] = "reset"
  /\ status' = [o \in Objects |->
                  IF status[o] \in {"inserted", "persistent", "deleted"}
                    THEN "discarded" ELSE status[o]]
  /\ cutOff' = IF pc["queue"] = "idle" THEN cutOff ELSE cutOff \cup {working["queue"]}
  /\ Return(th)
  /\ UNCHANGED <<feedVars, statVars, taskVars, filled, rowID, store, shown, asked, reported>>

\* The run loop of the main thread processes whatever is pending.
ProcessPendingChanges ==
  /\ pc["main"] = "idle"
  /\ Refreshed # shown
  /\ shown' = Refreshed
  /\ UNCHANGED <<feedVars, statVars, taskVars, threadVars, status, filled, rowID, store,
                 historyVars>>

-----------------------------------------------------------------------------
\* Completion handlers, on the queue.

\* The data task of o ends without an object to build: a transport or decoding
\* error, or (game projections) an optional field that is nil.
TaskFails(o) ==
  /\ pc["queue"] = "idle"
  /\ task[o] = "inflight"
  /\ task' = [task EXCEPT ![o] = "failed"]
  /\ UNCHANGED <<feedVars, statVars, tapped, wanted, threadVars, contextVars, historyVars>>

\* A projection arrives whose answer is not stored, only kept in the controller.
GameIncomplete(t) ==
  /\ pc["queue"] = "idle"
  /\ task[<<"PlayerGame", t>>] = "inflight"
  /\ projectedGameStats' = tapped[t].PlayerID
  /\ task' = [task EXCEPT ![<<"PlayerGame", t>>] = "failed"]
  /\ UNCHANGED <<feedVars, projectedSeasonStats, tapped, wanted, threadVars, contextVars,
                 historyVars>>

\* self.init(context:) inserts a blank object; its attributes follow one by one.
Insert(o, id) ==
  /\ id <= Int16Max
  /\ status' = [status EXCEPT ![o] = "inserted"]
  /\ filled' = [filled EXCEPT ![o] = 0]
  /\ rowID' = [rowID EXCEPT ![o] = id]
  /\ pc' = [pc EXCEPT !["queue"] = "assign"]
  /\ working' = [working EXCEPT !["queue"] = o]
  /\ UNCHANGED <<feedVars, tapped, wanted, store, shown, historyVars>>

\* The season projection: keep it, ask for the game projection if the week is
\* known, then start building the Player row.
SeasonAnswered(t) ==
  /\ pc["queue"] = "idle"
  /\ task[<<"Player", t>>] = "inflight"
  /\ projectedSeasonStats' = wanted[t]
  /\ task' = [task EXCEPT ![<<"Player", t>>] = "done",
                          ![<<"PlayerGame", t>>] = IF currentWeek THEN "inflight" ELSE @]
  /\ Insert(<<"Player", t>>, wanted[t])
  /\ UNCHANGED projectedGameStats

\* MUTANT: the game projection is answered on a concurrent queue.
GameAnswered_Concurrent(t) ==
  /\ task[<<"PlayerGame", t>>] = "inflight"
  /\ projectedGameStats' = tapped[t].PlayerID
  /\ task' = [task EXCEPT ![<<"PlayerGame", t>>] = "done"]
  /\ Insert(<<"PlayerGame", t>>, tapped[t].PlayerID)
  /\ UNCHANGED projectedSeasonStats

\* MUTANT: the game projection is built from the previous one of the controller.
GameAnswered_Stale(t) ==
  /\ pc["queue"] = "idle"
  /\ task[<<"PlayerGame", t>>] = "inflight"
  /\ projectedGameStats' = tapped[t].PlayerID
  /\ task' = [task EXCEPT ![<<"PlayerGame", t>>] = "done"]
  /\ Insert(<<"PlayerGame", t>>, projectedGameStats)
  /\ UNCHANGED projectedSeasonStats

GameAnswered(t) ==
  /\ pc["queue"] = "idle"
  /\ task[<<"PlayerGame", t>>] = "inflight"
  /\ projectedGameStats' = tapped[t].PlayerID
  /\ task' = [task EXCEPT ![<<"PlayerGame", t>>] = "done"]
  /\ Insert(<<"PlayerGame", t>>, tapped[t].PlayerID)
  /\ UNCHANGED projectedSeasonStats

\* MUTANT: the row is saved before its last attribute is assigned.
AssignAttribute_SavesEarly ==
  LET o == working["queue"] IN
  /\ pc["queue"] = "assign"
  /\ filled' = [filled EXCEPT ![o] = @ + 1]
  /\ pc' = IF filled[o] + 2 = Whole(o) THEN [pc EXCEPT !["queue"] = "save"] ELSE pc
  /\ UNCHANGED <<feedVars, statVars, taskVars, working, status, rowID, store, shown,
                 historyVars>>

\* MUTANT: saveToCoreData is not called after the last attribute.
AssignAttribute_NeverSaves ==
  LET o == working["queue"] IN
  /\ pc["queue"] = "assign"
  /\ filled[o] < Whole(o)
  /\ filled' = [filled EXCEPT ![o] = @ + 1]
  /\ UNCHANGED <<feedVars, statVars, taskVars, threadVars, status, rowID, store, shown,
                 historyVars>>

\* MUTANT: an attribute too many.
AssignAttribute_RunsOn ==
  LET o == working["queue"] IN
  /\ pc["queue"] = "assign"
  /\ filled' = [filled EXCEPT ![o] = @ + 1]
  /\ pc' = IF filled[o] = Whole(o) THEN [pc EXCEPT !["queue"] = "save"] ELSE pc
  /\ UNCHANGED <<feedVars, statVars, taskVars, working, status, rowID, store, shown,
                 historyVars>>

\* One assignment of the initialiser; after the last, saveToCoreData is called.
AssignAttribute ==
  LET o == working["queue"] IN
  /\ pc["queue"] = "assign"
  /\ filled' = [filled EXCEPT ![o] = @ + 1]
  /\ pc' = IF filled[o] + 1 = Whole(o) THEN [pc EXCEPT !["queue"] = "save"] ELSE pc
  /\ UNCHANGED <<feedVars, statVars, taskVars, working, status, rowID, store, shown,
                 historyVars>>

-----------------------------------------------------------------------------
\* MUTANT: deletePlayer does not save.
DeletePlayer_Unsaved(o) ==
  /\ pc["main"] = "idle"
  /\ o \in shown
  /\ status' = [status EXCEPT ![o] = IF @ \in {"inserted", "persistent"} THEN "deleted" ELSE @]
  /\ asked' = asked \cup {o}
  /\ UNCHANGED <<feedVars, statVars, taskVars, threadVars, filled, rowID, store, shown,
                 reported, cutOff>>

\* Swipe to delete, on the main thread.  Deleting a forgotten object does nothing.
DeletePlayer(o) ==
  /\ pc["main"] = "idle"
  /\ o \in shown
  /\ status' = [status EXCEPT ![o] = IF @ \in {"inserted", "persistent"} THEN "deleted" ELSE @]
  /\ asked' = asked \cup {o}
  /\ pc' = [pc EXCEPT !["main"] = "save"]
  /\ working' = [working EXCEPT !["main"] = o]
  /\ UNCHANGED <<feedVars, statVars, taskVars, filled, rowID, store, shown, reported, cutOff>>

Stored(o) == store[o] # NotStored

\* The process dies, at any moment, and is started again: only the store survives.
\* The roster fetches the Player rows; nothing fetches the PlayerGame rows.
Relaunch ==
  /\ allFantasyPlayers' = <<>>
  /\ cells' = {}
  /\ currentWeek' = FALSE
  /\ projectedSeasonStats' = NoPlayer
  /\ projectedGameStats' = NoPlayer
  /\ task' = [o \in Objects |->
                IF task[o] = "inflight" \/ working["queue"] = o THEN "lost" ELSE task[o]]
  /\ pc' = [th \in Threads |-> "idle"]
  /\ working' = [th \in Threads |-> <<>>]
  /\ status' = [o \in Objects |->
                  IF o[1] = "Player" /\ Stored(o) THEN "persistent" ELSE "absent"]
  /\ filled' = [o \in Objects |-> IF Stored(o) THEN store[o] ELSE 0]
  /\ shown' = {o \in Objects : o[1] = "Player" /\ Stored(o)}
  /\ asked' = {o \in asked : ~Stored(o)}
  /\ UNCHANGED <<tapped, wanted, rowID, store, reported, cutOff>>

\* Int16(apiPlayerId) traps on a wider value and the process dies in the handler.
ConversionTraps(o) ==
  /\ pc["queue"] = "idle"
  /\ task[o] = "inflight"
  /\ (IF o[1] = "Player" THEN wanted[o[2]] ELSE tapped[o[2]].PlayerID) > Int16Max
  /\ Relaunch

-----------------------------------------------------------------------------
ContextStep(th) == SaveSucceeds(th) \/ SaveFails(th) \/ ResetContext(th)

TaskEnds(o) ==
  \/ TaskFails(o)
  \/ o[1] = "Player" /\ SeasonAnswered(o[2])
  \/ o[1] = "PlayerGame" /\ (GameIncomplete(o[2]) \/ GameAnswered(o[2]))
  \/ ConversionTraps(o)

Next ==
  \/ ReceiveFeed
  \/ ShowCells
  \/ FetchCurrentWeek
  \/ \E t \in Taps, e \in Entries : Tap(t, e)
  \/ \E o \in Objects : TaskEnds(o)
  \/ AssignAttribute
  \/ \E o \in Objects : DeletePlayer(o)
  \/ \E th \in Threads : ContextStep(th)
  \/ ProcessPendingChanges
  \/ Relaunch

\* Started code runs on, and URLSession ends every task with an answer or an error
\* (its timeouts see to that).  Nothing forces the user, the feed or a crash.
Fairness ==
  /\ \A o \in Objects : WF_vars(TaskEnds(o))
  /\ WF_vars(AssignAttribute)
  /\ \A th \in Threads : WF_vars(ContextStep(th))

Spec == Init /\ [][Next]_vars
FairSpec == Spec /\ Fairness

-----------------------------------------------------------------------------
(***************************************************************************)
(* Properties.                                                             *)
(***************************************************************************)

Statuses == {"absent", "inserted", "persistent", "deleted", "gone", "discarded"}
IDs == {NoPlayer} \cup {e.PlayerID : e \in Entries}

\* Every variable has its type.  Beyond that: at most the whole of a row is
\* assigned or stored, and only the queue builds rows (createPlayer has no
\* other caller).
TypeOK ==
  /\ allFantasyPlayers \in Feeds \cup {<<>>}
  /\ cells \subseteq Entries
  /\ currentWeek \in BOOLEAN
  /\ projectedSeasonStats \in IDs
  /\ projectedGameStats \in IDs
  /\ tapped \in [Taps -> Entries \cup {<<>>}]
  /\ wanted \in [Taps -> IDs]
  /\ task \in [Objects -> {"none", "inflight", "done", "failed", "lost"}]
  /\ pc \in [Threads -> {"idle", "assign", "save", "reset"}]
  /\ pc["main"] # "assign"
  /\ working \in [Threads -> Objects \cup {<<>>}]
  /\ status \in [Objects -> Statuses]
  /\ filled \in [Objects -> Int]
  /\ \A o \in Objects : filled[o] \in 0 .. Whole(o)
  /\ rowID \in [Objects -> IDs]
  /\ store \in [Objects -> Int]
  /\ \A o \in Objects : store[o] \in NotStored .. Whole(o)
  /\ shown \subseteq Objects
  /\ asked \subseteq Objects
  /\ reported \subseteq Objects
  /\ cutOff \subseteq Objects

\* No change is stranded in the shared context: an unsaved insertion or edit
\* belongs to the row the queue is building now, an unsaved deletion to the swipe
\* the main thread is handling now (saveToCoreData saves or resets).
NothingLeftPending ==
  \A o \in Objects :
    Pending(o) =>
      \/ pc["queue"] # "idle" /\ working["queue"] = o
      \/ pc["main"] # "idle" /\ working["main"] = o /\ status[o] = "deleted"

\* When createPlayer's own save returned without error the row is in the store
\* with all its attributes, although the other thread saved the same context
\* meanwhile; unless the user deleted it, and then it is not in the store at all,
\* or the other thread's failed save reset the context while it was being built.
SavedRowWhole ==
  \A o \in reported :
    \/ store[o] = Whole(o)
    \/ o \in asked /\ ~Stored(o)
    \/ o \in cutOff

\* A row with missing attributes reaches the store only through the other
\* thread's save, and stays torn only if the queue is still building it, the
\* process died under it, or a reset cut it off.
TornRowExplained ==
  \A o \in Objects :
    store[o] \notin {NotStored, Whole(o)} =>
      \/ working["queue"] = o
      \/ task[o] = "lost"
      \/ o \in cutOff

\* The answer to the game projection is handled after createPlayer has finished
\* with the season row of the same tap, for it is the same serial queue.
GameRowFollowsSeasonRow ==
  \A t \in Taps :
    working["queue"] = <<"PlayerGame", t>> =>
      <<"Player", t>> \in reported \cup cutOff

\* A name that stands for two players, in one list or in two successive ones.
Namesake(name) ==
  \E d, e \in Entries : d.Name = name /\ e.Name = name /\ d.PlayerID # e.PlayerID

\* The row that reaches the store is that of the player tapped, although the
\* season projection is requested by name from the list of the moment and its
\* ID narrowed to 16 bits; namesakes excepted.
RowIsTappedPlayer ==
  \A o \in Objects :
    Stored(o) => \/ rowID[o] = tapped[o[2]].PlayerID
                 \/ o[1] = "Player" /\ Namesake(tapped[o[2]].Name)

\* After a swipe has been handled the row is out of the store, whichever thread
\* saved, unless a failed save had made the context forget it.
DeleteTakesEffect ==
  \A o \in asked : pc["main"] = "idle" /\ Stored(o) => status[o] = "discarded"

\* The roster table lists exactly the stored rows whenever the context holds no
\* pending change and has not been reset since launch.
TableMatchesStore ==
  (\A o \in Objects : ~Pending(o) /\ status[o] # "discarded")
    => shown = {o \in Objects : o[1] = "Player" /\ Stored(o)}

\* A step that takes a row out of the store answers a swipe, and a row swiped
\* away and gone is never stored again, not even by the thread still filling it.
FollowsUser ==
  \A o \in Objects :
    /\ Stored(o) /\ store'[o] = NotStored => o \in asked
    /\ o \in asked /\ ~Stored(o) => store'[o] = NotStored

RowsFollowUser == [][FollowsUser]_vars

\* Every request for a projection comes to an end: its row is saved without
\* error, or the request failed or was lost with the process, or a failed save
\* threw the row away.
AddCompletes ==
  \A o \in Objects :
    task[o] = "inflight" ~>
      \/ o \in reported
      \/ task[o] \in {"failed", "lost"}
      \/ o \in cutOff

\* No change stays pending for ever.
ContextCommits == \A o \in Objects : Pending(o) ~> ~Pending(o)

\* What the force unwrap player.team! of the roster cell asserts: a row that is
\* displayed has its team.
DisplayedRowHasTeam ==
  \A o \in shown : status[o] \in {"inserted", "persistent"} => filled[o] >= TeamAt
=============================================================================
