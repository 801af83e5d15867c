---------------------------- MODULE RosterProofs ----------------------------
(***************************************************************************)
(* Theorems about Roster, for any number of taps and any feed.             *)
(***************************************************************************)
EXTENDS Roster, TLAPS

Building(o) == pc["queue"] # "idle" /\ working["queue"] = o
Deleting(o) == pc["main"] # "idle" /\ working["main"] = o

\* A task without a row yet has left no trace of its object anywhere.
FreshInv ==
  \A o \in Objects :
    /\ task[o] # "none" => tapped[o[2]] \in Entries
    /\ o[1] = "Player" /\ task[o] \in {"none", "inflight"} => task[<<"PlayerGame", o[2]>>] = "none"
    /\ task[o] \in {"none", "inflight", "failed"} =>
         /\ status[o] = "absent"
         /\ store[o] = NotStored
         /\ o \notin asked
         /\ o \notin reported

\* A busy thread works on an object; the queue saves once the row is whole.
ThreadInv ==
  /\ \A th \in Threads : IF pc[th] = "idle" THEN working[th] = <<>> ELSE working[th] \in Objects
  /\ pc["queue"] # "idle" => task[working["queue"]] = "done"
  /\ pc["queue"] = "assign" => filled[working["queue"]] < Whole(working["queue"])
  /\ pc["queue"] \in {"save", "reset"} => filled[working["queue"]] = Whole(working["queue"])

\* What each status says of the store, of the two threads and of the user.
StatusInv ==
  \A o \in Objects :
    /\ status[o] = "inserted" => Building(o) /\ ~Stored(o) /\ o \notin asked
    /\ status[o] = "persistent" =>
         Stored(o) /\ o \notin asked /\ (Building(o) \/ filled[o] = store[o])
    /\ status[o] = "deleted" => Deleting(o) /\ o \in asked
    /\ status[o] = "gone" => ~Stored(o) /\ o \in asked
    /\ status[o] = "discarded" /\ Building(o) => o \in cutOff
    /\ status[o] = "absent" => ~Building(o) /\ (o \in asked => ~Stored(o))

\* The table lists Player rows the context knows, or knew before a reset.
ShownInv ==
  \A o \in shown : o[1] = "Player" /\ status[o] \notin {"absent", "gone"}

ReportedInv == SavedRowWhole /\ \A o \in reported : ~Building(o)

IInv == TypeOK /\ FreshInv /\ ThreadInv /\ StatusInv /\ ShownInv /\ ReportedInv

-----------------------------------------------------------------------------
\* An object is one of the two entities paired with a tap.
LEMMA ObjectParts ==
  /\ \A o \in Objects : o[1] \in {"Player", "PlayerGame"} /\ o[2] \in Taps
  /\ \A t \in Taps : <<"Player", t>> \in Objects /\ <<"PlayerGame", t>> \in Objects
  BY DEF Objects

\* Both initialisers assign some attributes.
LEMMA WholePositive == \A o \in Objects : Whole(o) \in Nat /\ Whole(o) > 0
  BY DEF Whole, PlayerAttributes, GameAttributes

\* The list holds entries of the feeds.
LEMMA EntriesOfList ==
  ASSUME TypeOK
  PROVE  \A i \in DOMAIN allFantasyPlayers : allFantasyPlayers[i] \in Entries
  BY DEF TypeOK, Entries, Range

\* The initial state satisfies the inductive invariant.
LEMMA InitIInv == Init => IInv
  <1> SUFFICES ASSUME Init PROVE IInv
    OBVIOUS
  <1> USE DEF Init
  <1>1. TypeOK
    <2>1. pc \in [Threads -> {"idle", "assign", "save", "reset"}] /\ pc["main"] # "assign"
      BY DEF Threads
    <2>2. /\ filled \in [Objects -> Int]
          /\ \A o \in Objects : filled[o] \in 0 .. Whole(o)
      BY WholePositive
    <2>3. /\ store \in [Objects -> Int]
          /\ \A o \in Objects : store[o] \in NotStored .. Whole(o)
      BY WholePositive DEF NotStored
    <2>4. status \in [Objects -> Statuses]
      BY DEF Statuses
    <2>5. wanted \in [Taps -> IDs] /\ rowID \in [Objects -> IDs]
      BY DEF IDs
    <2>6. projectedSeasonStats \in IDs /\ projectedGameStats \in IDs
      BY DEF IDs
    <2>7. /\ working \in [Threads -> Objects \cup {<<>>}]
          /\ tapped \in [Taps -> Entries \cup {<<>>}]
          /\ allFantasyPlayers \in Feeds \cup {<<>>}
      OBVIOUS
    <2> QED
      BY <2>1, <2>2, <2>3, <2>4, <2>6 DEF TypeOK
  <1>2. FreshInv
    BY ObjectParts DEF FreshInv
  <1>3. ThreadInv
    BY DEF ThreadInv, Threads
  <1>4. StatusInv
    BY DEF StatusInv, Building, Threads
  <1>5. ShownInv /\ ReportedInv
    BY DEF ShownInv, ReportedInv, SavedRowWhole
  <1> QED
    BY <1>1, <1>2, <1>3, <1>4, <1>5 DEF IInv

\* The inductive invariant is preserved when the list is replaced.
LEMMA ReceiveFeedStep == ASSUME IInv, ReceiveFeed PROVE IInv'
  <1> USE ObjectParts, WholePositive DEF IInv, ReceiveFeed, feedVars, statVars, taskVars,
        threadVars, contextVars, historyVars
  <1>1. TypeOK'
    BY DEF TypeOK
  <1>2. FreshInv'
    BY DEF FreshInv
  <1>3. ThreadInv'
    BY DEF ThreadInv
  <1>4. StatusInv'
    BY DEF StatusInv, Building, Deleting, Stored
  <1>5. ShownInv'
    BY DEF ShownInv
  <1>6. ReportedInv'
    BY DEF ReportedInv, SavedRowWhole, Building, Stored
  <1> QED
    BY <1>1, <1>2, <1>3, <1>4, <1>5, <1>6

\* The inductive invariant is preserved when cells are configured.
LEMMA ShowCellsStep == ASSUME IInv, ShowCells PROVE IInv'
  <1> USE ObjectParts, WholePositive DEF IInv, ShowCells, feedVars, statVars, taskVars,
        threadVars, contextVars, historyVars
  <1>1. TypeOK'
    BY EntriesOfList DEF TypeOK, Range
  <1>2. FreshInv'
    BY DEF FreshInv
  <1>3. ThreadInv'
    BY DEF ThreadInv
  <1>4. StatusInv'
    BY DEF StatusInv, Building, Deleting, Stored
  <1>5. ShownInv'
    BY DEF ShownInv
  <1>6. ReportedInv'
    BY DEF ReportedInv, SavedRowWhole, Building, Stored
  <1> QED
    BY <1>1, <1>2, <1>3, <1>4, <1>5, <1>6

\* The inductive invariant is preserved when the week is fetched.
LEMMA FetchCurrentWeekStep == ASSUME IInv, FetchCurrentWeek PROVE IInv'
  <1> USE ObjectParts, WholePositive DEF IInv, FetchCurrentWeek, feedVars, statVars,
        taskVars, threadVars, contextVars, historyVars
  <1>1. TypeOK'
    BY DEF TypeOK
  <1>2. FreshInv'
    BY DEF FreshInv
  <1>3. ThreadInv'
    BY DEF ThreadInv
  <1>4. StatusInv'
    BY DEF StatusInv, Building, Deleting, Stored
  <1>5. ShownInv'
    BY DEF ShownInv
  <1>6. ReportedInv'
    BY DEF ReportedInv, SavedRowWhole, Building, Stored
  <1> QED
    BY <1>1, <1>2, <1>3, <1>4, <1>5, <1>6

\* The inductive invariant is preserved when a tap requests a season projection.
LEMMA TapStep == ASSUME IInv, NEW t \in Taps, NEW e \in Entries, Tap(t, e) PROVE IInv'
  <1> USE ObjectParts, WholePositive DEF IInv, Tap, feedVars, statVars, taskVars,
        threadVars, contextVars, historyVars
  <1>1. TypeOK'
    <2>1. PICK i \in DOMAIN allFantasyPlayers :
            wanted' = [wanted EXCEPT ![t] = allFantasyPlayers[i].PlayerID]
      OBVIOUS
    <2>2. allFantasyPlayers[i].PlayerID \in IDs
      BY EntriesOfList DEF IDs
    <2> QED
      BY <2>1, <2>2 DEF TypeOK
  <1>2. FreshInv'
    <2> SUFFICES ASSUME NEW q \in Objects
                 PROVE  /\ task'[q] # "none" => tapped'[q[2]] \in Entries
                        /\ q[1] = "Player" /\ task'[q] \in {"none", "inflight"}
                             => task'[<<"PlayerGame", q[2]>>] = "none"
                        /\ task'[q] \in {"none", "inflight", "failed"} =>
                             /\ status[q] = "absent"
                             /\ store[q] = NotStored
                             /\ q \notin asked
                             /\ q \notin reported
      BY DEF FreshInv
    <2>1. task' = [task EXCEPT ![<<"Player", t>>] = "inflight"] /\ tapped' = [tapped EXCEPT ![t] = e]
      OBVIOUS
    <2>2. task'[q] # "none" => tapped'[q[2]] \in Entries
      <3>1. CASE q[2] = t
        BY <3>1 DEF TypeOK
      <3>2. CASE q[2] # t
        <4>1. q # <<"Player", t>>
          BY <3>2
        <4> QED
          BY <3>2, <4>1 DEF FreshInv, TypeOK
      <3> QED
        BY <3>1, <3>2
    <2>3. q[1] = "Player" /\ task'[q] \in {"none", "inflight"} => task'[<<"PlayerGame", q[2]>>] = "none"
      BY DEF FreshInv
    <2>4. task'[q] \in {"none", "inflight", "failed"} => task[q] \in {"none", "inflight", "failed"}
      BY <2>1 DEF TypeOK
    <2> QED
      BY <2>2 DEF FreshInv
  <1>3. ThreadInv'
    BY DEF ThreadInv, Threads, ShownInv
  <1>4. StatusInv'
    BY DEF StatusInv, Building, Deleting, Stored
  <1>5. ShownInv'
    BY DEF ShownInv
  <1>6. ReportedInv'
    BY DEF ReportedInv, SavedRowWhole, Building, Stored
  <1> QED
    BY <1>1, <1>2, <1>3, <1>4, <1>5, <1>6

\* The inductive invariant is preserved when a data task fails.
LEMMA TaskFailsStep == ASSUME IInv, NEW o \in Objects, TaskFails(o) PROVE IInv'
  <1> USE ObjectParts, WholePositive DEF IInv, TaskFails, feedVars, statVars, taskVars,
        threadVars, contextVars, historyVars
  <1>1. TypeOK'
    BY DEF TypeOK
  <1>2. FreshInv'
    BY DEF FreshInv, TypeOK
  <1>3. ThreadInv'
    BY DEF ThreadInv
  <1>4. StatusInv'
    BY DEF StatusInv, Building, Deleting, Stored
  <1>5. ShownInv'
    BY DEF ShownInv
  <1>6. ReportedInv'
    BY DEF ReportedInv, SavedRowWhole, Building, Stored
  <1> QED
    BY <1>1, <1>2, <1>3, <1>4, <1>5, <1>6

\* The inductive invariant is preserved when a game projection lacks a field.
LEMMA GameIncompleteStep == ASSUME IInv, NEW t \in Taps, GameIncomplete(t) PROVE IInv'
  <1> USE ObjectParts, WholePositive DEF IInv, GameIncomplete, feedVars, statVars,
        taskVars, threadVars, contextVars, historyVars
  <1>1. TypeOK'
    BY DEF TypeOK, FreshInv, IDs, Statuses
  <1>2. FreshInv'
    BY DEF FreshInv, TypeOK
  <1>3. ThreadInv'
    BY DEF ThreadInv
  <1>4. StatusInv'
    BY DEF StatusInv, Building, Deleting, Stored
  <1>5. ShownInv'
    BY DEF ShownInv
  <1>6. ReportedInv'
    BY DEF ReportedInv, SavedRowWhole, Building, Stored
  <1> QED
    BY <1>1, <1>2, <1>3, <1>4, <1>5, <1>6

\* The inductive invariant is preserved when a season projection arrives and its row is inserted.
LEMMA SeasonAnsweredStep == ASSUME IInv, NEW t \in Taps, SeasonAnswered(t) PROVE IInv'
  <1> USE ObjectParts, WholePositive DEF IInv, SeasonAnswered, Insert, feedVars,
        statVars, taskVars, threadVars, contextVars, historyVars
  <1>1. TypeOK'
    <2>1. wanted[t] \in IDs
      BY DEF TypeOK
    <2>2. /\ pc' \in [Threads -> {"idle", "assign", "save", "reset"}]
          /\ pc'["main"] # "assign"
          /\ working' \in [Threads -> Objects \cup {<<>>}]
      BY DEF TypeOK, Threads
    <2>3. /\ filled' \in [Objects -> Int]
          /\ \A q \in Objects : filled'[q] \in 0 .. Whole(q)
      BY DEF TypeOK
    <2>4. status' \in [Objects -> Statuses] /\ rowID' \in [Objects -> IDs]
      BY DEF TypeOK, Statuses
    <2>5. task' \in [Objects -> {"none", "inflight", "done", "failed", "lost"}]
      BY DEF TypeOK
    <2>6. projectedSeasonStats' \in IDs /\ projectedGameStats' \in IDs
      BY <2>1 DEF TypeOK
    <2>7. /\ allFantasyPlayers' \in Feeds \cup {<<>>} /\ cells' \subseteq Entries
          /\ currentWeek' \in BOOLEAN
          /\ tapped' \in [Taps -> Entries \cup {<<>>}] /\ wanted' \in [Taps -> IDs]
          /\ store' \in [Objects -> Int]
          /\ \A q \in Objects : store'[q] \in NotStored .. Whole(q)
          /\ shown' \subseteq Objects /\ asked' \subseteq Objects
          /\ reported' \subseteq Objects /\ cutOff' \subseteq Objects
      BY DEF TypeOK
    <2> QED
      BY <2>2, <2>3, <2>4 DEF TypeOK
  <1>2. FreshInv'
    <2>1. /\ task[<<"Player", t>>] = "inflight" /\ task[<<"PlayerGame", t>>] = "none"
          /\ tapped[t] \in Entries
      BY DEF FreshInv
    <2>2. /\ task'[<<"Player", t>>] = "done"
          /\ task'[<<"PlayerGame", t>>] \in {"none", "inflight"}
          /\ \A q \in Objects : q \notin {<<"Player", t>>, <<"PlayerGame", t>>} =>
                task'[q] = task[q] /\ status'[q] = status[q]
          /\ status'[<<"PlayerGame", t>>] = status[<<"PlayerGame", t>>]
          /\ tapped' = tapped /\ store' = store /\ asked' = asked /\ reported' = reported
      BY <2>1 DEF TypeOK
    <2>3. \A q \in Objects : q[1] = "Player" /\ q # <<"Player", t>> => q[2] # t
      BY DEF Objects
    <2> HIDE DEF SeasonAnswered, Insert
    <2>4. ASSUME NEW q \in Objects
          PROVE  /\ task'[q] # "none" => tapped'[q[2]] \in Entries
                 /\ task'[q] \in {"none", "inflight", "failed"} =>
                      /\ status'[q] = "absent"
                      /\ store'[q] = NotStored
                      /\ q \notin asked'
                      /\ q \notin reported'
      <3>1. CASE q = <<"Player", t>>
        BY <2>1, <2>2, <3>1
      <3>2. CASE q = <<"PlayerGame", t>>
        BY <2>1, <2>2, <3>2 DEF FreshInv
      <3>3. CASE q \notin {<<"Player", t>>, <<"PlayerGame", t>>}
        BY <2>2, <3>3 DEF FreshInv
      <3> QED
        BY <3>1, <3>2, <3>3
    <2>5. ASSUME NEW q \in Objects, q[1] = "Player", task'[q] \in {"none", "inflight"}
          PROVE  task'[<<"PlayerGame", q[2]>>] = "none"
      <3>1. q # <<"Player", t>> /\ q # <<"PlayerGame", t>>
        BY <2>2, <2>5
      <3>2. task[q] = task'[q] /\ task[<<"PlayerGame", q[2]>>] = "none"
        BY <2>2, <2>5 DEF FreshInv
      <3>3. <<"PlayerGame", q[2]>> \notin {<<"Player", t>>, <<"PlayerGame", t>>}
        BY <2>3, <2>5, <3>1
      <3> QED
        BY <2>2, <3>2, <3>3
    <2> QED
      BY <2>4, <2>5 DEF FreshInv
  <1>3. ThreadInv'
    BY DEF ThreadInv, TypeOK
  <1>4. StatusInv'
    <2> DEFINE o == <<"Player", t>>
    <2>1. /\ status[o] = "absent" /\ store[o] = NotStored /\ o \notin asked
          /\ pc["queue"] = "idle"
      BY DEF FreshInv
    <2>2. /\ status'[o] = "inserted" /\ Building(o)' /\ store' = store /\ asked' = asked
          /\ \A q \in Objects : q # o => status'[q] = status[q] /\ filled'[q] = filled[q]
      BY DEF Building, TypeOK, Threads
    <2>3. \A q \in Objects : Deleting(q)' = Deleting(q) /\ ~Building(q) /\ (q # o => ~Building(q)')
      BY DEF Deleting, Building, TypeOK
    <2> HIDE DEF o, SeasonAnswered, Insert
    <2> QED
      BY <2>1, <2>2, <2>3 DEF StatusInv, Stored
  <1>5. ShownInv'
    BY DEF ShownInv
  <1>6. ReportedInv'
    BY DEF ReportedInv, SavedRowWhole, Building, Stored, ThreadInv, FreshInv, TypeOK,
       NotStored, Threads
  <1> QED
    BY <1>1, <1>2, <1>3, <1>4, <1>5, <1>6

\* The inductive invariant is preserved when a game projection arrives and its row is inserted.
LEMMA GameAnsweredStep == ASSUME IInv, NEW t \in Taps, GameAnswered(t) PROVE IInv'
  <1> USE ObjectParts, WholePositive DEF IInv, GameAnswered, Insert, feedVars, statVars,
        taskVars, threadVars, contextVars, historyVars
  <1>1. TypeOK'
    <2>1. tapped[t].PlayerID \in IDs
      BY DEF FreshInv, IDs
    <2>2. /\ pc' \in [Threads -> {"idle", "assign", "save", "reset"}]
          /\ pc'["main"] # "assign"
          /\ working' \in [Threads -> Objects \cup {<<>>}]
      BY DEF TypeOK, Threads
    <2>3. /\ filled' \in [Objects -> Int]
          /\ \A q \in Objects : filled'[q] \in 0 .. Whole(q)
      <3> DEFINE o == <<"PlayerGame", t>>
      <3>1. o \in Objects /\ filled' = [filled EXCEPT ![o] = 0]
        OBVIOUS
      <3> HIDE DEF GameAnswered, Insert, o
      <3>2. \A q \in Objects : filled'[q] \in {0, filled[q]} /\ filled[q] \in 0 .. Whole(q)
        BY <3>1 DEF TypeOK
      <3>3. \A q \in Objects : 0 \in 0 .. Whole(q)
        BY WholePositive
      <3>4. filled' \in [Objects -> Int]
        BY <3>1 DEF TypeOK
      <3> QED
        BY <3>2, <3>4
    <2>4. status' \in [Objects -> Statuses] /\ rowID' \in [Objects -> IDs]
      BY <2>1 DEF TypeOK, Statuses
    <2>5. task' \in [Objects -> {"none", "inflight", "done", "failed", "lost"}]
      BY DEF TypeOK
    <2>6. projectedSeasonStats' \in IDs /\ projectedGameStats' \in IDs
      BY <2>1 DEF TypeOK
    <2>7. /\ allFantasyPlayers' \in Feeds \cup {<<>>} /\ cells' \subseteq Entries
          /\ currentWeek' \in BOOLEAN
          /\ tapped' \in [Taps -> Entries \cup {<<>>}] /\ wanted' \in [Taps -> IDs]
          /\ store' \in [Objects -> Int]
          /\ \A q \in Objects : store'[q] \in NotStored .. Whole(q)
          /\ shown' \subseteq Objects /\ asked' \subseteq Objects
          /\ reported' \subseteq Objects /\ cutOff' \subseteq Objects
      BY DEF TypeOK
    <2> QED
      BY <2>2, <2>4 DEF TypeOK
  <1>2. FreshInv'
    BY DEF FreshInv, TypeOK
  <1>3. ThreadInv'
    BY DEF ThreadInv, TypeOK, Threads, ShownInv
  <1>4. StatusInv'
    <2> DEFINE o == <<"PlayerGame", t>>
    <2>1. /\ status[o] = "absent" /\ store[o] = NotStored /\ o \notin asked
          /\ pc["queue"] = "idle"
      BY DEF FreshInv
    <2>2. /\ status'[o] = "inserted" /\ Building(o)' /\ store' = store /\ asked' = asked
          /\ \A q \in Objects : q # o => status'[q] = status[q] /\ filled'[q] = filled[q]
      BY DEF Building, TypeOK, Threads
    <2>3. \A q \in Objects : Deleting(q)' = Deleting(q) /\ ~Building(q) /\ (q # o => ~Building(q)')
      BY DEF Deleting, Building, TypeOK
    <2> HIDE DEF o, GameAnswered, Insert
    <2> QED
      BY <2>1, <2>2, <2>3 DEF StatusInv, Stored
  <1>5. ShownInv'
    BY DEF ShownInv
  <1>6. ReportedInv'
    BY DEF ReportedInv, SavedRowWhole, Building, Stored, ThreadInv, FreshInv, TypeOK,
       NotStored, Threads
  <1> QED
    BY <1>1, <1>2, <1>3, <1>4, <1>5, <1>6

\* The inductive invariant is preserved when one attribute is assigned.
LEMMA AssignAttributeStep == ASSUME IInv, AssignAttribute PROVE IInv'
  <1> USE ObjectParts, WholePositive DEF IInv, AssignAttribute, feedVars, statVars,
        taskVars, threadVars, contextVars, historyVars
  <1>1. TypeOK'
    BY DEF TypeOK, ThreadInv, Threads
  <1>2. FreshInv'
    BY DEF FreshInv
  <1>3. ThreadInv'
    BY DEF ThreadInv, TypeOK, Threads
  <1>4. StatusInv'
    BY DEF StatusInv, Building, Deleting, Stored
  <1>5. ShownInv'
    BY DEF ShownInv
  <1>6. ReportedInv'
    BY DEF ReportedInv, SavedRowWhole, Building, Stored
  <1> QED
    BY <1>1, <1>2, <1>3, <1>4, <1>5, <1>6

\* The inductive invariant is preserved when a row is swiped away.
LEMMA DeletePlayerStep == ASSUME IInv, NEW o \in Objects, DeletePlayer(o) PROVE IInv'
  <1> USE ObjectParts, WholePositive DEF IInv, DeletePlayer, feedVars, statVars,
        taskVars, threadVars, contextVars, historyVars
  <1>1. TypeOK'
    BY DEF TypeOK, Statuses, Threads
  <1>2. FreshInv'
    <2>1. task[o] \notin {"none", "inflight", "failed"}
      BY DEF FreshInv, ShownInv
    <2> QED
      BY <2>1 DEF FreshInv, TypeOK
  <1>3. ThreadInv'
    BY DEF ThreadInv, TypeOK
  <1>4. StatusInv'
    BY DEF StatusInv, Building, Deleting, Stored, TypeOK, ShownInv, Threads
  <1>5. ShownInv'
    BY DEF ShownInv
  <1>6. ReportedInv'
    BY DEF ReportedInv, SavedRowWhole, Building, Stored
  <1> QED
    BY <1>1, <1>2, <1>3, <1>4, <1>5, <1>6

\* The inductive invariant is preserved when a save commits the whole context.
LEMMA SaveSucceedsStep == ASSUME IInv, NEW th \in Threads, SaveSucceeds(th) PROVE IInv'
  <1> USE ObjectParts, WholePositive DEF IInv, SaveSucceeds, Return, feedVars, statVars,
        taskVars, threadVars, contextVars, historyVars
  <1>1. TypeOK'
    BY DEF TypeOK, ThreadInv, NotStored, Statuses, Refreshed, Committed, AfterSave
  <1>2. FreshInv'
    BY DEF FreshInv, ThreadInv, TypeOK, Committed, Stored, AfterSave, ReportedInv
  <1>3. ThreadInv'
    BY DEF ThreadInv, TypeOK
  <1>4. StatusInv'
    BY DEF StatusInv, Building, Stored, TypeOK, Committed, AfterSave, NotStored
  <1>5. ShownInv'
    BY DEF ShownInv, Refreshed, AfterSave, TypeOK
  <1>6. ReportedInv'
    <2> SUFFICES ASSUME NEW q \in reported'
                 PROVE  /\ \/ store'[q] = Whole(q)
                           \/ q \in asked' /\ ~Stored(q)'
                           \/ q \in cutOff'
                        /\ ~Building(q)'
      BY DEF ReportedInv, SavedRowWhole
    <2>0. q \in Objects /\ working[th] \in Objects
      BY DEF TypeOK, ThreadInv
    <2>1. CASE q \in reported
      <3>1. ~Building(q)'
        BY DEF ReportedInv, Building, TypeOK
      <3>2. store'[q] = Whole(q) \/ (q \in asked' /\ ~Stored(q)') \/ q \in cutOff'
        <4>1. store'[q] = Committed(q) /\ asked' = asked /\ cutOff' = cutOff
          BY <2>0
        <4>2. ~Building(q)
          BY <2>1 DEF ReportedInv
        <4> HIDE DEF SaveSucceeds, Return
        <4>3. CASE status[q] = "deleted"
          BY <2>0, <4>1, <4>3 DEF StatusInv, Stored, Committed
        <4>4. store[q] = Whole(q) \/ (q \in asked /\ ~Stored(q)) \/ q \in cutOff
          BY <2>1 DEF ReportedInv, SavedRowWhole
        <4>5. CASE status[q] \in {"inserted", "persistent"}
          <5>1. store'[q] = filled[q]
            BY <4>1, <4>5 DEF Committed
          <5>2. Stored(q) /\ q \notin asked /\ filled[q] = store[q]
            BY <2>0, <4>2, <4>5 DEF StatusInv
          <5> QED
            BY <4>1, <4>4, <5>1, <5>2
        <4>6. CASE status[q] \notin {"inserted", "persistent", "deleted"}
          <5>1. store'[q] = store[q]
            BY <4>1, <4>6 DEF Committed
          <5> QED
            BY <4>1, <4>4, <5>1 DEF Stored
        <4> QED
          BY <4>3, <4>5, <4>6
      <3> QED
        BY <3>1, <3>2
    <2>2. CASE q \notin reported
      <3>1. th = "queue" /\ q = working["queue"] /\ Building(q) /\ filled[q] = Whole(q)
        BY <2>2 DEF Building, ThreadInv
      <3>2. ~Building(q)'
        BY <3>1 DEF Building, TypeOK
      <3>3. store'[q] = Whole(q) \/ (q \in asked' /\ ~Stored(q)') \/ q \in cutOff'
        <4>1. store'[q] = Committed(q) /\ asked' = asked /\ cutOff' = cutOff
          BY <2>0
        <4> HIDE DEF SaveSucceeds, Return
        <4>2. CASE status[q] \in {"inserted", "persistent"}
          <5>1. store'[q] = filled[q]
            BY <4>1, <4>2 DEF Committed
          <5> QED
            BY <3>1, <5>1
        <4>3. CASE status[q] = "deleted"
          BY <2>0, <4>1, <4>3 DEF StatusInv, Stored, Committed
        <4>4. CASE status[q] \in {"gone", "discarded", "absent"}
          BY <2>0, <3>1, <4>1, <4>4 DEF StatusInv, Stored, Committed
        <4> QED
          BY <2>0, <4>2, <4>3, <4>4 DEF TypeOK, Statuses
      <3> QED
        BY <3>2, <3>3
    <2> QED
      BY <2>1, <2>2
  <1> QED
    BY <1>1, <1>2, <1>3, <1>4, <1>5, <1>6

\* The inductive invariant is preserved when a save fails.
LEMMA SaveFailsStep == ASSUME IInv, NEW th \in Threads, SaveFails(th) PROVE IInv'
  <1> USE ObjectParts, WholePositive DEF IInv, SaveFails, Return, feedVars, statVars,
        taskVars, threadVars, contextVars, historyVars
  <1>1. TypeOK'
    BY DEF TypeOK, Refreshed
  <1>2. FreshInv'
    BY DEF FreshInv
  <1>3. ThreadInv'
    BY DEF ThreadInv
  <1>4. StatusInv'
    BY DEF StatusInv, Building, Deleting, Stored
  <1>5. ShownInv'
    BY DEF ShownInv, Refreshed
  <1>6. ReportedInv'
    BY DEF ReportedInv, SavedRowWhole, Building, Stored
  <1> QED
    BY <1>1, <1>2, <1>3, <1>4, <1>5, <1>6

\* The inductive invariant is preserved when the context is reset.
LEMMA ResetContextStep == ASSUME IInv, NEW th \in Threads, ResetContext(th) PROVE IInv'
  <1> USE ObjectParts, WholePositive DEF IInv, ResetContext, Return, feedVars, statVars,
        taskVars, threadVars, contextVars, historyVars
  <1>1. TypeOK'
    BY DEF TypeOK, ThreadInv, Statuses, Threads
  <1>2. FreshInv'
    BY DEF FreshInv
  <1>3. ThreadInv'
    BY DEF ThreadInv, TypeOK
  <1>4. StatusInv'
    BY DEF StatusInv, Building, Stored, TypeOK
  <1>5. ShownInv'
    BY DEF ShownInv, TypeOK
  <1>6. ReportedInv'
    BY DEF ReportedInv, SavedRowWhole, Building, Stored, TypeOK
  <1> QED
    BY <1>1, <1>2, <1>3, <1>4, <1>5, <1>6

\* The inductive invariant is preserved when the run loop refreshes the table.
LEMMA ProcessPendingChangesStep == ASSUME IInv, ProcessPendingChanges PROVE IInv'
  <1> USE ObjectParts, WholePositive DEF IInv, ProcessPendingChanges, feedVars, statVars,
        taskVars, threadVars, contextVars, historyVars
  <1>1. TypeOK'
    BY DEF TypeOK, Refreshed
  <1>2. FreshInv'
    BY DEF FreshInv
  <1>3. ThreadInv'
    BY DEF ThreadInv
  <1>4. StatusInv'
    BY DEF StatusInv, Building, Deleting, Stored
  <1>5. ShownInv'
    BY DEF ShownInv, Refreshed
  <1>6. ReportedInv'
    BY DEF ReportedInv, SavedRowWhole, Building, Stored
  <1> QED
    BY <1>1, <1>2, <1>3, <1>4, <1>5, <1>6

\* The inductive invariant is preserved when the process dies and starts again.
LEMMA RelaunchStep == ASSUME IInv, Relaunch PROVE IInv'
  <1> USE ObjectParts, WholePositive DEF IInv, Relaunch, feedVars, statVars, taskVars,
        threadVars, contextVars, historyVars
  <1>1. TypeOK'
    <2>1. task' \in [Objects -> {"none", "inflight", "done", "failed", "lost"}]
      BY DEF TypeOK
    <2>2. /\ pc' \in [Threads -> {"idle", "assign", "save", "reset"}]
          /\ pc'["main"] # "assign"
          /\ working' \in [Threads -> Objects \cup {<<>>}]
      BY DEF Threads
    <2>3. status' \in [Objects -> Statuses]
      BY DEF Statuses
    <2>4. /\ filled' \in [Objects -> Int]
          /\ \A q \in Objects : filled'[q] \in 0 .. Whole(q)
      BY DEF TypeOK, Stored, NotStored
    <2>5. projectedSeasonStats' \in IDs /\ projectedGameStats' \in IDs
      BY DEF IDs
    <2>6. /\ allFantasyPlayers' \in Feeds \cup {<<>>} /\ cells' \subseteq Entries
          /\ currentWeek' \in BOOLEAN
          /\ tapped' \in [Taps -> Entries \cup {<<>>}] /\ wanted' \in [Taps -> IDs]
          /\ rowID' \in [Objects -> IDs] /\ store' \in [Objects -> Int]
          /\ \A q \in Objects : store'[q] \in NotStored .. Whole(q)
          /\ shown' \subseteq Objects /\ asked' \subseteq Objects
          /\ reported' \subseteq Objects /\ cutOff' \subseteq Objects
      BY DEF TypeOK
    <2> QED
      BY <2>2, <2>3, <2>4, <2>5 DEF TypeOK
  <1>2. FreshInv'
    <2>0. \A q \in Objects : working["queue"] = q => pc["queue"] # "idle"
      <3>1. <<>> \notin Objects
        BY DEF Objects
      <3> QED
        BY <3>1 DEF ThreadInv, Threads
    <2> QED
      BY <2>0 DEF FreshInv, ThreadInv, TypeOK, Stored
  <1>3. ThreadInv'
    BY DEF ThreadInv, Threads
  <1>4. StatusInv'
    BY DEF StatusInv, Building, Stored, Threads
  <1>5. ShownInv'
    BY DEF ShownInv
  <1>6. ReportedInv'
    BY DEF ReportedInv, SavedRowWhole, Building, Stored, Threads
  <1> QED
    BY <1>1, <1>2, <1>3, <1>4, <1>5, <1>6

\* Stuttering preserves the inductive invariant.
LEMMA StutterStep == ASSUME IInv, UNCHANGED vars PROVE IInv'
  <1> USE DEF vars, feedVars, statVars, taskVars, threadVars, contextVars, historyVars
  <1>1. TypeOK' /\ FreshInv' /\ ThreadInv' /\ ShownInv'
    BY DEF IInv, TypeOK, FreshInv, ThreadInv, ShownInv
  <1>2. StatusInv' /\ ReportedInv'
    BY DEF IInv, StatusInv, ReportedInv, SavedRowWhole, Building, Deleting, Stored
  <1> QED
    BY <1>1, <1>2 DEF IInv

\* Every action preserves it.
LEMMA NextStep == ASSUME IInv, [Next]_vars PROVE IInv'
  <1>1. CASE ReceiveFeed \/ ShowCells \/ FetchCurrentWeek
    BY <1>1, ReceiveFeedStep, ShowCellsStep, FetchCurrentWeekStep
  <1>2. ASSUME NEW t \in Taps, NEW e \in Entries, Tap(t, e) PROVE IInv'
    BY <1>2, TapStep
  <1>3. ASSUME NEW o \in Objects, TaskEnds(o) PROVE IInv'
    <2>1. CASE TaskFails(o)
      BY <2>1, TaskFailsStep
    <2>2. CASE SeasonAnswered(o[2])
      BY <2>2, ObjectParts, SeasonAnsweredStep
    <2>3. CASE GameIncomplete(o[2])
      BY <2>3, ObjectParts, GameIncompleteStep
    <2>4. CASE GameAnswered(o[2])
      BY <2>4, ObjectParts, GameAnsweredStep
    <2>5. CASE ConversionTraps(o)
      BY <2>5, RelaunchStep DEF ConversionTraps
    <2> QED
      BY <1>3, <2>1, <2>2, <2>3, <2>4, <2>5 DEF TaskEnds
  <1>4. CASE AssignAttribute
    BY <1>4, AssignAttributeStep
  <1>5. ASSUME NEW o \in Objects, DeletePlayer(o) PROVE IInv'
    BY <1>5, DeletePlayerStep
  <1>6. ASSUME NEW th \in Threads, ContextStep(th) PROVE IInv'
    BY <1>6, SaveSucceedsStep, SaveFailsStep, ResetContextStep DEF ContextStep
  <1>7. CASE ProcessPendingChanges \/ Relaunch
    BY <1>7, ProcessPendingChangesStep, RelaunchStep
  <1>8. CASE UNCHANGED vars
    BY <1>8, StutterStep
  <1> QED
    BY <1>1, <1>2, <1>3, <1>4, <1>5, <1>6, <1>7, <1>8 DEF Next

\* The inductive invariant holds in every reachable state.
LEMMA Inductive == Spec => []IInv
  BY InitIInv, NextStep, PTL DEF Spec

-----------------------------------------------------------------------------
\* The type invariant holds of any feed and any number of taps.
THEOREM TypeCorrect == Spec => []TypeOK
  <1>1. IInv => TypeOK
    BY DEF IInv
  <1> QED
    BY <1>1, Inductive, PTL

\* saveToCoreData strands no change: whatever is pending belongs to the
\* operation a thread is in the middle of.
THEOREM NoStrandedChange == Spec => []NothingLeftPending
  <1>1. IInv => NothingLeftPending
    BY DEF IInv, StatusInv, NothingLeftPending, Pending, Building, Deleting
  <1> QED
    BY <1>1, Inductive, PTL

\* A row whose own save succeeded is stored whole, whatever the main thread
\* saved, deleted or (short of a reset under it) lost meanwhile.
THEOREM SavedRowsAreWhole == Spec => []SavedRowWhole
  <1>1. IInv => SavedRowWhole
    BY DEF IInv, ReportedInv
  <1> QED
    BY <1>1, Inductive, PTL

\* A swiped row is out of the store when deletePlayer returns, unless a failed
\* save had made the context forget it.
THEOREM DeletesTakeEffect == Spec => []DeleteTakesEffect
  <1>1. ASSUME IInv, NEW o \in asked, pc["main"] = "idle", Stored(o)
        PROVE  status[o] = "discarded"
    <2>1. o \in Objects /\ status[o] \in Statuses /\ ~Deleting(o)
      BY <1>1 DEF IInv, TypeOK, Deleting
    <2> QED
      BY <1>1, <2>1 DEF IInv, StatusInv, Statuses
  <1>2. IInv => DeleteTakesEffect
    BY <1>1 DEF DeleteTakesEffect
  <1> QED
    BY <1>2, Inductive, PTL

\* Only SaveSucceeds writes the store, and it commits what StatusInv allows.
LEMMA OnlySavesWrite ==
  ASSUME IInv, Next
  PROVE  store' = store \/ \E th \in Threads : SaveSucceeds(th)
  BY DEF Next, ReceiveFeed, ShowCells, FetchCurrentWeek, Tap, TaskEnds, TaskFails,
     SeasonAnswered, GameIncomplete, GameAnswered, Insert, ConversionTraps,
     AssignAttribute, DeletePlayer, ContextStep, SaveFails, ResetContext,
     ProcessPendingChanges, Relaunch, contextVars

\* Rows leave the store only by a swipe, and do not come back after one.
THEOREM RowsFollowTheUser == Spec => RowsFollowUser
  <1>1. ASSUME IInv, Next PROVE FollowsUser
    <2> SUFFICES ASSUME NEW o \in Objects
                 PROVE  /\ Stored(o) /\ store'[o] = NotStored => o \in asked
                        /\ o \in asked /\ ~Stored(o) => store'[o] = NotStored
      BY DEF FollowsUser
    <2>1. CASE store' = store
      BY <2>1 DEF Stored
    <2>2. ASSUME NEW th \in Threads, SaveSucceeds(th)
          PROVE  store'[o] = Committed(o)
      BY <2>2 DEF SaveSucceeds
    <2>3. CASE store'[o] = Committed(o)
      <3>1. filled[o] \in 0 .. Whole(o) /\ NotStored \notin 0 .. Whole(o)
        BY <1>1, WholePositive DEF IInv, TypeOK, NotStored
      <3>2. /\ status[o] = "deleted" => o \in asked
            /\ o \in asked => status[o] \notin {"inserted", "persistent"}
        BY <1>1 DEF IInv, StatusInv
      <3> QED
        BY <2>3, <3>1, <3>2 DEF Committed, Stored
    <2> QED
      BY <1>1, <2>1, <2>2, <2>3, OnlySavesWrite
  <1>2. IInv /\ [Next]_vars => [FollowsUser]_vars
    BY <1>1
  <1> QED
    BY <1>2, Inductive, PTL DEF Spec, RowsFollowUser
-----------------------------------------------------------------------------
\* The ID the answer to an object's request is about.
SourceID(o) == IF o[1] = "Player" THEN wanted[o[2]] ELSE tapped[o[2]].PlayerID

\* A tap asks for an entry with the name of the entry tapped.
MatchInv ==
  \A t \in Taps : task[<<"Player", t>>] # "none" =>
    /\ tapped[t] \in Entries
    /\ \E d \in Entries : d.Name = tapped[t].Name /\ d.PlayerID = wanted[t]

\* A row that is built, or stored by an earlier launch, has the ID asked for.
SourceInv == \A o \in Objects : task[o] = "done" \/ Stored(o) => rowID[o] = SourceID(o)

\* A torn row is being built, or its building was cut off.
TornInv ==
  \A o \in Objects :
    store[o] \notin {NotStored, Whole(o)} => Building(o) \/ task[o] = "lost" \/ o \in cutOff

\* A game projection is requested while its season row is built, and answered later.
OrderInv ==
  \A t \in Taps :
    task[<<"PlayerGame", t>>] \in {"inflight", "done", "failed"} =>
      \/ <<"Player", t>> \in reported \cup cutOff
      \/ task[<<"PlayerGame", t>>] = "inflight" /\ Building(<<"Player", t>>)

\* The context knows every stored Player row, and the table lists those it knows.
TableInv ==
  \A o \in Objects : o[1] = "Player" =>
    /\ status[o] = "persistent" => o \in shown
    /\ status[o] = "absent" => ~Stored(o)

RowInv == MatchInv /\ SourceInv /\ TornInv /\ OrderInv /\ TableInv

\* RowInv is preserved when the list is replaced.
LEMMA ReceiveFeedRows == ASSUME IInv, RowInv, ReceiveFeed PROVE RowInv'
  <1> USE ObjectParts DEF IInv, RowInv, ReceiveFeed, feedVars, statVars, taskVars,
        threadVars, contextVars, historyVars
  <1>1. MatchInv'
    BY DEF MatchInv
  <1>2. SourceInv'
    BY DEF SourceInv, SourceID, Stored
  <1>3. TornInv'
    BY DEF TornInv, Building
  <1>4. OrderInv'
    BY DEF OrderInv, Building
  <1>5. TableInv'
    BY DEF TableInv, Stored, Refreshed
  <1> QED
    BY <1>1, <1>2, <1>3, <1>4, <1>5

\* RowInv is preserved when cells are configured.
LEMMA ShowCellsRows == ASSUME IInv, RowInv, ShowCells PROVE RowInv'
  <1> USE ObjectParts DEF IInv, RowInv, ShowCells, feedVars, statVars, taskVars,
        threadVars, contextVars, historyVars
  <1>1. MatchInv'
    BY DEF MatchInv
  <1>2. SourceInv'
    BY DEF SourceInv, SourceID, Stored
  <1>3. TornInv'
    BY DEF TornInv, Building
  <1>4. OrderInv'
    BY DEF OrderInv, Building
  <1>5. TableInv'
    BY DEF TableInv, Stored, Refreshed
  <1> QED
    BY <1>1, <1>2, <1>3, <1>4, <1>5

\* RowInv is preserved when the week is fetched.
LEMMA FetchCurrentWeekRows == ASSUME IInv, RowInv, FetchCurrentWeek PROVE RowInv'
  <1> USE ObjectParts DEF IInv, RowInv, FetchCurrentWeek, feedVars, statVars, taskVars,
        threadVars, contextVars, historyVars
  <1>1. MatchInv'
    BY DEF MatchInv
  <1>2. SourceInv'
    BY DEF SourceInv, SourceID, Stored
  <1>3. TornInv'
    BY DEF TornInv, Building
  <1>4. OrderInv'
    BY DEF OrderInv, Building
  <1>5. TableInv'
    BY DEF TableInv, Stored, Refreshed
  <1> QED
    BY <1>1, <1>2, <1>3, <1>4, <1>5

\* RowInv is preserved when a tap requests a season projection.
LEMMA TapRows == ASSUME IInv, RowInv, NEW t \in Taps, NEW e \in Entries, Tap(t, e) PROVE RowInv'
  <1> USE ObjectParts DEF IInv, RowInv, Tap, feedVars, statVars, taskVars,
        threadVars, contextVars, historyVars
  <1>1. MatchInv'
    <2>1. PICK i \in DOMAIN allFantasyPlayers :
            /\ FirstMatch(e.Name, i)
            /\ wanted' = [wanted EXCEPT ![t] = allFantasyPlayers[i].PlayerID]
      OBVIOUS
    <2>2. allFantasyPlayers[i] \in Entries /\ allFantasyPlayers[i].Name = e.Name
      BY <2>1, EntriesOfList DEF FirstMatch
    <2>3. /\ tapped' = [tapped EXCEPT ![t] = e]
          /\ task' = [task EXCEPT ![<<"Player", t>>] = "inflight"]
      OBVIOUS
    <2>4. ASSUME NEW u \in Taps, task'[<<"Player", u>>] # "none"
          PROVE  /\ tapped'[u] \in Entries
                 /\ \E d \in Entries : d.Name = tapped'[u].Name /\ d.PlayerID = wanted'[u]
      <3>1. CASE u = t
        BY <2>1, <2>2, <2>3, <3>1 DEF TypeOK
      <3>2. CASE u # t
        <4>1. task[<<"Player", u>>] # "none" /\ tapped'[u] = tapped[u] /\ wanted'[u] = wanted[u]
          BY <2>1, <2>3, <2>4, <3>2 DEF TypeOK
        <4> QED
          BY <4>1 DEF MatchInv
      <3> QED
        BY <3>1, <3>2
    <2> QED
      BY <2>4 DEF MatchInv
  <1>2. SourceInv'
    <2>1. PICK i \in DOMAIN allFantasyPlayers :
            wanted' = [wanted EXCEPT ![t] = allFantasyPlayers[i].PlayerID]
      OBVIOUS
    <2>2. ASSUME NEW q \in Objects, task'[q] = "done" \/ Stored(q)
          PROVE  rowID[q] = SourceID(q)'
      <3>1. q[2] # t
        <4>1. /\ task[<<"Player", t>>] = "none" /\ ~Stored(<<"Player", t>>)
              /\ task[<<"PlayerGame", t>>] = "none" /\ ~Stored(<<"PlayerGame", t>>)
          BY DEF FreshInv, Stored
        <4>2. task'[<<"Player", t>>] = "inflight" /\ task'[<<"PlayerGame", t>>] = "none"
          BY <4>1 DEF TypeOK
        <4>3. q[2] = t => q = <<"Player", t>> \/ q = <<"PlayerGame", t>>
          BY DEF Objects
        <4> QED
          BY <2>2, <4>1, <4>2, <4>3
      <3>2. task'[q] = task[q] /\ SourceID(q)' = SourceID(q)
        BY <2>1, <3>1 DEF TypeOK, SourceID
      <3> QED
        BY <2>2, <3>2 DEF SourceInv
    <2> QED
      BY <2>2 DEF SourceInv, Stored
  <1>3. TornInv'
    BY DEF TornInv, Building
  <1>4. OrderInv'
    BY DEF OrderInv, Building
  <1>5. TableInv'
    BY DEF TableInv, Stored, Refreshed
  <1> QED
    BY <1>1, <1>2, <1>3, <1>4, <1>5

\* RowInv is preserved when a data task fails.
LEMMA TaskFailsRows == ASSUME IInv, RowInv, NEW o \in Objects, TaskFails(o) PROVE RowInv'
  <1> USE ObjectParts DEF IInv, RowInv, TaskFails, feedVars, statVars, taskVars,
        threadVars, contextVars, historyVars
  <1>1. MatchInv'
    BY DEF MatchInv
  <1>2. SourceInv'
    BY DEF SourceInv, SourceID, Stored
  <1>3. TornInv'
    BY DEF TornInv, Building
  <1>4. OrderInv'
    BY DEF OrderInv, Building
  <1>5. TableInv'
    BY DEF TableInv, Stored, Refreshed
  <1> QED
    BY <1>1, <1>2, <1>3, <1>4, <1>5

\* RowInv is preserved when a game projection lacks a field.
LEMMA GameIncompleteRows == ASSUME IInv, RowInv, NEW t \in Taps, GameIncomplete(t) PROVE RowInv'
  <1> USE ObjectParts DEF IInv, RowInv, GameIncomplete, feedVars, statVars, taskVars,
        threadVars, contextVars, historyVars
  <1>1. MatchInv'
    BY DEF MatchInv
  <1>2. SourceInv'
    BY DEF SourceInv, SourceID, Stored
  <1>3. TornInv'
    BY DEF TornInv, Building
  <1>4. OrderInv'
    BY DEF OrderInv, Building
  <1>5. TableInv'
    BY DEF TableInv, Stored, Refreshed
  <1> QED
    BY <1>1, <1>2, <1>3, <1>4, <1>5

\* RowInv is preserved when a season projection arrives and its row is inserted.
LEMMA SeasonAnsweredRows == ASSUME IInv, RowInv, NEW t \in Taps, SeasonAnswered(t) PROVE RowInv'
  <1> USE ObjectParts DEF IInv, RowInv, SeasonAnswered, Insert, feedVars, statVars, taskVars,
        threadVars, contextVars, historyVars
  <1>1. MatchInv'
    BY DEF MatchInv, TypeOK
  <1>2. SourceInv'
    <2> DEFINE o == <<"Player", t>>
    <2>1. \A q \in Objects : SourceID(q)' = SourceID(q) /\ Stored(q)' = Stored(q)
      BY DEF SourceID, Stored
    <2>2. rowID'[o] = SourceID(o)
      BY DEF SourceID, TypeOK
    <2>3. ASSUME NEW q \in Objects, q # o
          PROVE  rowID'[q] = rowID[q] /\ (task'[q] = "done" => task[q] = "done")
      BY <2>3 DEF TypeOK
    <2> HIDE DEF o, SeasonAnswered, Insert
    <2> QED
      BY <2>1, <2>2, <2>3 DEF SourceInv
  <1>3. TornInv'
    <2>1. \A q \in Objects : ~Building(q) /\ (task[q] = "lost" => task'[q] = "lost")
      BY DEF Building, FreshInv, TypeOK
    <2> QED
      BY <2>1 DEF TornInv
  <1>4. OrderInv'
    <2>1. Building(<<"Player", t>>)' /\ \A q \in Objects : ~Building(q)
      BY DEF Building, TypeOK, Threads
    <2>2. task[<<"PlayerGame", t>>] = "none" /\ task'[<<"PlayerGame", t>>] \in {"none", "inflight"}
      BY DEF FreshInv, TypeOK
    <2>3. \A u \in Taps : u # t => task'[<<"PlayerGame", u>>] = task[<<"PlayerGame", u>>]
      BY DEF TypeOK
    <2> HIDE DEF SeasonAnswered, Insert
    <2>4. reported' = reported /\ cutOff' = cutOff
      BY DEF SeasonAnswered, Insert
    <2> QED
      BY <2>1, <2>2, <2>3, <2>4 DEF OrderInv
  <1>5. TableInv'
    BY DEF TableInv, Stored, Refreshed
  <1> QED
    BY <1>1, <1>2, <1>3, <1>4, <1>5

\* RowInv is preserved when a game projection arrives and its row is inserted.
LEMMA GameAnsweredRows == ASSUME IInv, RowInv, NEW t \in Taps, GameAnswered(t) PROVE RowInv'
  <1> USE ObjectParts DEF IInv, RowInv, GameAnswered, Insert, feedVars, statVars, taskVars,
        threadVars, contextVars, historyVars
  <1>1. MatchInv'
    BY DEF MatchInv
  <1>2. SourceInv'
    BY DEF SourceInv, SourceID, Stored, TypeOK
  <1>3. TornInv'
    BY DEF TornInv, Building
  <1>4. OrderInv'
    BY DEF OrderInv, Building
  <1>5. TableInv'
    BY DEF TableInv, Stored, Refreshed
  <1> QED
    BY <1>1, <1>2, <1>3, <1>4, <1>5

\* RowInv is preserved when one attribute is assigned.
LEMMA AssignAttributeRows == ASSUME IInv, RowInv, AssignAttribute PROVE RowInv'
  <1> USE ObjectParts DEF IInv, RowInv, AssignAttribute, feedVars, statVars, taskVars,
        threadVars, contextVars, historyVars
  <1>1. MatchInv'
    BY DEF MatchInv
  <1>2. SourceInv'
    BY DEF SourceInv, SourceID, Stored
  <1>3. TornInv'
    BY DEF TornInv, Building
  <1>4. OrderInv'
    BY DEF OrderInv, Building
  <1>5. TableInv'
    BY DEF TableInv, Stored, Refreshed
  <1> QED
    BY <1>1, <1>2, <1>3, <1>4, <1>5

\* RowInv is preserved when a row is swiped away.
LEMMA DeletePlayerRows == ASSUME IInv, RowInv, NEW o \in Objects, DeletePlayer(o) PROVE RowInv'
  <1> USE ObjectParts DEF IInv, RowInv, DeletePlayer, feedVars, statVars, taskVars,
        threadVars, contextVars, historyVars
  <1>1. MatchInv'
    BY DEF MatchInv
  <1>2. SourceInv'
    BY DEF SourceInv, SourceID, Stored
  <1>3. TornInv'
    BY DEF TornInv, Building
  <1>4. OrderInv'
    BY DEF OrderInv, Building
  <1>5. TableInv'
    BY DEF TableInv, Stored, Refreshed
  <1> QED
    BY <1>1, <1>2, <1>3, <1>4, <1>5

\* RowInv is preserved when a save commits the whole context.
LEMMA SaveSucceedsRows == ASSUME IInv, RowInv, NEW th \in Threads, SaveSucceeds(th) PROVE RowInv'
  <1> USE ObjectParts DEF IInv, RowInv, SaveSucceeds, Return, feedVars, statVars, taskVars,
        threadVars, contextVars, historyVars
  <1>1. MatchInv'
    BY DEF MatchInv
  <1>2. SourceInv'
    <2>1. ASSUME NEW q \in Objects, Stored(q)' PROVE Stored(q) \/ task[q] = "done"
      BY <2>1 DEF Stored, Committed, StatusInv, Building, ThreadInv
    <2> QED
      BY <2>1 DEF SourceInv, SourceID
  <1>3. TornInv'
    <2>1. ASSUME NEW q \in Objects, store'[q] \notin {NotStored, Whole(q)}
          PROVE  Building(q)' \/ task[q] = "lost" \/ q \in cutOff
      <3>1. store'[q] = Committed(q)
        OBVIOUS
      <3>2. Building(q) /\ ~Building(q)' => filled[q] = Whole(q)
        BY DEF Building, ThreadInv, TypeOK
      <3> HIDE DEF SaveSucceeds
      <3>3. CASE status[q] \in {"inserted", "persistent"}
        BY <2>1, <3>1, <3>2, <3>3 DEF Committed, StatusInv, TornInv
      <3>4. CASE status[q] \notin {"inserted", "persistent", "deleted"}
        BY <2>1, <3>1, <3>2, <3>4 DEF Committed, StatusInv, TornInv, TypeOK, Statuses, Stored
      <3> QED
        BY <2>1, <3>1, <3>3, <3>4 DEF Committed
    <2> QED
      BY <2>1 DEF TornInv
  <1>4. OrderInv'
    BY DEF OrderInv, Building
  <1>5. TableInv'
    <2>1. ASSUME NEW q \in Objects, q[1] = "Player", AfterSave(q) = "persistent"
          PROVE  q \in Refreshed
      BY <2>1 DEF AfterSave, Refreshed, TableInv
    <2>2. ASSUME NEW q \in Objects, q[1] = "Player", AfterSave(q) = "absent"
          PROVE  Committed(q) = NotStored
      BY <2>2 DEF AfterSave, Committed, TableInv, Stored
    <2> QED
      BY <2>1, <2>2 DEF TableInv, Stored
  <1> QED
    BY <1>1, <1>2, <1>3, <1>4, <1>5

\* RowInv is preserved when a save fails.
LEMMA SaveFailsRows == ASSUME IInv, RowInv, NEW th \in Threads, SaveFails(th) PROVE RowInv'
  <1> USE ObjectParts DEF IInv, RowInv, SaveFails, Return, feedVars, statVars, taskVars,
        threadVars, contextVars, historyVars
  <1>1. MatchInv'
    BY DEF MatchInv
  <1>2. SourceInv'
    BY DEF SourceInv, SourceID, Stored
  <1>3. TornInv'
    BY DEF TornInv, Building
  <1>4. OrderInv'
    BY DEF OrderInv, Building
  <1>5. TableInv'
    BY DEF TableInv, Stored, Refreshed
  <1> QED
    BY <1>1, <1>2, <1>3, <1>4, <1>5

\* RowInv is preserved when the context is reset.
LEMMA ResetContextRows == ASSUME IInv, RowInv, NEW th \in Threads, ResetContext(th) PROVE RowInv'
  <1> USE ObjectParts DEF IInv, RowInv, ResetContext, Return, feedVars, statVars, taskVars,
        threadVars, contextVars, historyVars
  <1>1. MatchInv'
    BY DEF MatchInv
  <1>2. SourceInv'
    BY DEF SourceInv, SourceID, Stored
  <1>3. TornInv'
    BY DEF TornInv, Building
  <1>4. OrderInv'
    BY DEF OrderInv, Building
  <1>5. TableInv'
    BY DEF TableInv, Stored, Refreshed
  <1> QED
    BY <1>1, <1>2, <1>3, <1>4, <1>5

\* RowInv is preserved when the run loop refreshes the table.
LEMMA ProcessPendingChangesRows == ASSUME IInv, RowInv, ProcessPendingChanges PROVE RowInv'
  <1> USE ObjectParts DEF IInv, RowInv, ProcessPendingChanges, feedVars, statVars, taskVars,
        threadVars, contextVars, historyVars
  <1>1. MatchInv'
    BY DEF MatchInv
  <1>2. SourceInv'
    BY DEF SourceInv, SourceID, Stored
  <1>3. TornInv'
    BY DEF TornInv, Building
  <1>4. OrderInv'
    BY DEF OrderInv, Building
  <1>5. TableInv'
    BY DEF TableInv, Stored, Refreshed
  <1> QED
    BY <1>1, <1>2, <1>3, <1>4, <1>5

\* RowInv is preserved when the process dies and starts again.
LEMMA RelaunchRows == ASSUME IInv, RowInv, Relaunch PROVE RowInv'
  <1> USE ObjectParts DEF IInv, RowInv, Relaunch, feedVars, statVars, taskVars,
        threadVars, contextVars, historyVars
  <1>1. MatchInv'
    <2>1. \A q \in Objects : working["queue"] = q => task[q] # "none"
      <3>1. <<>> \notin Objects
        BY DEF Objects
      <3> QED
        BY <3>1 DEF ThreadInv, Threads
    <2> QED
      BY <2>1 DEF MatchInv
  <1>2. SourceInv'
    BY DEF SourceInv, SourceID, Stored
  <1>3. TornInv'
    BY DEF TornInv, Building
  <1>4. OrderInv'
    BY DEF OrderInv, Building
  <1>5. TableInv'
    BY DEF TableInv, Stored, Refreshed
  <1> QED
    BY <1>1, <1>2, <1>3, <1>4, <1>5


\* RowInv holds of the initial state, and stuttering preserves it.
LEMMA InitRows == Init => RowInv
  <1> USE ObjectParts DEF Init, Stored
  <1>1. Init => MatchInv /\ OrderInv
    <2>1. Init => task = [o \in Objects |-> "none"]
      OBVIOUS
    <2> HIDE DEF Init
    <2>2. ASSUME Init, NEW t \in Taps
          PROVE  task[<<"Player", t>>] = "none" /\ task[<<"PlayerGame", t>>] = "none"
      BY <2>1, <2>2
    <2> QED
      BY <2>2 DEF MatchInv, OrderInv
  <1>2. Init => SourceInv /\ TornInv /\ TableInv
    BY DEF SourceInv, TornInv, TableInv
  <1> QED
    BY <1>1, <1>2 DEF RowInv

\* A step that changes nothing keeps it.
LEMMA StutterRows == ASSUME RowInv, UNCHANGED vars PROVE RowInv'
  <1> USE DEF RowInv, vars, feedVars, statVars, taskVars, threadVars, contextVars, historyVars
  <1>1. MatchInv' /\ SourceInv' /\ TornInv' /\ OrderInv' /\ TableInv'
    BY DEF MatchInv, SourceInv, SourceID, TornInv, OrderInv, TableInv, Stored, Building
  <1> QED
    BY <1>1

\* Every action preserves it.
LEMMA NextRows == ASSUME IInv, RowInv, [Next]_vars PROVE RowInv'
  <1>1. CASE ReceiveFeed \/ ShowCells \/ FetchCurrentWeek
    BY <1>1, ReceiveFeedRows, ShowCellsRows, FetchCurrentWeekRows
  <1>2. ASSUME NEW t \in Taps, NEW e \in Entries, Tap(t, e) PROVE RowInv'
    BY <1>2, TapRows
  <1>3. ASSUME NEW o \in Objects, TaskEnds(o) PROVE RowInv'
    <2>1. CASE TaskFails(o)
      BY <2>1, TaskFailsRows
    <2>2. CASE SeasonAnswered(o[2])
      BY <2>2, ObjectParts, SeasonAnsweredRows
    <2>3. CASE GameIncomplete(o[2])
      BY <2>3, ObjectParts, GameIncompleteRows
    <2>4. CASE GameAnswered(o[2])
      BY <2>4, ObjectParts, GameAnsweredRows
    <2>5. CASE ConversionTraps(o)
      BY <2>5, RelaunchRows DEF ConversionTraps
    <2> QED
      BY <1>3, <2>1, <2>2, <2>3, <2>4, <2>5 DEF TaskEnds
  <1>4. CASE AssignAttribute
    BY <1>4, AssignAttributeRows
  <1>5. ASSUME NEW o \in Objects, DeletePlayer(o) PROVE RowInv'
    BY <1>5, DeletePlayerRows
  <1>6. ASSUME NEW th \in Threads, ContextStep(th) PROVE RowInv'
    BY <1>6, SaveSucceedsRows, SaveFailsRows, ResetContextRows DEF ContextStep
  <1>7. CASE ProcessPendingChanges \/ Relaunch
    BY <1>7, ProcessPendingChangesRows, RelaunchRows
  <1>8. CASE UNCHANGED vars
    BY <1>8, StutterRows
  <1> QED
    BY <1>1, <1>2, <1>3, <1>4, <1>5, <1>6, <1>7, <1>8 DEF Next

\* The two invariants hold together in every reachable state.
LEMMA InductiveRows == Spec => [](IInv /\ RowInv)
  BY InitIInv, NextStep, InitRows, NextRows, PTL DEF Spec

-----------------------------------------------------------------------------
\* A stored row has the ID of the player tapped, namesakes excepted.
THEOREM RowsAreTappedPlayers == Spec => []RowIsTappedPlayer
  <1>1. ASSUME IInv, RowInv, NEW o \in Objects, Stored(o)
        PROVE  \/ rowID[o] = tapped[o[2]].PlayerID
               \/ o[1] = "Player" /\ Namesake(tapped[o[2]].Name)
    <2>1. rowID[o] = SourceID(o)
      BY <1>1 DEF RowInv, SourceInv
    <2>2. CASE o[1] = "Player"
      <3>1. task[o] # "none" /\ o = <<"Player", o[2]>> /\ o[2] \in Taps
        <4>1. task[o] # "none"
          BY <1>1 DEF IInv, FreshInv, Stored
        <4> QED
          BY <2>2, <4>1 DEF Objects
      <3>2. tapped[o[2]] \in Entries
        BY <3>1, <1>1 DEF RowInv, MatchInv
      <3>3. PICK d \in Entries : d.Name = tapped[o[2]].Name /\ d.PlayerID = wanted[o[2]]
        BY <3>1, <1>1 DEF RowInv, MatchInv
      <3> QED
        BY <2>1, <2>2, <3>2, <3>3 DEF SourceID, Namesake
    <2>3. CASE o[1] # "Player"
      BY <2>1, <2>3 DEF SourceID
    <2> QED
      BY <2>2, <2>3
  <1>2. IInv /\ RowInv => RowIsTappedPlayer
    BY <1>1 DEF RowIsTappedPlayer
  <1> QED
    BY <1>2, InductiveRows, PTL

\* A partly written row is still being built, or lost its builder to a crash
\* or to the other thread's reset.
THEOREM TornRowsExplained == Spec => []TornRowExplained
  <1>1. IInv /\ RowInv => TornRowExplained
    BY DEF RowInv, TornInv, TornRowExplained, Building
  <1> QED
    BY <1>1, InductiveRows, PTL

\* A game row is built only after createPlayer is through with its season row.
THEOREM GameRowsFollow == Spec => []GameRowFollowsSeasonRow
  <1>1. ASSUME IInv, RowInv, NEW t \in Taps, working["queue"] = <<"PlayerGame", t>>
        PROVE  <<"Player", t>> \in reported \cup cutOff
    <2>1. pc["queue"] # "idle"
      <3>1. <<"PlayerGame", t>> # <<>>
        OBVIOUS
      <3> QED
        BY <1>1, <3>1 DEF IInv, ThreadInv, Threads
    <2>2. task[<<"PlayerGame", t>>] = "done"
      BY <1>1, <2>1 DEF IInv, ThreadInv
    <2> QED
      BY <1>1, <2>2 DEF RowInv, OrderInv
  <1>2. IInv /\ RowInv => GameRowFollowsSeasonRow
    BY <1>1 DEF GameRowFollowsSeasonRow
  <1> QED
    BY <1>2, InductiveRows, PTL

\* With nothing pending and no reset since launch, the table is the store.
THEOREM TableMatchesTheStore == Spec => []TableMatchesStore
  <1>1. ASSUME IInv, RowInv, \A o \in Objects : ~Pending(o) /\ status[o] # "discarded",
               NEW o \in Objects
        PROVE  o \in shown <=> o[1] = "Player" /\ Stored(o)
    <2>1. status[o] \in {"absent", "persistent", "gone"}
      BY <1>1 DEF IInv, TypeOK, Statuses, Pending
    <2> QED
      BY <1>1, <2>1 DEF IInv, RowInv, TableInv, ShownInv, StatusInv
  <1>2. IInv => shown \subseteq Objects
    BY DEF IInv, TypeOK
  <1>3. IInv /\ RowInv => TableMatchesStore
    BY <1>1, <1>2 DEF TableMatchesStore
  <1> QED
    BY <1>3, InductiveRows, PTL
=============================================================================
