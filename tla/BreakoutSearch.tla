---------------------------- MODULE BreakoutSearch ----------------------------
(***************************************************************************)
(* calculatePotentialBreakoutPlayers: a loop requests the game statistics  *)
(* of every entry of a list, and a second loop, at once, looks through the *)
(* answers that have come in for a player of 17 points or more.            *)
(* The caller's thread runs the loops.  Answers are appended to the same   *)
(* array on URLSession's serial queue, with nothing between the two.       *)
(* fetchCurrentWeek may be answered at any time; a request made before is  *)
(* never sent.                                                             *)
(***************************************************************************)
EXTENDS Integers, Sequences

CONSTANT Entries    \* how many entries the list has

ASSUME EntriesAssumption == Entries \in Nat

Players == 1 .. Entries

\* FantasyPoints of an answer: missing, below 17, or 17 and more.
Points == {"nil", "low", "high"}

Nobody == 0      \* the empty string

VARIABLES
  currentWeek,      \* whether the controller knows the week
  pc,               \* the caller: requesting, scanning, returned or trapped
  next,             \* the entry the caller requests next
  task,             \* task[p]: the request for entry p
  appending,        \* the answer being appended, or <<>>
  playerGameStats,  \* the answers appended, in the order they came
  scan,             \* the array as the second loop took it
  result            \* the player returned, or Nobody

vars == <<currentWeek, pc, next, task, appending, playerGameStats, scan, result>>

Answers == [player : Players, points : Points]

-----------------------------------------------------------------------------
Init ==
  /\ currentWeek \in BOOLEAN
  /\ pc = "requesting"
  /\ next = 1
  /\ task = [p \in Players |-> "none"]
  /\ appending = <<>>
  /\ playerGameStats = <<>>
  /\ scan = <<>>
  /\ result = Nobody

\* MUTANT: the loop waits until the week is known.
Request_WaitsForWeek ==
  /\ pc = "requesting"
  /\ next \in Players
  /\ currentWeek
  /\ task' = [task EXCEPT ![next] = "inflight"]
  /\ next' = next + 1
  /\ UNCHANGED <<currentWeek, pc, appending, playerGameStats, scan, result>>

\* One turn of the first loop; without the week there is no request.
Request ==
  /\ pc = "requesting"
  /\ next \in Players
  /\ task' = IF currentWeek THEN [task EXCEPT ![next] = "inflight"] ELSE task
  /\ next' = next + 1
  /\ UNCHANGED <<currentWeek, pc, appending, playerGameStats, scan, result>>

\* The second loop takes the array.  Taken in the middle of an append it may be
\* the array before, or freed storage, on which the process dies.
TakeAnswers ==
  /\ pc = "requesting"
  /\ next \notin Players
  /\ scan' = playerGameStats
  /\ \/ pc' = "scanning"
     \/ appending # <<>> /\ pc' = "trapped"
  /\ UNCHANGED <<currentWeek, next, task, appending, playerGameStats, result>>

\* MUTANT: an answer without points is skipped instead of ending the search.
Deciding_SkipsNil(i) ==
  /\ i \in DOMAIN scan
  /\ scan[i].points = "high"
  /\ \A j \in 1 .. i - 1 : scan[j].points # "high"

\* The answer at which the loop returns.
Deciding(i) ==
  /\ i \in DOMAIN scan
  /\ scan[i].points # "low"
  /\ \A j \in 1 .. i - 1 : scan[j].points = "low"

\* The rest of the second loop, on a copy that no other thread sees.
Return ==
  /\ pc = "scanning"
  /\ pc' = "returned"
  /\ \/ \E i \in DOMAIN scan :
          /\ Deciding(i)
          /\ result' = IF scan[i].points = "nil" THEN Nobody ELSE scan[i].player
     \/ /\ \A i \in DOMAIN scan : ~Deciding(i)
        /\ result' = Nobody
  /\ UNCHANGED <<currentWeek, next, task, appending, playerGameStats, scan>>

-----------------------------------------------------------------------------
\* The queue: one handler at a time.

FetchCurrentWeek ==
  /\ appending = <<>>
  /\ pc # "trapped"
  /\ currentWeek' = TRUE
  /\ UNCHANGED <<pc, next, task, appending, playerGameStats, scan, result>>

\* MUTANT: a request is sent again after its answer.
StatsAnswered_Repeats(p) ==
  /\ appending = <<>>
  /\ pc # "trapped"
  /\ task[p] = "inflight"
  /\ Len(playerGameStats) < Entries
  /\ \E x \in Points : appending' = [player |-> p, points |-> x]
  /\ UNCHANGED <<currentWeek, pc, next, task, playerGameStats, scan, result>>

\* The answer is also kept in the controller's currentPlayerGameStats, which nothing
\* but this handler reads.
StatsAnswered(p) ==
  /\ appending = <<>>
  /\ pc # "trapped"
  /\ task[p] = "inflight"
  /\ task' = [task EXCEPT ![p] = "answered"]
  /\ \E x \in Points : appending' = [player |-> p, points |-> x]
  /\ UNCHANGED <<currentWeek, pc, next, playerGameStats, scan, result>>

\* MUTANT: the newest answer goes to the front.
EndAppend_Front ==
  /\ appending # <<>>
  /\ pc # "trapped"
  /\ playerGameStats' = <<appending>> \o playerGameStats
  /\ appending' = <<>>
  /\ UNCHANGED <<currentWeek, pc, next, task, scan, result>>

EndAppend ==
  /\ appending # <<>>
  /\ pc # "trapped"
  /\ playerGameStats' = Append(playerGameStats, appending)
  /\ appending' = <<>>
  /\ UNCHANGED <<currentWeek, pc, next, task, scan, result>>

StatsFail(p) ==
  /\ appending = <<>>
  /\ pc # "trapped"
  /\ task[p] = "inflight"
  /\ task' = [task EXCEPT ![p] = "failed"]
  /\ UNCHANGED <<currentWeek, pc, next, appending, playerGameStats, scan, result>>

Caller == Request \/ TakeAnswers \/ Return

Next ==
  \/ Caller
  \/ FetchCurrentWeek
  \/ \E p \in Players : StatsAnswered(p) \/ StatsFail(p)
  \/ EndAppend

\* The caller's code runs on; nothing is assumed of the answers.
Spec == Init /\ [][Next]_vars
FairSpec == Spec /\ WF_vars(Caller)

-----------------------------------------------------------------------------
(***************************************************************************)
(* Properties.                                                             *)
(***************************************************************************)

\* Every variable has its type; an entry is answered once.
TypeOK ==
  /\ currentWeek \in BOOLEAN
  /\ pc \in {"requesting", "scanning", "returned", "trapped"}
  /\ next \in 1 .. Entries + 1
  /\ task \in [Players -> {"none", "inflight", "answered", "failed"}]
  /\ appending \in Answers \cup {<<>>}
  /\ playerGameStats \in Seq(Answers)
  /\ \A i, j \in DOMAIN playerGameStats :
       playerGameStats[i].player = playerGameStats[j].player => i = j
  /\ scan \in Seq(Answers)
  /\ result \in Players \cup {Nobody}

\* A player is reported only on an answer of 17 points or more that stands in the
\* array, and every answer before it has points, too few.
ReportedHasPoints ==
  result # Nobody =>
    \E i \in DOMAIN playerGameStats :
      /\ playerGameStats[i] = [player |-> result, points |-> "high"]
      /\ \A j \in 1 .. i - 1 : playerGameStats[j].points = "low"

\* A search that reports nobody has overlooked a player of 17 points only because
\* his answer came after the second loop had started, or behind an answer without
\* points.
MissedBreakoutExplained ==
  pc = "returned" /\ result = Nobody =>
    \A i \in DOMAIN playerGameStats :
      playerGameStats[i].points = "high" =>
        i > Len(scan) \/ \E j \in 1 .. i - 1 : playerGameStats[j].points = "nil"

\* The search returns whatever happens to the requests.
SearchReturns == <>(pc \in {"returned", "trapped"})
=============================================================================
