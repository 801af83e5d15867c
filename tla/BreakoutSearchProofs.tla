------------------------- MODULE BreakoutSearchProofs -------------------------
(***************************************************************************)
(* Theorems about BreakoutSearch, for lists of any length.                 *)
(***************************************************************************)
EXTENDS BreakoutSearch, WellFoundedInduction, TLAPS

\* What is typed; TypeOK adds that an entry is answered once.
Types ==
  /\ currentWeek \in BOOLEAN
  /\ pc \in {"requesting", "scanning", "returned", "trapped"}
  /\ next \in Nat
  /\ task \in [Players -> {"none", "inflight", "answered", "failed"}]
  /\ appending \in Answers \cup {<<>>}
  /\ playerGameStats \in Seq(Answers)
  /\ scan \in Seq(Answers)

\* The copy the second loop took is a beginning of the array, and stays one.
ScanIsPrefix ==
  /\ Len(scan) <= Len(playerGameStats)
  /\ \A i \in 1 .. Len(scan) : scan[i] = playerGameStats[i]

\* What the second loop has found in its copy.
ResultInv ==
  /\ pc # "returned" => result = Nobody
  /\ result # Nobody =>
       \E i \in 1 .. Len(scan) :
         /\ scan[i] = [player |-> result, points |-> "high"]
         /\ \A j \in 1 .. i - 1 : scan[j].points = "low"
  /\ pc = "returned" /\ result = Nobody =>
       \A i \in 1 .. Len(scan) :
         scan[i].points = "high" => \E j \in 1 .. i - 1 : scan[j].points = "nil"

IInv == Types /\ ScanIsPrefix /\ ResultInv

-----------------------------------------------------------------------------
\* Every set of naturals that is not empty has a least member.
LEMMA LeastMember ==
  ASSUME NEW S \in SUBSET Nat, S # {}
  PROVE  \E m \in S : \A n \in S : m <= n
  <1>1. PICK m \in S : \A n \in S : <<n, m>> \notin OpToRel(<, Nat)
    BY WFMin, NatLessThanWellFounded, Zenon
  <1>2. \A n \in S : ~(n < m)
    BY <1>1, Zenon DEF OpToRel
  <1>3. \A n \in S : m <= n
    BY <1>2
  <1> QED
    BY <1>3

\* Where no answer decides, all of them have points, too few.
LEMMA NoneDecides ==
  ASSUME Types, \A i \in DOMAIN scan : ~Deciding(i)
  PROVE  \A i \in 1 .. Len(scan) : scan[i].points = "low"
  <1> DEFINE S == {i \in 1 .. Len(scan) : scan[i].points # "low"}
  <1> SUFFICES ASSUME S # {} PROVE FALSE
    OBVIOUS
  <1>1. S \in SUBSET Nat
    BY DEF Types
  <1>2. PICK m \in S : \A n \in S : m <= n
    BY <1>1, LeastMember
  <1>3. \A j \in 1 .. m - 1 : scan[j].points = "low"
    BY <1>2 DEF Types
  <1> QED
    BY <1>2, <1>3 DEF Deciding, Types

\* The initial state satisfies the inductive invariant.
LEMMA InitIInv == Init => IInv
  BY DEF Init, IInv, Types, ScanIsPrefix, ResultInv, Players, Nobody

\* The first loop and the failing requests touch neither array nor result.
LEMMA QuietStep ==
  ASSUME IInv, NEW p \in Players, Request \/ FetchCurrentWeek \/ StatsAnswered(p) \/ StatsFail(p)
  PROVE  IInv'
  <1>1. UNCHANGED <<playerGameStats, scan, result, pc>>
    BY DEF Request, FetchCurrentWeek, StatsAnswered, StatsFail
  <1>2. Types'
    <2>1. CASE Request
      <3>1. next \in Players /\ next' \in Nat
        BY <2>1 DEF IInv, Types, Request
      <3>2. task' = task \/ task' = [task EXCEPT ![next] = "inflight"]
        BY <2>1 DEF Request
      <3>3. task' \in [Players -> {"none", "inflight", "answered", "failed"}]
        BY <3>2 DEF IInv, Types
      <3> QED
        BY <2>1, <3>1, <3>3 DEF IInv, Types, Request
    <2>2. CASE FetchCurrentWeek
      BY <2>2 DEF IInv, Types, FetchCurrentWeek
    <2>3. CASE StatsAnswered(p)
      <3>1. PICK x \in Points : appending' = [player |-> p, points |-> x]
        BY <2>3 DEF StatsAnswered
      <3>2. appending' \in Answers
        BY <3>1 DEF Answers
      <3> QED
        BY <2>3, <3>2 DEF IInv, Types, StatsAnswered
    <2>4. CASE StatsFail(p)
      BY <2>4 DEF IInv, Types, StatsFail
    <2> QED
      BY <2>1, <2>2, <2>3, <2>4
  <1>3. ScanIsPrefix' /\ ResultInv'
    BY <1>1 DEF IInv, ScanIsPrefix, ResultInv
  <1> QED
    BY <1>2, <1>3 DEF IInv

\* Taking the array copies it.
LEMMA TakeAnswersStep == ASSUME IInv, TakeAnswers PROVE IInv'
  <1>1. Types' /\ ScanIsPrefix'
    BY DEF IInv, Types, ScanIsPrefix, TakeAnswers
  <1>2. ResultInv'
    BY DEF IInv, ResultInv, TakeAnswers
  <1> QED
    BY <1>1, <1>2 DEF IInv

\* An append leaves the positions that are there alone.
LEMMA EndAppendStep == ASSUME IInv, EndAppend PROVE IInv'
  <1>1. appending \in Answers /\ playerGameStats \in Seq(Answers) /\ scan \in Seq(Answers)
    BY DEF IInv, Types, EndAppend
  <1>2. Types' /\ ScanIsPrefix'
    BY <1>1 DEF IInv, Types, ScanIsPrefix, EndAppend
  <1>3. ResultInv'
    BY DEF IInv, ResultInv, EndAppend
  <1> QED
    BY <1>2, <1>3 DEF IInv

\* The second loop returns the deciding answer's player, or nobody.
LEMMA ReturnStep == ASSUME IInv, Return PROVE IInv'
  <1>1. scan \in Seq(Answers) /\ UNCHANGED <<scan, playerGameStats, currentWeek, task, appending>>
    BY DEF IInv, Types, Return
  <1>2. Types' /\ ScanIsPrefix'
    BY DEF IInv, Types, ScanIsPrefix, Return
  <1>3. ResultInv'
    <2>1. ASSUME NEW i \in DOMAIN scan, Deciding(i),
                 result' = IF scan[i].points = "nil" THEN Nobody ELSE scan[i].player
          PROVE  ResultInv'
      <3>1. i \in 1 .. Len(scan) /\ scan[i] \in Answers
        BY <1>1
      <3>2. CASE scan[i].points = "nil"
        <4>1. \A k \in 1 .. Len(scan) : scan[k].points = "high" => i \in 1 .. k - 1
          BY <2>1, <3>1, <3>2 DEF Deciding
        <4> QED
          BY <1>1, <2>1, <3>2, <4>1 DEF ResultInv, Return
      <3>3. CASE scan[i].points # "nil"
        <4>1. scan[i] = [player |-> result', points |-> "high"] /\ result' # Nobody
          BY <2>1, <3>1, <3>3 DEF Deciding, Answers, Points, Players, Nobody
        <4> QED
          BY <1>1, <2>1, <3>1, <4>1 DEF ResultInv, Deciding, Return
      <3> QED
        BY <3>2, <3>3
    <2>2. ASSUME \A i \in DOMAIN scan : ~Deciding(i), result' = Nobody
          PROVE  ResultInv'
      BY <1>1, <2>2, NoneDecides DEF IInv, ResultInv, Return
    <2> QED
      BY <2>1, <2>2 DEF Return
  <1> QED
    BY <1>2, <1>3 DEF IInv

\* The inductive invariant is an invariant.
LEMMA Inductive == Spec => []IInv
  <1>1. ASSUME IInv, [Next]_vars PROVE IInv'
    <2>1. CASE UNCHANGED vars
      BY <1>1, <2>1 DEF vars, IInv, Types, ScanIsPrefix, ResultInv
    <2>2. ASSUME Request PROVE IInv'
      <3>1. next \in Players
        BY <2>2 DEF Request
      <3> QED
        BY <1>1, <2>2, <3>1, QuietStep
    <2>3. ASSUME FetchCurrentWeek PROVE IInv'
      <3>1. CASE \E p \in Players : TRUE
        BY <1>1, <2>3, <3>1, QuietStep
      <3>2. CASE ~\E p \in Players : TRUE
        BY <1>1, <2>3 DEF FetchCurrentWeek, IInv, Types, ScanIsPrefix, ResultInv
      <3> QED
        BY <3>1, <3>2
    <2> QED
      BY <1>1, <2>1, <2>2, <2>3, QuietStep, TakeAnswersStep, ReturnStep, EndAppendStep
         DEF Next, Caller
  <1> QED
    BY <1>1, InitIInv, PTL DEF Spec

-----------------------------------------------------------------------------
\* An answer in the array, or on its way into it, is that of an answered request,
\* and the one on its way is not in the array yet.  The loop asks each entry once.
AnsweredOnce ==
  /\ \A i \in DOMAIN playerGameStats : task[playerGameStats[i].player] = "answered"
  /\ appending # <<>> =>
       /\ task[appending.player] = "answered"
       /\ \A i \in DOMAIN playerGameStats : playerGameStats[i].player # appending.player
  /\ \A p \in Players : p >= next => task[p] = "none"

\* An answer is not the empty placeholder.
LEMMA AnswerFacts == <<>> \notin Answers /\ \A a \in Answers : a.player \in Players
  BY DEF Answers

\* The types are preserved, and so is that each entry is answered once.
LEMMA TypesStep == ASSUME TypeOK, AnsweredOnce, [Next]_vars PROVE TypeOK' /\ AnsweredOnce'
  <1> USE EntriesAssumption, AnswerFacts DEF Players
  <1>1. CASE Request
    <2>1. next \in Players /\ next' = next + 1 /\ next' \in 1 .. Entries + 1
      BY <1>1 DEF Request
    <2>2. /\ task' \in [Players -> {"none", "inflight", "answered", "failed"}]
          /\ \A p \in Players : p # next => task'[p] = task[p]
      BY <1>1, <2>1 DEF Request, TypeOK
    <2>3. UNCHANGED <<currentWeek, pc, appending, playerGameStats, scan, result>>
      BY <1>1 DEF Request
    <2>4. TypeOK'
      BY <2>1, <2>2, <2>3 DEF TypeOK
    <2>5. task[next] = "none"
      BY <2>1 DEF AnsweredOnce
    <2>6. \A i \in DOMAIN playerGameStats : playerGameStats[i] \in Answers
      BY DEF TypeOK
    <2>7. AnsweredOnce'
      BY <2>1, <2>2, <2>3, <2>5, <2>6 DEF AnsweredOnce, TypeOK
    <2> QED
      BY <2>4, <2>7
  <1>2. CASE TakeAnswers
    BY <1>2 DEF TakeAnswers, TypeOK, AnsweredOnce
  <1>3. CASE Return
    <2>1. result' \in Players \cup {Nobody}
      <3>1. \A i \in DOMAIN scan : scan[i] \in Answers
        BY DEF TypeOK
      <3> QED
        BY <1>3, <3>1 DEF Return, Deciding
    <2> QED
      BY <1>3, <2>1 DEF Return, TypeOK, AnsweredOnce
  <1>4. CASE FetchCurrentWeek
    BY <1>4 DEF FetchCurrentWeek, TypeOK, AnsweredOnce
  <1>5. ASSUME NEW p \in Players, StatsAnswered(p) PROVE TypeOK' /\ AnsweredOnce'
    <2>1. PICK x \in Points : appending' = [player |-> p, points |-> x]
      BY <1>5 DEF StatsAnswered
    <2>2. appending' \in Answers /\ appending'.player = p
      BY <2>1 DEF Answers
    <2>3. /\ task[p] = "inflight" /\ task' = [task EXCEPT ![p] = "answered"]
          /\ UNCHANGED <<currentWeek, pc, next, playerGameStats, scan, result>>
      BY <1>5 DEF StatsAnswered
    <2>4. TypeOK'
      BY <2>2, <2>3 DEF TypeOK
    <2>5. \A i \in DOMAIN playerGameStats : playerGameStats[i] \in Answers
      BY DEF TypeOK
    <2>6. AnsweredOnce'
      BY <2>2, <2>3, <2>5 DEF AnsweredOnce, TypeOK
    <2> QED
      BY <2>4, <2>6
  <1>6. ASSUME NEW p \in Players, StatsFail(p) PROVE TypeOK' /\ AnsweredOnce'
    <2>1. /\ task[p] = "inflight" /\ task' = [task EXCEPT ![p] = "failed"]
          /\ UNCHANGED <<currentWeek, pc, next, appending, playerGameStats, scan, result>>
      BY <1>6 DEF StatsFail
    <2>2. TypeOK'
      BY <2>1 DEF TypeOK
    <2>3. \A i \in DOMAIN playerGameStats : playerGameStats[i] \in Answers
      BY DEF TypeOK
    <2>4. AnsweredOnce'
      BY <2>1, <2>3 DEF AnsweredOnce, TypeOK
    <2> QED
      BY <2>2, <2>4
  <1>7. CASE EndAppend
    <2>1. /\ appending \in Answers /\ playerGameStats \in Seq(Answers)
          /\ playerGameStats' = Append(playerGameStats, appending) /\ appending' = <<>>
          /\ UNCHANGED <<currentWeek, pc, next, task, scan, result>>
      BY <1>7 DEF EndAppend, TypeOK
    <2>2. playerGameStats' \in Seq(Answers)
      BY <2>1
    <2>3. \A i \in DOMAIN playerGameStats' :
            \/ i = Len(playerGameStats) + 1 /\ playerGameStats'[i] = appending
            \/ i \in DOMAIN playerGameStats /\ playerGameStats'[i] = playerGameStats[i]
      BY <2>1
    <2>4. \A i, j \in DOMAIN playerGameStats' :
            playerGameStats'[i].player = playerGameStats'[j].player => i = j
      BY <2>1, <2>3, AnswerFacts DEF AnsweredOnce, TypeOK
    <2>5. AnsweredOnce'
      BY <2>1, <2>3 DEF AnsweredOnce
    <2> QED
      BY <2>1, <2>2, <2>4, <2>5 DEF TypeOK
  <1>8. CASE UNCHANGED vars
    BY <1>8 DEF vars, TypeOK, AnsweredOnce
  <1> QED
    BY <1>1, <1>2, <1>3, <1>4, <1>5, <1>6, <1>7, <1>8 DEF Next, Caller

\* No entry is answered twice, however the answers interleave with the loops.
THEOREM TypeCorrect == Spec => []TypeOK
  <1>1. Init => TypeOK /\ AnsweredOnce
    BY EntriesAssumption DEF Init, TypeOK, AnsweredOnce, Players
  <1> QED
    BY <1>1, TypesStep, PTL DEF Spec

\* Whoever is reported has an answer of 17 points, and nobody before has.
THEOREM ReportedPlayerHasPoints == Spec => []ReportedHasPoints
  <1>1. ASSUME IInv PROVE ReportedHasPoints
    <2>1. playerGameStats \in Seq(Answers) /\ scan \in Seq(Answers) /\ ScanIsPrefix /\ ResultInv
      BY <1>1 DEF IInv, Types
    <2> SUFFICES ASSUME result # Nobody
                 PROVE  \E i \in DOMAIN playerGameStats :
                          /\ playerGameStats[i] = [player |-> result, points |-> "high"]
                          /\ \A j \in 1 .. i - 1 : playerGameStats[j].points = "low"
      BY DEF ReportedHasPoints
    <2>2. PICK i \in 1 .. Len(scan) :
            /\ scan[i] = [player |-> result, points |-> "high"]
            /\ \A j \in 1 .. i - 1 : scan[j].points = "low"
      BY <2>1 DEF ResultInv
    <2>3. i \in DOMAIN playerGameStats /\ \A j \in 1 .. i : scan[j] = playerGameStats[j]
      BY <2>1 DEF ScanIsPrefix
    <2> QED
      BY <2>2, <2>3
  <1> QED
    BY <1>1, Inductive, PTL

\* A player of 17 points is overlooked only behind a missing answer or after the copy.
THEOREM MissesExplained == Spec => []MissedBreakoutExplained
  <1>1. ASSUME IInv PROVE MissedBreakoutExplained
    <2>1. playerGameStats \in Seq(Answers) /\ scan \in Seq(Answers) /\ ScanIsPrefix /\ ResultInv
      BY <1>1 DEF IInv, Types
    <2> QED
      BY <2>1 DEF ScanIsPrefix, ResultInv, MissedBreakoutExplained
  <1> QED
    BY <1>1, Inductive, PTL
=============================================================================
