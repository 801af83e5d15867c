--------------------------- MODULE DepthChartProofs ---------------------------
(***************************************************************************)
(* Theorems about DepthChart, for any points and any length of the roster. *)
(***************************************************************************)
EXTENDS DepthChart, WellFoundedInduction, SequenceTheorems, TLAPS

\* Every set of naturals that is not empty has a least member.
LEMMA LeastMember ==
  ASSUME NEW S \in SUBSET Nat, S # {}
  PROVE  \E m \in S : \A n \in S : m <= n
  <1>1. PICK m \in S : \A n \in S : <<n, m>> \notin OpToRel(<, Nat)
    BY WFMin, NatLessThanWellFounded, Zenon
  <1>2. \A n \in S : ~(n < m)
    BY <1>1, Zenon DEF OpToRel
  <1>3. \A n \in S : m <= n
    BY <1>2
  <1> QED
    BY <1>3

\* A position with rows has a deciding row.
LEMMA DeciderExists ==
  ASSUME NEW rows \in Seq(Rows), NEW pos, At(rows, pos) # {}
  PROVE  Deciding(rows, pos) # {}
  <1>1. At(rows, pos) \in SUBSET Nat
    BY DEF At
  <1> QED
    BY <1>1, LeastMember DEF Deciding

\* The rows of a list stay where they are when one is appended.
LEMMA AtAppend ==
  ASSUME NEW rows \in Seq(Rows), NEW r \in Rows, NEW pos
  PROVE  /\ \A i \in At(rows, pos) : i \in At(Append(rows, r), pos) /\ i <= Len(rows)
         /\ \A i \in At(Append(rows, r), pos) : i \in At(rows, pos) \/ i = Len(rows) + 1
  BY DEF At

\* The row that decides stays the same when one is appended to a list that has one.
LEMMA DeciderAppend ==
  ASSUME NEW rows \in Seq(Rows), NEW r \in Rows, NEW pos, At(rows, pos) # {}
  PROVE  Deciding(Append(rows, r), pos) = Deciding(rows, pos)
  <1>1. ASSUME NEW i \in Deciding(rows, pos) PROVE i \in Deciding(Append(rows, r), pos)
    BY <1>1, AtAppend DEF Deciding, At
  <1>2. ASSUME NEW i \in Deciding(Append(rows, r), pos) PROVE i \in Deciding(rows, pos)
    <2>1. PICK j \in At(rows, pos) : TRUE
      OBVIOUS
    <2>2. j \in At(Append(rows, r), pos) /\ j <= Len(rows) /\ j \in Nat
      BY AtAppend DEF At
    <2>3. i <= j /\ i \in At(Append(rows, r), pos)
      BY <1>2, <2>2 DEF Deciding
    <2>4. i \in At(rows, pos)
      BY <2>2, <2>3, AtAppend DEF At
    <2> QED
      BY <1>2, <2>4, AtAppend DEF Deciding
  <1> QED
    BY <1>1, <1>2

\* Appending a row changes neither the deciding points nor, once there are two
\* rows, that there are several.
LEMMA DeciderPoints ==
  ASSUME NEW rows \in Seq(Rows), NEW r \in Rows, NEW pos, At(rows, pos) # {}
  PROVE  /\ Decider(Append(rows, r), pos) = Decider(rows, pos)
         /\ At(Append(rows, r), pos) # {}
         /\ Several(rows, pos) => Several(Append(rows, r), pos)
  <1> DEFINE i == CHOOSE k \in Deciding(rows, pos) : TRUE
  <1>1. i \in Deciding(rows, pos)
    BY DeciderExists
  <1>2. i \in DOMAIN rows /\ Append(rows, r)[i] = rows[i]
    BY <1>1 DEF Deciding, At
  <1>3. i = CHOOSE k \in Deciding(Append(rows, r), pos) : TRUE
    BY DeciderAppend
  <1>4. Decider(Append(rows, r), pos) = Decider(rows, pos)
    BY <1>2, <1>3 DEF Decider
  <1>5. At(Append(rows, r), pos) # {} /\ (Several(rows, pos) => Several(Append(rows, r), pos))
    BY AtAppend DEF Several
  <1> QED
    BY <1>4, <1>5

\* Rows of a list with two of a position are there.
LEMMA SeveralNotNone ==
  ASSUME NEW rows, NEW pos, Several(rows, pos)
  PROVE  At(rows, pos) # {}
  BY DEF Several

\* With several quarterbacks only the points of the deciding one matter.
LEMMA QBRankingOfSeveral ==
  ASSUME NEW rows, At(rows, "QB") # {}, Several(rows, "QB")
  PROVE  QBRanking(rows) = IF Decider(rows, "QB") >= 300 THEN "Strong"
                           ELSE IF Decider(rows, "QB") >= 200 THEN "Medium" ELSE "Weak"
  <1> DEFINE good == Decider(rows, "QB") >= 300
             deep == Several(rows, "QB")
  <1>1. deep
    OBVIOUS
  <1>2. QBRanking(rows) = IF good /\ deep THEN "Strong"
                          ELSE IF Decider(rows, "QB") >= 200 THEN "Medium" ELSE "Weak"
    BY DEF QBRanking
  <1> HIDE DEF good, deep
  <1>3. (good /\ deep) <=> good
    BY <1>1
  <1>4. QBRanking(rows) = IF good
                          THEN "Strong" ELSE IF Decider(rows, "QB") >= 200 THEN "Medium" ELSE "Weak"
    BY <1>2, <1>3
  <1> QED
    BY <1>4 DEF good

\* A row fetched before the others decides its position, next to those that are there.
LEMMA FirstDecides ==
  ASSUME NEW rows \in Seq(Rows), NEW r \in Rows, NEW new, new = <<r>> \o rows
  PROVE  /\ At(new, r.position) # {} /\ Decider(new, r.position) = r.points
         /\ At(rows, r.position) # {} => Several(new, r.position)
  <1>1. /\ new \in Seq(Rows) /\ DOMAIN new = 1 .. Len(rows) + 1 /\ new[1] = r
        /\ \A i \in DOMAIN rows : i + 1 \in DOMAIN new /\ new[i + 1] = rows[i] /\ i + 1 # 1
    <2>1. <<r>> \in Seq(Rows) /\ Len(<<r>>) = 1 /\ <<r>>[1] = r
      OBVIOUS
    <2>2. /\ new \in Seq(Rows) /\ Len(new) = 1 + Len(rows)
          /\ \A i \in 1 .. 1 + Len(rows) : new[i] = IF i <= 1 THEN <<r>>[i] ELSE rows[i - 1]
      BY <2>1, ConcatProperties
    <2>3. Len(rows) \in Nat /\ DOMAIN rows = 1 .. Len(rows) /\ DOMAIN new = 1 .. Len(rows) + 1
      BY <2>2, LenProperties
    <2>4. \A i \in DOMAIN rows : i + 1 \in DOMAIN new /\ new[i + 1] = rows[i] /\ i + 1 # 1
      BY <2>2, <2>3
    <2> QED
      BY <2>1, <2>2, <2>3, <2>4
  <1>2. Len(rows) \in Nat /\ 1 \in DOMAIN new
    BY <1>1
  <1>3. 1 \in At(new, r.position) /\ \A i \in At(new, r.position) : 1 <= i
    BY <1>1, <1>2 DEF At
  <1>4. Deciding(new, r.position) = {1}
    <2>1. 1 \in Deciding(new, r.position)
      BY <1>3 DEF Deciding
    <2>2. \A i \in Deciding(new, r.position) : i = 1
      BY <1>1, <1>3 DEF Deciding, At
    <2> QED
      BY <2>1, <2>2
  <1>5. Decider(new, r.position) = r.points
    BY <1>1, <1>4 DEF Decider
  <1>6. At(rows, r.position) # {} => Several(new, r.position)
    <2>1. SUFFICES ASSUME At(rows, r.position) # {} PROVE Several(new, r.position)
      OBVIOUS
    <2>2. PICK i \in DOMAIN rows : rows[i].position = r.position
      BY <2>1 DEF At
    <2>3. i + 1 \in At(new, r.position) /\ i + 1 # 1
      BY <1>1, <2>2 DEF At
    <2> QED
      BY <1>3, <2>3 DEF Several
  <1> QED
    BY <1>3, <1>5, <1>6

-----------------------------------------------------------------------------
\* The list of rows is always typed and within its bound.
THEOREM TypeCorrect == Spec => []TypeOK
  <1>1. Init => TypeOK
    BY RowsAssumption DEF Init, TypeOK
  <1>2. ASSUME TypeOK, [Next]_team PROVE TypeOK'
    <2>1. ASSUME NEW r \in Rows, AddLast(r) \/ AddFirst(r) PROVE TypeOK'
      <3>1. team \in Seq(Rows) /\ Len(team) < MaxRows
        BY <1>2, <2>1 DEF TypeOK, AddLast, AddFirst
      <3>2. CASE AddLast(r)
        BY <3>1, <3>2, RowsAssumption DEF TypeOK, AddLast
      <3>3. CASE AddFirst(r)
        <4>1. <<r>> \in Seq(Rows) /\ Len(<<r>>) = 1
          OBVIOUS
        <4>2. <<r>> \o team \in Seq(Rows) /\ Len(<<r>> \o team) = 1 + Len(team)
          BY <3>1, <4>1, ConcatProperties
        <4> QED
          BY <3>1, <3>3, <4>2, RowsAssumption DEF TypeOK, AddFirst
      <3> QED
        BY <2>1, <3>2, <3>3
    <2>2. ASSUME NEW i \in DOMAIN team, Remove(i) PROVE TypeOK'
      <3>1. team \in Seq(Rows) /\ i \in 1 .. Len(team)
        BY <1>2 DEF TypeOK
      <3>2. /\ SubSeq(team, 1, i - 1) \in Seq(Rows)
            /\ Len(SubSeq(team, 1, i - 1)) = i - 1
        BY <3>1
      <3>3. /\ SubSeq(team, i + 1, Len(team)) \in Seq(Rows)
            /\ Len(SubSeq(team, i + 1, Len(team))) = Len(team) - i
        BY <3>1
      <3> DEFINE a == SubSeq(team, 1, i - 1)
                 b == SubSeq(team, i + 1, Len(team))
      <3>4. team' \in Seq(Rows) /\ Len(team') = Len(team) - 1
        <4>1. team' = a \o b
          BY <2>2 DEF Remove
        <4>2. a \in Seq(Rows) /\ b \in Seq(Rows) /\ Len(a) = i - 1 /\ Len(b) = Len(team) - i
          BY <3>2, <3>3
        <4> HIDE DEF a, b
        <4>3. a \o b \in Seq(Rows) /\ Len(a \o b) = Len(a) + Len(b)
          BY <4>2, ConcatProperties
        <4> QED
          BY <3>1, <4>1, <4>2, <4>3
      <3> QED
        BY <1>2, <3>1, <3>4, RowsAssumption DEF TypeOK
    <2>3. CASE UNCHANGED team
      BY <1>2, <2>3 DEF TypeOK
    <2> QED
      BY <1>2, <2>1, <2>2, <2>3 DEF Next
  <1> QED
    BY <1>1, <1>2, PTL DEF Spec

\* A further quarterback, fetched last, never lowers the ranking.
THEOREM QBDepthNeverHurtsAlways == Spec => QBDepthNeverHurts
  <1>1. ASSUME TypeOK PROVE QBDepthHelps
    <2> SUFFICES ASSUME NEW r \in Rows, team' = Append(team, r)
                 PROVE  Grade(QBRanking(team')) >= Grade(QBRanking(team))
      BY DEF QBDepthHelps
    <2> DEFINE new == Append(team, r)
    <2>1. CASE At(team, "QB") = {}
      <3>1. Grade(QBRanking(team)) = 0
        BY <2>1 DEF Grade, QBRanking
      <3>2. Grade(QBRanking(team')) \in 0 .. 3
        BY DEF Grade
      <3> QED
        BY <3>1, <3>2
    <2>2. CASE At(team, "QB") # {}
      <3>1. /\ Decider(new, "QB") = Decider(team, "QB")
            /\ At(new, "QB") # {}
            /\ Several(team, "QB") => Several(new, "QB")
        BY <1>1, <2>2, DeciderPoints DEF TypeOK
      <3> HIDE DEF new
      <3>2. Grade(QBRanking(new)) >= Grade(QBRanking(team))
        BY <2>2, <3>1 DEF Grade, QBRanking
      <3> QED
        BY <3>2 DEF new
    <2> QED
      BY <2>1, <2>2
  <1>2. TypeOK /\ [Next]_team => [QBDepthHelps]_team
    BY <1>1
  <1> QED
    BY <1>2, TypeCorrect, PTL DEF Spec, QBDepthNeverHurts

\* A third row, fetched last, is never looked at.
THEOREM ThirdRowNeverCountsAlways == Spec => ThirdRowNeverCounts
  <1>1. ASSUME TypeOK PROVE SameAfterTwo
    <2> SUFFICES ASSUME NEW r \in Rows, NEW pos \in {"QB", "WR", "RB"},
                        team' = Append(team, r), Several(team, pos)
                 PROVE  Ranking(team', pos) = Ranking(team, pos)
      BY DEF SameAfterTwo
    <2> DEFINE new == Append(team, r)
    <2>1. At(team, pos) # {}
      BY SeveralNotNone
    <2>2. /\ Decider(new, pos) = Decider(team, pos)
          /\ At(new, pos) # {}
          /\ Several(new, pos)
      BY <1>1, <2>1, DeciderPoints DEF TypeOK
    <2> HIDE DEF new
    <2>3. Ranking(new, pos) = Ranking(team, pos)
      <3>1. CASE pos = "QB"
        <4>1. /\ At(team, "QB") # {}
              /\ At(new, "QB") # {}
              /\ Decider(new, "QB") = Decider(team, "QB")
              /\ Several(team, "QB")
              /\ Several(new, "QB")
          BY <2>1, <2>2, <3>1, Zenon
        <4>2. QBRanking(new) = QBRanking(team)
          BY <4>1, QBRankingOfSeveral
        <4> QED
          BY <3>1, <4>2 DEF Ranking
      <3>2. CASE pos # "QB"
        BY <2>1, <2>2, <3>2 DEF Ranking, FlexRanking
      <3> QED
        BY <3>1, <3>2
    <2> QED
      BY <2>3 DEF new
  <1>2. TypeOK /\ [Next]_team => [SameAfterTwo]_team
    BY <1>1
  <1> QED
    BY <1>2, TypeCorrect, PTL DEF Spec, ThirdRowNeverCounts

\* The advice names a position whose ranking is weak.
LEMMA AdviceIsWeak ==
  ASSUME NEW rows
  PROVE  /\ Advice(rows) \in {"QB", "RB", "WR", ""}
         /\ Advice(rows) = "QB" => QBRanking(rows) = "Weak"
         /\ Advice(rows) = "RB" => FlexRanking(rows, "RB") = "Weak"
         /\ Advice(rows) = "WR" => FlexRanking(rows, "WR") = "Weak"
  <1> DEFINE qb == QBRanking(rows)
             rb == FlexRanking(rows, "RB")
             wr == FlexRanking(rows, "WR")
  <1>1. Advice(rows) = IF qb = "Weak" THEN "QB" ELSE IF rb = "Weak" THEN "RB"
                       ELSE IF wr = "Weak" THEN "WR" ELSE ""
    BY DEF Advice
  <1> HIDE DEF qb, rb, wr
  <1>2. /\ Advice(rows) \in {"QB", "RB", "WR", ""}
        /\ Advice(rows) = "QB" => qb = "Weak"
        /\ Advice(rows) = "RB" => rb = "Weak"
        /\ Advice(rows) = "WR" => wr = "Weak"
    BY <1>1
  <1> QED
    BY <1>2 DEF qb, rb, wr

\* Receivers and backs that are weak are there, and one of 250 points that decides
\* over others leaves nobody weak.
LEMMA WeakFlex ==
  ASSUME NEW rows, NEW pos
  PROVE  /\ FlexRanking(rows, pos) = "Weak" => At(rows, pos) # {}
         /\ Several(rows, pos) /\ Decider(rows, pos) >= 250 => FlexRanking(rows, pos) # "Weak"
  <1> DEFINE good == Decider(rows, pos) >= 250
             fair == Decider(rows, pos) >= 150
             deep == Several(rows, pos)
             none == At(rows, pos) = {}
  <1>1. FlexRanking(rows, pos) = IF none THEN "" ELSE IF good /\ deep THEN "Strong"
                                 ELSE IF fair /\ ~deep THEN "Medium" ELSE "Weak"
    BY DEF FlexRanking
  <1>2. deep => ~none
    BY DEF Several
  <1> HIDE DEF good, fair, deep, none
  <1>3. /\ FlexRanking(rows, pos) = "Weak" => ~none
        /\ deep /\ good => FlexRanking(rows, pos) # "Weak"
    BY <1>1, <1>2
  <1> QED
    BY <1>3 DEF good, deep, none

\* A quarterback of 200 points that decides is not weak.
LEMMA WeakQB ==
  ASSUME NEW rows, Decider(rows, "QB") >= 200
  PROVE  QBRanking(rows) # "Weak"
  <1> DEFINE good == Decider(rows, "QB") >= 300
             fair == Decider(rows, "QB") >= 200
             deep == Several(rows, "QB")
             none == At(rows, "QB") = {}
  <1>1. QBRanking(rows) = IF none THEN "" ELSE IF good /\ deep THEN "Strong"
                          ELSE IF fair THEN "Medium" ELSE "Weak"
    BY DEF QBRanking
  <1>2. fair
    OBVIOUS
  <1> HIDE DEF good, fair, deep, none
  <1> QED
    BY <1>1, <1>2

\* A row of 250 points at the advised position, fetched first, settles that position.
THEOREM AdviceCanBeFollowedAlways == Spec => AdviceCanBeFollowed
  <1>1. ASSUME NEW rows \in Seq(Rows), NEW r \in Rows, NEW new, new = <<r>> \o rows,
               r.position = Advice(rows), r.points >= 250
        PROVE  Advice(new) # Advice(rows)
    <2>1. /\ Decider(new, r.position) = r.points
          /\ At(rows, r.position) # {} => Several(new, r.position)
      BY <1>1, FirstDecides
    <2>2. r.position \in {"QB", "WR", "RB", "K"} /\ r.points \in Nat
      BY PointsAssumption DEF Rows, Positions
    <2>3. r.position \in {"QB", "RB", "WR"}
      BY <1>1, <2>2, AdviceIsWeak
    <2>4. CASE r.position = "QB"
      <3>1. Decider(new, "QB") >= 200
        BY <1>1, <2>1, <2>2, <2>4
      <3>2. QBRanking(new) # "Weak"
        BY <3>1, WeakQB
      <3> QED
        BY <1>1, <2>4, <3>2, AdviceIsWeak
    <2>5. ASSUME r.position \in {"RB", "WR"} PROVE FlexRanking(new, r.position) # "Weak"
      <3>1. FlexRanking(rows, r.position) = "Weak"
        BY <1>1, <2>5, AdviceIsWeak
      <3>2. Several(new, r.position)
        BY <2>1, <3>1, WeakFlex
      <3>3. Decider(new, r.position) >= 250
        BY <1>1, <2>1
      <3> QED
        BY <3>2, <3>3, WeakFlex
    <2>6. CASE r.position \in {"RB", "WR"}
      BY <1>1, <2>5, <2>6, AdviceIsWeak
    <2> QED
      BY <2>3, <2>4, <2>6
  <1>2. TypeOK /\ [Next]_team => [SettledByTrade]_team
    <2> SUFFICES ASSUME TypeOK PROVE SettledByTrade
      OBVIOUS
    <2>1. team \in Seq(Rows)
      BY DEF TypeOK
    <2> QED
      BY <1>1, <2>1 DEF SettledByTrade
  <1> QED
    BY <1>2, TypeCorrect, PTL DEF Spec, AdviceCanBeFollowed
=============================================================================
