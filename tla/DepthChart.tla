------------------------------ MODULE DepthChart ------------------------------
(***************************************************************************)
(* The depth chart rankings and the trade advice, as functions of the list *)
(* a roster is fetched as, and how they change when the roster grows or    *)
(* shrinks.  Rows are whole (a row without a position traps); positions    *)
(* are labels none of which contains another.  The fetch sorts by position *)
(* only, so the order of rows of one position is arbitrary: a new row may  *)
(* come before or after those that are there.                              *)
(***************************************************************************)
EXTENDS Integers, Sequences

CONSTANTS
  Points,     \* the season projections a row may have
  MaxRows     \* bound: the length of the roster

ASSUME PointsAssumption == Points \subseteq Nat
ASSUME RowsAssumption == MaxRows \in Nat

Positions == {"QB", "WR", "RB", "K"}
Rows == [position : Positions, points : Points]

VARIABLE team    \* the roster as fetched

\* team.filter{ $0.position contains pos }, by position in the list.
At(rows, pos) == {i \in DOMAIN rows : rows[i].position = pos}

Several(rows, pos) == \E i, j \in At(rows, pos) : i # j

\* The loops return in their first iteration, so one row decides.
Deciding(rows, pos) == {i \in At(rows, pos) : \A j \in At(rows, pos) : i <= j}
Decider(rows, pos) == rows[CHOOSE i \in Deciding(rows, pos) : TRUE].points

\* MUTANT: the depth of the chart is compared the other way round.
QBRanking_DepthReversed(rows) ==
  IF At(rows, "QB") = {} THEN ""
  ELSE IF Decider(rows, "QB") >= 300 /\ ~Several(rows, "QB") THEN "Strong"
  ELSE IF Decider(rows, "QB") >= 200 THEN "Medium"
  ELSE "Weak"

QBRanking(rows) ==
  IF At(rows, "QB") = {} THEN ""
  ELSE IF Decider(rows, "QB") >= 300 /\ Several(rows, "QB") THEN "Strong"
  ELSE IF Decider(rows, "QB") >= 200 THEN "Medium"
  ELSE "Weak"

\* MUTANT: the last row of the position decides, not the first.
FlexRanking_LastDecides(rows, pos) ==
  IF At(rows, pos) = {} THEN ""
  ELSE LET last == rows[CHOOSE i \in At(rows, pos) : \A j \in At(rows, pos) : j <= i].points IN
       IF last >= 250 /\ Several(rows, pos) THEN "Strong"
       ELSE IF last >= 150 /\ ~Several(rows, pos) THEN "Medium"
       ELSE "Weak"

\* MUTANT: the bar of the quarterbacks is used for receivers and backs.
FlexRanking_WrongBar(rows, pos) ==
  IF At(rows, pos) = {} THEN ""
  ELSE IF Decider(rows, pos) >= 300 /\ Several(rows, pos) THEN "Strong"
  ELSE IF Decider(rows, pos) >= 150 /\ ~Several(rows, pos) THEN "Medium"
  ELSE "Weak"

\* Receivers and backs: "Medium" is for a single row only.
FlexRanking(rows, pos) ==
  IF At(rows, pos) = {} THEN ""
  ELSE IF Decider(rows, pos) >= 250 /\ Several(rows, pos) THEN "Strong"
  ELSE IF Decider(rows, pos) >= 150 /\ ~Several(rows, pos) THEN "Medium"
  ELSE "Weak"

Ranking(rows, pos) == IF pos = "QB" THEN QBRanking(rows) ELSE FlexRanking(rows, pos)

\* calculateTradeCombinations: the position to trade for.
Advice(rows) ==
  IF QBRanking(rows) = "Weak" THEN "QB"
  ELSE IF FlexRanking(rows, "RB") = "Weak" THEN "RB"
  ELSE IF FlexRanking(rows, "WR") = "Weak" THEN "WR"
  ELSE ""

-----------------------------------------------------------------------------
Init == team = <<>>

\* createPlayer: the row sorts before or after those of its position.
AddLast(r) ==
  /\ Len(team) < MaxRows
  /\ team' = Append(team, r)

AddFirst(r) ==
  /\ Len(team) < MaxRows
  /\ team' = <<r>> \o team

\* MUTANT: the row is blanked instead of removed.
Remove_Blanks(i) == team' = [team EXCEPT ![i].position = ""]

\* deletePlayer.
Remove(i) ==
  team' = SubSeq(team, 1, i - 1) \o SubSeq(team, i + 1, Len(team))

Next ==
  \/ \E r \in Rows : AddLast(r) \/ AddFirst(r)
  \/ \E i \in DOMAIN team : Remove(i)

Spec == Init /\ [][Next]_team

-----------------------------------------------------------------------------
(***************************************************************************)
(* Properties.                                                             *)
(***************************************************************************)

TypeOK == team \in Seq(Rows) /\ Len(team) <= MaxRows

Grade(ranking) ==
  IF ranking = "Strong" THEN 3 ELSE IF ranking = "Medium" THEN 2
  ELSE IF ranking = "Weak" THEN 1 ELSE 0

\* A row fetched after all the others never lowers the quarterbacks' ranking.
\* (Receivers and backs do not share this: a single row of 150 to 249 points is
\* "Medium" and becomes "Weak" when a second row joins it.)
QBDepthHelps ==
  \A r \in Rows : team' = Append(team, r) => Grade(QBRanking(team')) >= Grade(QBRanking(team))

QBDepthNeverHurts == [][QBDepthHelps]_team

\* Once a position has two rows, a row fetched after all the others is never
\* looked at, whatever its points.
SameAfterTwo ==
  \A r \in Rows, pos \in {"QB", "WR", "RB"} :
    team' = Append(team, r) /\ Several(team, pos) => Ranking(team', pos) = Ranking(team, pos)

ThirdRowNeverCounts == [][SameAfterTwo]_team

\* The advice can be followed: a row of 250 points at the advised position, if it
\* is fetched before the others, settles that position.
SettledByTrade ==
  \A r \in Rows :
    /\ team' = <<r>> \o team
    /\ r.position = Advice(team)
    /\ r.points >= 250
    => Advice(team') # Advice(team)

AdviceCanBeFollowed == [][SettledByTrade]_team
=============================================================================
