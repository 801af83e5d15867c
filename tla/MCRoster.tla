------------------------------ MODULE MCRoster ------------------------------
(* Two presses of the add button against lists with a namesake, a player    *)
(* without a name and an identifier wider than 16 bits.                      *)
EXTENDS Roster

Entry(id, name) == [PlayerID |-> id, Name |-> name]

MCNoName == "no name"

\* Two successive answers of FantasyPlayers: "Smith" is player 1 in the first list and
\* player 2 in the second; "Jones" is one player whose place in the list changes.
MCFeeds == { <<Entry(1, "Smith"), Entry(3, "Jones")>>,
             <<Entry(3, "Jones"), Entry(2, "Smith"), Entry(40000, "Brown"), Entry(4, MCNoName)>> }
=============================================================================
