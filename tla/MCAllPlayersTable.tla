-------------------------- MODULE MCAllPlayersTable --------------------------
(* Three visits, so that the answers of two earlier ones can be late; answers *)
(* that are empty, short and longer.                                          *)
EXTENDS AllPlayersTable

MCMaxVisits == 3
MCLengths == {0, 1, 2}
=============================================================================
