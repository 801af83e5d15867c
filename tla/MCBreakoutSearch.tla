--------------------------- MODULE MCBreakoutSearch ---------------------------
(* Four entries: answers before, at and after the one that decides.           *)
EXTENDS BreakoutSearch

MCEntries == 4
=============================================================================
