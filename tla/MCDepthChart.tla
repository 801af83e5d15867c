---------------------------- MODULE MCDepthChart ----------------------------
(* Rosters of up to three rows, with points on both sides of every bar.     *)
EXTENDS DepthChart

MCPoints == {149, 150, 199, 200, 249, 250, 300}
MCMaxRows == 3
=============================================================================
