---------------------------- MODULE MCCompaction ----------------------------
(* Instances of Compaction for TLC. *)
EXTENDS Compaction
TwoKeys == {1, 2}
ThreeKeys == {1, 2, 3}
NoKey == {}
WideRange == {<<1, 3>>}
=============================================================================
