---------------------------- MODULE MCIteration ----------------------------
(* An instance of Iteration for TLC, in which an iterator is open only while the store is small. *)
EXTENDS Iteration
CONSTANT MaxIterated   \* bound: writes and snapshots there are meanwhile
TwoKeys == {1, 2}
One == {1}
Two == {2}
PointRanges == {<<1, 1>>}

\* No merge runs meanwhile, and the last write is not flushed: neither reaches the children.
Small == Len(hist) + Cardinality(snapshots) <= MaxIterated /\ job = None /\ manual = None

\* The snapshots that are held while CompactRange goes on.
HeldMeanwhile == {1, 2}

BoundedStep ==
    /\ StoreStep \/ IterStep
    /\ manual' # None => snapshots' \subseteq HeldMeanwhile
    /\ iter' # None => Small'
    /\ iter # None /\ Len(hist) = MaxIterated => UNCHANGED files
BoundedSpec == IterInit /\ [][BoundedStep]_<<vars, iter, goal>>
=============================================================================
