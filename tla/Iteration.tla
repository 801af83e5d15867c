----------------------------- MODULE Iteration -----------------------------
(***************************************************************************)
(* An iterator over the store of module Compaction: DBIter                 *)
(* (db/db_iter.cc), which shows one entry for each user key, over          *)
(* MergingIterator (table/merger.cc), which merges the memtables, the      *)
(* tables of level 0 and one iterator for each deeper level.  A round of a *)
(* loop of DBIter is a step, for the memtable grows between two of them.   *)
(*                                                                         *)
(* A child iterator rests on an entry or on nothing.                       *)
(***************************************************************************)
EXTENDS Compaction

ASSUME NoneAssumption == None \notin Nat

VARIABLES
    iter,     \* the iterator a client has open, or None
    goal      \* history variable: what its last call has to show

-----------------------------------------------------------------------------
(* Child iterators *)

First(E) == IF E = {} THEN None ELSE CHOOSE e \in E : \A x \in E : EntryRank(e) <= EntryRank(x)
Final(E) == IF E = {} THEN None ELSE CHOOSE e \in E : \A x \in E : EntryRank(e) >= EntryRank(x)
After(E, e) == First({x \in E : EntryRank(x) > EntryRank(e)})
Before(E, e) == Final({x \in E : EntryRank(x) < EntryRank(e)})
SeekIn(E, rank) == First({x \in E : EntryRank(x) >= rank})

\* The children hold references: compactions take nothing away from them, but the
\* memtable grows until it is switched.
MemChild == <<-2, {}>>
NewInternalIterator ==
    [c \in {MemChild, <<-1, {}>>} \cup ({0} \X files[0]) \cup ((1 .. NumLevels - 1) \X {{}}) |->
        CASE c[1] = -2 -> mem [] c[1] = -1 -> imm [] c[1] = 0 -> c[2]
          [] OTHER -> UNION files[c[1]]]

-----------------------------------------------------------------------------
(* MergingIterator over the children C *)

\* current_: FindSmallest going forward, FindLargest in reverse.
Current(m) ==
    LET E == {m.at[c] : c \in DOMAIN m.at} \ {None}
    IN  IF m.reverse THEN Final(E) ELSE First(E)

Valid(m) == Current(m) # None

MergeFirst(C) == [at |-> [c \in DOMAIN C |-> First(C[c])], reverse |-> FALSE]
MergeLast(C) == [at |-> [c \in DOMAIN C |-> Final(C[c])], reverse |-> TRUE]
MergeSeek(C, rank) == [at |-> [c \in DOMAIN C |-> SeekIn(C[c], rank)], reverse |-> FALSE]

\* MUTANT: the other children stay where they are when the direction changes.
MergeNext_NoReposition(C, m) ==
    [at |-> [c \in DOMAIN C |-> IF m.at[c] = Current(m) THEN After(C[c], Current(m)) ELSE m.at[c]],
     reverse |-> FALSE]

\* A change of direction moves the children that are not current, too.
MergeNext(C, m) ==
    [at |-> [c \in DOMAIN C |-> IF m.reverse \/ m.at[c] = Current(m)
                                THEN After(C[c], Current(m)) ELSE m.at[c]],
     reverse |-> FALSE]

MergePrev(C, m) ==
    [at |-> [c \in DOMAIN C |-> IF ~m.reverse \/ m.at[c] = Current(m)
                                THEN Before(C[c], Current(m)) ELSE m.at[c]],
     reverse |-> TRUE]

-----------------------------------------------------------------------------
(* What reads at s should see *)

Deletes(e) == hist[e].kind = "deletion"

\* The entries a key was written last with, unless it was deleted.
Seen(s) == {e \in 1 .. s : ~Deletes(e) /\ \A x \in 1 .. s : hist[x].key = hist[e].key => x <= e}

-----------------------------------------------------------------------------
(* DBIter.  skip and saved are what saved_key_ holds going forward, where   *)
(* it is a user key, and in reverse, where it belongs to an entry.          *)

IterInit == Init /\ iter = None /\ goal = None

NewIterator(s) ==
    /\ iter = None
    /\ iter' = [s |-> s, children |-> NewInternalIterator, growing |-> TRUE,
                m |-> [at |-> [c \in DOMAIN NewInternalIterator |-> None], reverse |-> FALSE],
                reverse |-> FALSE, valid |-> FALSE, skip |-> None, saved |-> None, loop |-> "none"]
    /\ goal' = None /\ UNCHANGED vars

DeleteIterator ==
    /\ iter # None /\ iter.loop = "none"
    /\ iter' = None /\ goal' = None
    /\ UNCHANGED vars

Callable == iter # None /\ iter.loop = "none"

\* A call goes into its loop, which is to end at the entry e.
Call(loop, m, reverse, skip, e) ==
    /\ iter' = [iter EXCEPT !.loop = loop, !.m = m, !.reverse = reverse, !.skip = skip, !.saved = None]
    /\ goal' = e
    /\ UNCHANGED vars

SeekToFirst ==
    /\ Callable
    /\ Call("next", MergeFirst(iter.children), FALSE, None, First(Seen(iter.s)))

SeekToLast ==
    /\ Callable
    /\ Call("prev", MergeLast(iter.children), TRUE, None, Final(Seen(iter.s)))

IterSeek(k) ==
    /\ Callable
    /\ Call("next", MergeSeek(iter.children, Rank(k, iter.s)), FALSE, None,
            First({e \in Seen(iter.s) : hist[e].key >= k}))

\* In reverse the merging iterator is before the entries of the key that is shown.
IterNext ==
    /\ Callable /\ iter.valid
    /\ LET e == IF iter.reverse THEN iter.saved ELSE Current(iter.m)
           m == IF ~iter.reverse THEN iter.m
                ELSE IF Valid(iter.m) THEN MergeNext(iter.children, iter.m)
                ELSE MergeFirst(iter.children)
       IN  Call("next", m, FALSE, hist[e].key,
                First({x \in Seen(iter.s) : hist[x].key > hist[goal].key}))

IterPrev ==
    /\ Callable /\ iter.valid
    /\ LET before == Final({x \in Seen(iter.s) : hist[x].key < hist[goal].key})
       IN  IF iter.reverse THEN Call("prev", iter.m, TRUE, None, before)
           ELSE Call("before", iter.m, FALSE, hist[Current(iter.m)].key, before)

Return(valid, reverse) ==
    iter' = [iter EXCEPT !.loop = "none", !.valid = valid, !.reverse = reverse, !.skip = None]

\* A deletion hides the entries of its key behind it; up to skip all are hidden.
FindNextUserEntry ==
    /\ iter # None /\ iter.loop = "next"
    /\ LET e == Current(iter.m)
           hidden == iter.skip # None /\ hist[e].key <= iter.skip
           shown == e <= iter.s /\ ~Deletes(e) /\ ~hidden
       IN  \/ e = None /\ Return(FALSE, FALSE)
           \/ e # None /\ shown /\ Return(TRUE, FALSE)
           \/ /\ e # None /\ ~shown
              /\ iter' = [iter EXCEPT !.m = MergeNext(iter.children, iter.m),
                                      !.skip = IF e <= iter.s /\ Deletes(e) THEN hist[e].key ELSE @]
    /\ UNCHANGED <<vars, goal>>

\* The newest entry of a key comes last, so saved is shown when a smaller key comes.
Passes(e) == iter.saved # None /\ e <= iter.s /\ hist[e].key < hist[iter.saved].key

FindPrevUserEntry ==
    /\ iter # None /\ iter.loop = "prev"
    /\ LET e == Current(iter.m)
       IN  \/ e = None /\ Return(iter.saved # None, iter.saved # None)
           \/ e # None /\ Passes(e) /\ Return(TRUE, TRUE)
           \/ /\ e # None /\ ~Passes(e)
              /\ iter' = [iter EXCEPT !.m = MergePrev(iter.children, iter.m),
                                      !.saved = IF e > iter.s THEN @ ELSE IF Deletes(e) THEN None ELSE e]
    /\ UNCHANGED <<vars, goal>>

\* Prev, going forward before: back to the first entry of a smaller key.
BeforeKey ==
    /\ iter # None /\ iter.loop = "before"
    /\ LET m == MergePrev(iter.children, iter.m)
           e == Current(m)
       IN  \/ e = None /\ iter' = [iter EXCEPT !.m = m, !.loop = "none", !.valid = FALSE, !.skip = None]
          \/ /\ e # None /\ hist[e].key < iter.skip
             /\ iter' = [iter EXCEPT !.m = m, !.loop = "prev", !.reverse = TRUE, !.skip = None]
          \/ /\ e # None /\ ~(hist[e].key < iter.skip)
             /\ iter' = [iter EXCEPT !.m = m]
    /\ UNCHANGED <<vars, goal>>

\* The store goes on; the iterator sees what is written into its memtable.
StoreStep ==
    /\ Next
    /\ iter' = IF iter = None THEN None
               ELSE IF ~iter.growing THEN iter
               ELSE IF mem \subseteq mem' THEN [iter EXCEPT !.children[MemChild] = mem']
               ELSE [iter EXCEPT !.growing = FALSE]
    /\ UNCHANGED goal

IterStep ==
    \/ \E s \in snapshots \cup {Len(hist)} : NewIterator(s)
    \/ DeleteIterator
    \/ SeekToFirst \/ SeekToLast \/ IterNext \/ IterPrev
    \/ \E k \in Keys : IterSeek(k)
    \/ FindNextUserEntry \/ FindPrevUserEntry \/ BeforeKey

IterSpec == IterInit /\ [][StoreStep \/ IterStep]_<<vars, iter, goal>>

-----------------------------------------------------------------------------
(* Properties *)

Shown == IF ~iter.valid THEN None ELSE IF iter.reverse THEN iter.saved ELSE Current(iter.m)

\* An iterator that a call has returned from shows what was there when it was opened,
\* every key once and in order, placed by any Seek and moved to and fro (DBIter::Next and Prev,
\* MergingIterator's changes of direction), while the store is written to and compacted.
IteratorsReadHistory == iter # None /\ iter.loop = "none" => Shown = goal
=============================================================================
