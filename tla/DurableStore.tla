---------------------------- MODULE DurableStore ----------------------------
(***************************************************************************)
(* What a LevelDB store promises of its writes (include/leveldb/options.h, *)
(* WriteOptions::sync): a write that has returned is seen and survives the *)
(* end of the process; one made with sync also survives a loss of power; a *)
(* write that has failed may come back, one never made may not.            *)
(*                                                                         *)
(* The store keeps this promise up to a failure to write a log.  Writes it *)
(* makes behind it, in the same log, are seen but not sure to survive the  *)
(* end of the process, with or without sync, until they are in a table.    *)
(***************************************************************************)
CONSTANTS
    Writers,
    SyncWriters     \* those of them that set WriteOptions::sync

VARIABLES
    status,     \* status[w]: todo, called, ok, unsure (ok, but behind a failure), error
                \* or dead (process gone)
    visible,    \* writes a reader sees, or will once the store is open again
    limbo,      \* writes not seen yet that the end of the process would reveal
    safe        \* writes no loss of power can undo

vars == <<status, visible, limbo, safe>>

Called == {w \in Writers : status[w] = "called"}
Set(W, s) == [w \in Writers |-> IF w \in W THEN s ELSE status[w]]

Init ==
    /\ status = [w \in Writers |-> "todo"]
    /\ visible = {} /\ limbo = {} /\ safe = {}

Call(w) ==
    /\ status[w] = "todo"
    /\ status' = Set({w}, "called")
    /\ UNCHANGED <<visible, limbo, safe>>

Log(W) ==
    /\ limbo' = limbo \cup W
    /\ UNCHANGED <<status, visible, safe>>

Harden(S) ==
    /\ safe' = safe \cup S
    /\ UNCHANGED <<status, visible, limbo>>

\* A group of writes returns at once.
Publish(W) ==
    /\ W \subseteq limbo
    /\ W \cap SyncWriters \subseteq safe
    /\ visible' = visible \cup W /\ limbo' = limbo \ W
    /\ status' = Set(W, "ok")
    /\ UNCHANGED safe

\* One returns that is behind a failed one in its log.
PublishUnsure(W) ==
    /\ \E w \in Writers : status[w] = "error"
    /\ visible' = visible \cup W /\ limbo' = limbo \ W
    /\ status' = Set(W, "unsure")
    /\ UNCHANGED safe

Fail(W) ==
    /\ status' = Set(W, "error")
    /\ UNCHANGED <<visible, limbo, safe>>

\* The process ends, by itself or not: what it wrote is still there, where that is sure.
Stop(kept) ==
    /\ \A w \in visible \ kept : status[w] = "unsure" /\ w \notin safe
    /\ limbo \subseteq kept
    /\ visible' = kept /\ limbo' = {}
    /\ status' = Set(Called, "dead")
    /\ UNCHANGED safe

\* Power is lost: everything not safe may go, each write for itself.
PowerLoss(kept) ==
    /\ safe \subseteq kept
    /\ visible' = kept /\ limbo' = {}
    /\ \E S \in SUBSET kept : safe \subseteq S /\ safe' = S
    /\ status' = Set(Called, "dead")

Next ==
    \/ \E w \in Writers : Call(w)
    \/ \E W \in SUBSET Called : Log(W) \/ Publish(W) \/ PublishUnsure(W) \/ Fail(W)
    \/ \E S \in SUBSET (visible \cup limbo) : Harden(S) \/ Stop(S) \/ PowerLoss(S)

Spec == Init /\ [][Next]_vars

-----------------------------------------------------------------------------
(* What follows from the promise for those who write *)

\* A write made with sync that has returned is seen from then on, whatever ends
\* the process (WriteOptions::sync), unless it is behind a failure in its log.
SyncedSeen == \A w \in Writers \cap SyncWriters : status[w] = "ok" => w \in visible

\* Nothing is seen, or comes to be seen, that nobody has asked to write: what
\* recovery brings back is a write that was called.
NothingInvented == \A w \in visible \cup limbo : w \in Writers /\ status[w] # "todo"

\* Writes are unsure only once one has been told that it failed.
UnsureBehindFailure ==
    \A w \in Writers : status[w] = "unsure" => \E v \in Writers : status[v] = "error"

\* What no loss of power could undo stays so, also through losses of power.
SafeStaysSafe == [][safe \subseteq safe']_vars
=============================================================================
