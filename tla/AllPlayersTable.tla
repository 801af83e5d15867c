--------------------------- MODULE AllPlayersTable ---------------------------
(***************************************************************************)
(* The table of all players.  Each visit pushes a new                      *)
(* AllPlayersTableViewController, but all of them share the roster's one   *)
(* FantasyIQController and so its allFantasyPlayers.  Each visit fetches   *)
(* the list; the answer replaces it on URLSession's queue, and the reload  *)
(* of the visit's own table is a block dispatched to the main queue.       *)
(* A table asks for its number of rows when it is laid out or reloaded,    *)
(* and indexes the list of the moment whenever a row scrolls in.           *)
(***************************************************************************)
EXTENDS Integers, Sequences, FiniteSets

CONSTANTS
  MaxVisits,   \* bound: how often the table is opened in one behaviour
  Lengths      \* the lengths of the lists FantasyPlayers answers with

ASSUME VisitsAssumption == MaxVisits \in Nat
ASSUME LengthsAssumption == Lengths \subseteq Nat

Visits == 1 .. MaxVisits
NotLaidOut == -1
Roster == 0      \* no visit: the roster is on screen

VARIABLES
  list,       \* allFantasyPlayers: the visit whose answer it is, and its length
  opened,     \* how many visits there have been
  visible,    \* the visit on screen, or Roster
  fetch,      \* fetch[v]: the FantasyPlayers task of visit v
  blocks,     \* the main queue's reload blocks, by visit
  rows,       \* rows[v]: the number of rows table v believes it has
  trapped     \* the index of a row was out of range and the process died

vars == <<list, opened, visible, fetch, blocks, rows, trapped>>

InQueue(v) == \E i \in DOMAIN blocks : blocks[i] = v

Init ==
  /\ list = [by |-> Roster, len |-> 0]
  /\ opened = 0
  /\ visible = Roster
  /\ fetch = [v \in Visits |-> "none"]
  /\ blocks = <<>>
  /\ rows = [v \in Visits |-> NotLaidOut]
  /\ trapped = FALSE

-----------------------------------------------------------------------------
\* The AddPlayer segue hands the controller over, and viewDidLoad fetches.
OpenTable ==
  /\ visible = Roster
  /\ opened < MaxVisits
  /\ opened' = opened + 1
  /\ visible' = opened'
  /\ fetch' = [fetch EXCEPT ![opened'] = "inflight"]
  /\ UNCHANGED <<list, blocks, rows, trapped>>

\* The first layout of a pushed table asks for numberOfRows.
LayOut ==
  /\ visible # Roster
  /\ rows[visible] = NotLaidOut
  /\ rows' = [rows EXCEPT ![visible] = list.len]
  /\ UNCHANGED <<list, opened, visible, fetch, blocks, trapped>>

\* A row scrolls in: cellForRowAt indexes the list as it is now.
Rows == IF visible = Roster THEN {} ELSE 0 .. rows[visible] - 1

ShowRow(i) ==
  /\ trapped' = (i >= list.len)
  /\ UNCHANGED <<list, opened, visible, fetch, blocks, rows>>

\* The add button pops the table (so does "back"); its fetch goes on.
CloseTable ==
  /\ visible # Roster
  /\ visible' = Roster
  /\ UNCHANGED <<list, opened, fetch, blocks, rows, trapped>>

\* MUTANT: the completion handler is not called after a decoding success.
FetchAnswered_NoCompletion(v) ==
  /\ fetch[v] = "inflight"
  /\ \E n \in Lengths : list' = [by |-> v, len |-> n]
  /\ fetch' = [fetch EXCEPT ![v] = "answered"]
  /\ UNCHANGED <<opened, visible, blocks, rows, trapped>>

\* MUTANT: the task is resumed again after its answer.
FetchAnswered_Repeats(v) ==
  /\ fetch[v] = "inflight"
  /\ \E n \in Lengths : list' = [by |-> v, len |-> n]
  /\ blocks' = IF InQueue(v) THEN blocks ELSE Append(blocks, v)
  /\ UNCHANGED <<opened, visible, fetch, rows, trapped>>

\* The list is replaced whole, then the reload is dispatched; the main thread
\* cannot tell the moment between the two from the one before the block runs.
FetchAnswered(v) ==
  /\ fetch[v] = "inflight"
  /\ \E n \in Lengths : list' = [by |-> v, len |-> n]
  /\ fetch' = [fetch EXCEPT ![v] = "answered"]
  /\ blocks' = Append(blocks, v)
  /\ UNCHANGED <<opened, visible, rows, trapped>>

\* MUTANT: both the error clause and the code after it call the completion.
FetchFails_Twice(v) ==
  /\ fetch[v] = "inflight"
  /\ fetch' = [fetch EXCEPT ![v] = "failed"]
  /\ blocks' = blocks \o <<v, v>>
  /\ UNCHANGED <<list, opened, visible, rows, trapped>>

\* On an error the list stays, and the table is reloaded all the same.
FetchFails(v) ==
  /\ fetch[v] = "inflight"
  /\ fetch' = [fetch EXCEPT ![v] = "failed"]
  /\ blocks' = Append(blocks, v)
  /\ UNCHANGED <<list, opened, visible, rows, trapped>>

\* MUTANT: the block reloads only a table that has not been laid out.
RunBlock_FirstOnly ==
  /\ blocks # <<>>
  /\ blocks' = Tail(blocks)
  /\ rows' = IF Head(blocks) = visible /\ rows[visible] = NotLaidOut
               THEN [rows EXCEPT ![visible] = list.len] ELSE rows
  /\ UNCHANGED <<list, opened, visible, fetch, trapped>>

\* reloadData of the block's own table; one that has left the screen lays out
\* nothing any more.
RunBlock ==
  /\ blocks # <<>>
  /\ blocks' = Tail(blocks)
  /\ rows' = IF Head(blocks) = visible THEN [rows EXCEPT ![visible] = list.len] ELSE rows
  /\ UNCHANGED <<list, opened, visible, fetch, trapped>>

Next ==
  /\ ~trapped
  /\ \/ OpenTable
     \/ LayOut
     \/ \E i \in Rows : ShowRow(i)
     \/ CloseTable
     \/ \E v \in Visits : FetchAnswered(v) \/ FetchFails(v)
     \/ RunBlock

\* URLSession ends every task; the main thread lays out what it shows and works
\* its queue off.  The user is free to stop.
Fairness ==
  /\ \A v \in Visits : WF_vars(~trapped /\ (FetchAnswered(v) \/ FetchFails(v)))
  /\ WF_vars(~trapped /\ LayOut)
  /\ WF_vars(~trapped /\ RunBlock)

Spec == Init /\ [][Next]_vars
FairSpec == Spec /\ Fairness

-----------------------------------------------------------------------------
(***************************************************************************)
(* Properties.                                                             *)
(***************************************************************************)

\* Every variable has its type, and each visit has one reload block at most.
TypeOK ==
  /\ list \in [by : {Roster} \cup Visits, len : Lengths \cup {0}]
  /\ opened \in 0 .. MaxVisits
  /\ visible \in 0 .. opened
  /\ fetch \in [Visits -> {"none", "inflight", "answered", "failed"}]
  /\ blocks \in Seq(Visits)
  /\ \A i, j \in DOMAIN blocks : blocks[i] = blocks[j] => i = j
  /\ rows \in [Visits -> {NotLaidOut, 0} \cup Lengths]
  /\ trapped \in BOOLEAN

\* The table and the list disagree only in two windows: the list was replaced by
\* the table's own fetch and the reload is still to run, or by another visit's.
OwnAnswerShown ==
  visible # Roster /\ rows[visible] \notin {NotLaidOut, list.len} =>
    InQueue(visible) \/ list.by # visible

\* A row out of range takes two visits: the first visit's table starts empty and
\* is reloaded by the answer that fills it.
FirstVisitSafe == trapped => opened >= 2

\* A table that stays on screen ends up with the rows of the list, unless the list
\* is another visit's answer.
TableSettles ==
  \A v \in Visits :
    visible = v ~> \/ visible # v \/ trapped
                   \/ rows[v] = list.len
                   \/ list.by # v

\* What the subscript allFantasyPlayers[indexPath.row] asserts: a row the table
\* shows is a position of the list.
RowInRange == ~trapped
=============================================================================
