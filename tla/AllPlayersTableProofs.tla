------------------------ MODULE AllPlayersTableProofs ------------------------
(***************************************************************************)
(* Theorems about AllPlayersTable, for any number of visits and any        *)
(* answers.                                                                *)
(***************************************************************************)
EXTENDS AllPlayersTable, TLAPS

\* What is typed about one visit; TypeOK adds that blocks are not repeated.
Types ==
  /\ list \in [by : {Roster} \cup Visits, len : Nat]
  /\ opened \in 0 .. MaxVisits
  /\ visible \in 0 .. opened
  /\ fetch \in [Visits -> {"none", "inflight", "answered", "failed"}]
  /\ blocks \in Seq(Visits)
  /\ rows \in [Visits -> {NotLaidOut} \cup Nat]
  /\ trapped \in BOOLEAN

\* A visit that has not begun has no fetch and no rows.
NotBegun == \A v \in Visits : v > opened => fetch[v] = "none" /\ rows[v] = NotLaidOut

\* Until the second visit the list is empty or the answer of the first, and the
\* first table has no more rows than the list.
FirstVisit ==
  opened <= 1 =>
    /\ (\A v \in Visits : fetch[v] # "answered") => list.len = 0
    /\ \A v \in Visits : rows[v] <= list.len
    /\ ~trapped

IInv == Types /\ NotBegun /\ FirstVisit /\ OwnAnswerShown

-----------------------------------------------------------------------------
\* The initial state satisfies the inductive invariant.
LEMMA InitIInv == Init => IInv
  <1> SUFFICES ASSUME Init PROVE IInv
    OBVIOUS
  <1> USE DEF Init
  <1>1. Types
    <2>1. list \in [by : {Roster} \cup Visits, len : Nat] /\ blocks \in Seq(Visits)
      OBVIOUS
    <2>2. opened \in 0 .. MaxVisits /\ visible \in 0 .. opened
      BY VisitsAssumption DEF Roster
    <2> QED
      BY <2>1, <2>2 DEF Types
  <1>2. NotBegun
    BY DEF NotBegun
  <1>3. FirstVisit /\ OwnAnswerShown
    BY DEF FirstVisit, OwnAnswerShown, NotLaidOut
  <1> QED
    BY <1>1, <1>2, <1>3 DEF IInv

\* Appending a block keeps those that are there; taking the first off keeps the others.
LEMMA BlockFacts ==
  ASSUME NEW s \in Seq(Visits), NEW v \in Visits
  PROVE  /\ Append(s, v) \in Seq(Visits)
         /\ \E i \in DOMAIN Append(s, v) : Append(s, v)[i] = v
         /\ \A u : (\E i \in DOMAIN s : s[i] = u) => \E i \in DOMAIN Append(s, v) : Append(s, v)[i] = u
         /\ s # <<>> => /\ Tail(s) \in Seq(Visits) /\ Head(s) \in Visits
                        /\ \A u : u # Head(s) /\ (\E i \in DOMAIN s : s[i] = u)
                                    => \E i \in DOMAIN Tail(s) : Tail(s)[i] = u
  <1>1. Append(s, v) \in Seq(Visits) /\ Len(Append(s, v)) = Len(s) + 1
        /\ Append(s, v)[Len(s) + 1] = v
        /\ \A i \in DOMAIN s : i \in DOMAIN Append(s, v) /\ Append(s, v)[i] = s[i]
    OBVIOUS
  <1>2. Len(s) + 1 \in DOMAIN Append(s, v)
    OBVIOUS
  <1>3. ASSUME s # <<>>
        PROVE  /\ Tail(s) \in Seq(Visits) /\ Head(s) \in Visits
               /\ \A u : u # Head(s) /\ (\E i \in DOMAIN s : s[i] = u)
                           => \E i \in DOMAIN Tail(s) : Tail(s)[i] = u
    <2>1. Tail(s) \in Seq(Visits) /\ Head(s) \in Visits /\ Head(s) = s[1]
      BY <1>3
    <2>2. \A i \in DOMAIN s : i # 1 => i - 1 \in DOMAIN Tail(s) /\ Tail(s)[i - 1] = s[i]
      BY <1>3
    <2> QED
      BY <2>1, <2>2
  <1> QED
    BY <1>1, <1>2, <1>3

\* Every action preserves it.
LEMMA NextStep == ASSUME IInv, [Next]_vars PROVE IInv'
  <1> USE VisitsAssumption, LengthsAssumption DEF IInv
  <1>1. CASE OpenTable
    BY <1>1 DEF OpenTable, Types, NotBegun, FirstVisit, OwnAnswerShown, Visits, Roster, NotLaidOut
  <1>2. CASE LayOut
    BY <1>2 DEF LayOut, Types, NotBegun, FirstVisit, OwnAnswerShown, Visits, Roster, NotLaidOut
  <1>3. ASSUME ~trapped, NEW i \in Rows, ShowRow(i) PROVE IInv'
    BY <1>3 DEF ShowRow, Rows, Types, NotBegun, FirstVisit, OwnAnswerShown, InQueue, Visits, Roster, NotLaidOut
  <1>4. CASE CloseTable
    BY <1>4 DEF CloseTable, Types, NotBegun, FirstVisit, OwnAnswerShown, Visits, Roster, NotLaidOut
  <1>5. ASSUME NEW v \in Visits, FetchAnswered(v) PROVE IInv'
    <2>1. /\ Append(blocks, v) \in Seq(Visits)
          /\ \E i \in DOMAIN Append(blocks, v) : Append(blocks, v)[i] = v
      BY BlockFacts DEF Types
    <2>2. Types'
      <3>1. list' \in [by : {Roster} \cup Visits, len : Nat]
        BY <1>5 DEF FetchAnswered
      <3>2. fetch' \in [Visits -> {"none", "inflight", "answered", "failed"}]
        BY <1>5 DEF FetchAnswered, Types
      <3> QED
        BY <1>5, <2>1, <3>1, <3>2 DEF FetchAnswered, Types
    <2>3. NotBegun'
      BY <1>5 DEF FetchAnswered, Types, NotBegun
    <2>4. FirstVisit'
      <3>1. ASSUME opened <= 1 PROVE /\ list.len = 0 /\ ~trapped
                                     /\ \A u \in Visits : rows[u] <= 0
        BY <1>5, <3>1 DEF FetchAnswered, Types, NotBegun, FirstVisit, Visits
      <3> QED
        BY <1>5, <3>1 DEF FetchAnswered, Types, FirstVisit, NotLaidOut
    <2>5. OwnAnswerShown'
      BY <1>5, <2>1 DEF FetchAnswered, OwnAnswerShown, InQueue
    <2> QED
      BY <2>2, <2>3, <2>4, <2>5
  <1>6. ASSUME NEW v \in Visits, FetchFails(v) PROVE IInv'
    <2>1. Append(blocks, v) \in Seq(Visits)
      BY BlockFacts DEF Types
    <2>2. InQueue(visible) => InQueue(visible)'
      <3>1. blocks' = Append(blocks, v) /\ visible' = visible
        BY <1>6 DEF FetchFails
      <3>2. blocks \in Seq(Visits)
        BY DEF Types
      <3> QED
        BY <3>1, <3>2, BlockFacts DEF InQueue
    <2>3. Types' /\ NotBegun'
      BY <1>6, <2>1 DEF FetchFails, Types, NotBegun
    <2>4. FirstVisit'
      BY <1>6 DEF FetchFails, Types, FirstVisit
    <2>5. OwnAnswerShown'
      BY <1>6, <2>2 DEF FetchFails, OwnAnswerShown
    <2> QED
      BY <2>3, <2>4, <2>5
  <1>7. CASE RunBlock
    <2>0. /\ blocks # <<>> /\ blocks \in Seq(Visits)
          /\ blocks' = Tail(blocks) /\ visible' = visible
      BY <1>7 DEF RunBlock, Types
    <2>a. PICK v \in Visits : v = Head(blocks)
      BY <2>0
    <2>1. /\ Tail(blocks) \in Seq(Visits) /\ Head(blocks) \in Visits
          /\ Head(blocks) # visible /\ InQueue(visible) => InQueue(visible)'
      BY <2>0, <2>a, BlockFacts DEF InQueue
    <2>2. Types'
      BY <1>7, <2>1 DEF RunBlock, Types
    <2>3. NotBegun'
      BY <1>7, <2>1 DEF RunBlock, Types, NotBegun, Visits
    <2>4. FirstVisit'
      BY <1>7, <2>1 DEF RunBlock, Types, FirstVisit
    <2>5. OwnAnswerShown'
      BY <1>7, <2>1 DEF RunBlock, Types, OwnAnswerShown, InQueue
    <2> QED
      BY <2>2, <2>3, <2>4, <2>5
  <1>8. CASE UNCHANGED vars
    BY <1>8 DEF vars, Types, NotBegun, FirstVisit, OwnAnswerShown, InQueue, Rows
  <1> QED
    BY <1>1, <1>2, <1>3, <1>4, <1>5, <1>6, <1>7, <1>8 DEF Next

\* The inductive invariant holds in every reachable state.
LEMMA Inductive == Spec => []IInv
  BY InitIInv, NextStep, PTL DEF Spec

-----------------------------------------------------------------------------
\* A visit's block is queued once its fetch has ended.
Called == \A i \in DOMAIN blocks : fetch[blocks[i]] \in {"answered", "failed"}

\* A block that is not there yet is the only one of its visit when appended.
LEMMA AppendApart ==
  ASSUME NEW s \in Seq(Visits), \A i, j \in DOMAIN s : s[i] = s[j] => i = j,
         NEW v \in Visits, \A i \in DOMAIN s : s[i] # v
  PROVE  \A i, j \in DOMAIN Append(s, v) : Append(s, v)[i] = Append(s, v)[j] => i = j
  OBVIOUS

\* Taking the first block off leaves blocks that were there, none of them twice.
LEMMA TailApart ==
  ASSUME NEW s \in Seq(Visits), \A i, j \in DOMAIN s : s[i] = s[j] => i = j, s # <<>>
  PROVE  /\ \A i, j \in DOMAIN Tail(s) : Tail(s)[i] = Tail(s)[j] => i = j
         /\ \A i \in DOMAIN Tail(s) : \E j \in DOMAIN s : Tail(s)[i] = s[j]
  <1>1. \A i \in DOMAIN Tail(s) : i + 1 \in DOMAIN s /\ Tail(s)[i] = s[i + 1]
    OBVIOUS
  <1>2. \A i \in DOMAIN Tail(s) : i \in Nat
    OBVIOUS
  <1> QED
    BY <1>1, <1>2

\* The types are preserved, and so is that a block follows its fetch.
LEMMA TypesStep == ASSUME IInv, TypeOK, Called, [Next]_vars PROVE TypeOK' /\ Called'
  <1> USE VisitsAssumption, LengthsAssumption
  <1>1. CASE OpenTable
    <2>1. fetch[opened + 1] = "none" /\ opened + 1 \in Visits
      BY <1>1 DEF OpenTable, IInv, NotBegun, Visits, TypeOK
    <2> QED
      BY <1>1, <2>1 DEF OpenTable, TypeOK, Called, Visits, Roster
  <1>2. CASE LayOut
    BY <1>2 DEF LayOut, TypeOK, Called, Visits, Roster
  <1>3. ASSUME NEW i \in Rows, ShowRow(i) PROVE TypeOK' /\ Called'
    BY <1>3 DEF ShowRow, TypeOK, Called
  <1>4. CASE CloseTable
    BY <1>4 DEF CloseTable, TypeOK, Called, Roster
  <1>5. ASSUME NEW v \in Visits, FetchAnswered(v) \/ FetchFails(v) PROVE TypeOK' /\ Called'
    <2>1. /\ blocks \in Seq(Visits) /\ blocks' = Append(blocks, v)
          /\ \A i \in DOMAIN blocks : blocks[i] # v
      BY <1>5 DEF FetchAnswered, FetchFails, TypeOK, Called
    <2>2. /\ blocks' \in Seq(Visits)
          /\ \A i, j \in DOMAIN blocks' : blocks'[i] = blocks'[j] => i = j
      BY <2>1, AppendApart, BlockFacts DEF TypeOK
    <2>3. list' \in [by : {Roster} \cup Visits, len : Lengths \cup {0}]
      BY <1>5 DEF FetchAnswered, FetchFails, TypeOK
    <2>4. /\ fetch' \in [Visits -> {"none", "inflight", "answered", "failed"}]
          /\ fetch'[v] \in {"answered", "failed"}
          /\ \A u \in Visits : u # v => fetch'[u] = fetch[u]
          /\ UNCHANGED <<opened, visible, rows, trapped>>
      BY <1>5 DEF FetchAnswered, FetchFails, TypeOK
    <2>5. \A i \in DOMAIN blocks' : blocks'[i] = v \/ (i \in DOMAIN blocks /\ blocks'[i] = blocks[i])
      BY <2>1
    <2>6. Called'
      BY <2>1, <2>2, <2>4, <2>5 DEF Called
    <2> QED
      BY <2>2, <2>3, <2>4, <2>6 DEF TypeOK
  <1>6. CASE RunBlock
    <2>1. blocks \in Seq(Visits) /\ blocks # <<>> /\ blocks' = Tail(blocks) /\ fetch' = fetch
      BY <1>6 DEF RunBlock, TypeOK
    <2>2. blocks' \in Seq(Visits)
      BY <2>1
    <2>5. /\ \A i, j \in DOMAIN blocks' : blocks'[i] = blocks'[j] => i = j
          /\ \A i \in DOMAIN blocks' : \E j \in DOMAIN blocks : blocks'[i] = blocks[j]
      BY <2>1, TailApart DEF TypeOK
    <2>3. Called'
      BY <2>1, <2>5 DEF Called
    <2>4. rows' \in [Visits -> {NotLaidOut, 0} \cup Lengths]
      BY <1>6 DEF RunBlock, TypeOK
    <2> QED
      BY <1>6, <2>2, <2>3, <2>4, <2>5 DEF RunBlock, TypeOK
  <1>7. CASE UNCHANGED vars
    BY <1>7 DEF vars, TypeOK, Called
  <1> QED
    BY <1>1, <1>2, <1>3, <1>4, <1>5, <1>6, <1>7 DEF Next

\* No visit has two reloads on the main queue, whatever was opened and closed.
THEOREM TypeCorrect == Spec => []TypeOK
  <1>1. ASSUME Init PROVE TypeOK /\ Called
    <2>1. /\ list \in [by : {Roster} \cup Visits, len : Lengths \cup {0}]
          /\ opened \in 0 .. MaxVisits /\ visible \in 0 .. opened
      BY <1>1, VisitsAssumption DEF Init, Roster
    <2>2. /\ fetch = [v \in Visits |-> "none"] /\ rows = [v \in Visits |-> NotLaidOut]
          /\ blocks = <<>> /\ trapped = FALSE
      BY <1>1 DEF Init
    <2>3. /\ fetch \in [Visits -> {"none", "inflight", "answered", "failed"}]
          /\ rows \in [Visits -> {NotLaidOut, 0} \cup Lengths]
      BY <2>2
    <2>4. blocks \in Seq(Visits) /\ \A i \in DOMAIN blocks : FALSE
      BY <2>2
    <2> QED
      BY <2>1, <2>2, <2>3, <2>4 DEF TypeOK, Called
  <1>2. [](IInv /\ (TypeOK /\ Called)) => []TypeOK
    BY PTL
  <1> QED
    BY <1>1, <1>2, Inductive, TypesStep, PTL DEF Spec

\* A table and the list disagree only while the reload of the table's own answer
\* is on its way, or once another visit's answer has replaced the list.
THEOREM StaleRowsExplained == Spec => []OwnAnswerShown
  <1>1. IInv => OwnAnswerShown
    BY DEF IInv
  <1> QED
    BY <1>1, Inductive, PTL

\* The first visit never indexes the list out of range.
THEOREM FirstVisitIsSafe == Spec => []FirstVisitSafe
  <1>1. IInv => FirstVisitSafe
    BY DEF IInv, Types, FirstVisit, FirstVisitSafe
  <1> QED
    BY <1>1, Inductive, PTL
=============================================================================
