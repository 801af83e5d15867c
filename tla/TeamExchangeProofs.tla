-------------------------- MODULE TeamExchangeProofs --------------------------
(***************************************************************************)
(* Theorems about TeamExchange, for any number of devices, teams, writes,  *)
(* lost connections, relaunches and refusals.                              *)
(***************************************************************************)
EXTENDS TeamExchange, FiniteSetTheorems, SequenceTheorems, TLAPS

Requests == {Listen} \cup {Put(w) : w \in Writes}
Answers == [write : Writes, ok : BOOLEAN]
Messages ==
  [kind : {"tree"}, tree : Trees] \cup [kind : {"listenAnswer"}, ok : BOOLEAN]
    \cup [kind : {"change"}, write : Writes] \cup [kind : {"putAnswer"}, write : Writes, ok : BOOLEAN]

\* What TypeOK says but for the bound on unacked and the caches (Caches below), and the
\* types of the wires.
Types ==
  /\ conn \in [Devices -> {"disconnected", "connected"}]
  /\ observers \in [Devices -> 0 .. MaxObservers]
  /\ unacked \in [Devices -> Int]
  /\ puts \in [Devices -> SUBSET [write : Writes, sent : BOOLEAN]]
  /\ \A d \in Devices : IsFiniteSet(puts[d])
  /\ putsToAck \in [Devices -> Seq(Answers)]
  /\ allWrites \in [Devices -> SUBSET Writes]
  /\ receivedTeam \in [Devices -> Teams \cup {NoWrite}]
  /\ requests \in [Devices -> Seq(Requests)]
  /\ responses \in [Devices -> Seq(Messages)]
  /\ listening \subseteq Devices
  /\ db \in Trees
  /\ issued \in [Devices -> Nat]
  /\ acked \in [Devices -> SUBSET Writes]

IsListen(d, i) == i \in DOMAIN requests[d] /\ requests[d][i].kind = "listen"
IsPut(d, i) == i \in DOMAIN requests[d] /\ requests[d][i].kind = "put"
IsListenAnswer(d, k) == k \in DOMAIN responses[d] /\ responses[d][k].kind = "listenAnswer"
IsPutAnswer(d, k) == k \in DOMAIN responses[d] /\ responses[d][k].kind = "putAnswer"

\* Nothing comes in without a connection.  A connection has one listen at most, sent or
\* answered, and it is counted; what is held back waits for it.
ListenInv(d) ==
  /\ conn[d] = "disconnected" => unacked[d] = 0 /\ responses[d] = <<>> /\ d \notin listening
  /\ conn[d] = "connected" =>
       /\ \A i, j : IsListen(d, i) /\ IsListen(d, j) => i = j
       /\ \A k, l : IsListenAnswer(d, k) /\ IsListenAnswer(d, l) => k = l
       /\ \A i, k : ~(IsListen(d, i) /\ IsListenAnswer(d, k))
       /\ unacked[d] = 0 => \A i : ~IsListen(d, i) /\ ~IsListenAnswer(d, i)
  /\ unacked[d] \in 0 .. 1
  /\ unacked[d] = 1 => observers[d] > 0
  /\ putsToAck[d] # <<>> => observers[d] > 0 /\ (conn[d] = "connected" => unacked[d] = 1)

\* The writes whose answer the device has read.
Read(d) == acked[d] \cup {putsToAck[d][k].write : k \in DOMAIN putsToAck[d]}

\* A device sends, and is answered, its own writes, of those it has issued.
OwnInv(d) ==
  /\ \A i : IsPut(d, i) => requests[d][i].write.dev = d /\ requests[d][i].write.n <= issued[d]
  /\ \A k : IsPutAnswer(d, k) => responses[d][k].write.dev = d /\ responses[d][k].write.n <= issued[d]
  /\ \A p \in puts[d] : p.write.dev = d /\ p.write.n <= issued[d]
  /\ \A w \in Read(d) : w.n <= issued[d]

\* Along the way from the device to the server and back the numbers fall: what is
\* read is older than what is answered, and that older than what is requested.
OrderInv(d) ==
  /\ \A i, j : IsPut(d, i) /\ IsPut(d, j) /\ i < j => requests[d][i].write.n < requests[d][j].write.n
  /\ \A k, l : IsPutAnswer(d, k) /\ IsPutAnswer(d, l) /\ k < l =>
                 responses[d][k].write.n < responses[d][l].write.n
  /\ \A k, i : IsPutAnswer(d, k) /\ IsPut(d, i) => responses[d][k].write.n < requests[d][i].write.n
  /\ \A w \in Read(d) :
       /\ \A i : IsPut(d, i) => w.n < requests[d][i].write.n
       /\ \A k : IsPutAnswer(d, k) => w.n < responses[d][k].write.n
       /\ \A p \in puts[d] : w.n < p.write.n

\* With a connection every outstanding put is requested or answered.
CoverInv(d) ==
  conn[d] = "connected" =>
    \A p \in puts[d] :
      \/ \E i : IsPut(d, i) /\ requests[d][i].write = p.write
      \/ \E k : IsPutAnswer(d, k) /\ responses[d][k].write = p.write

\* A tree holds no older write of device d than w.
Stands(tree, d, w) == tree[w.team] # NoWrite /\ tree[w.team].dev = d => tree[w.team].n >= w.n

\* That is so of every write it has applied and answered.
StandInv(d) ==
  /\ \A w \in acked[d] : Stands(db, d, w)
  /\ \A k \in DOMAIN putsToAck[d] : putsToAck[d][k].ok => Stands(db, d, putsToAck[d][k].write)
  /\ \A k : IsPutAnswer(d, k) /\ responses[d][k].ok => Stands(db, d, responses[d][k].write)

DeviceInv(d) == ListenInv(d) /\ OwnInv(d) /\ OrderInv(d) /\ CoverInv(d) /\ StandInv(d)

IInv == Types /\ \A d \in Devices : DeviceInv(d)

-----------------------------------------------------------------------------
\* Positions of a sequence with an element appended, and without its first one.
LEMMA AppendPositions ==
  ASSUME NEW S, NEW s \in Seq(S), NEW e \in S
  PROVE  /\ Append(s, e) \in Seq(S)
         /\ \A i : i \in DOMAIN Append(s, e) <=> i \in DOMAIN s \/ i = Len(s) + 1
         /\ \A i \in DOMAIN s : Append(s, e)[i] = s[i] /\ i \in Nat /\ i < Len(s) + 1
         /\ Append(s, e)[Len(s) + 1] = e
         /\ Len(s) \in Nat
  <1>1. /\ Append(s, e) \in Seq(S) /\ Len(s) \in Nat /\ DOMAIN s = 1 .. Len(s)
        /\ DOMAIN Append(s, e) = 1 .. Len(s) + 1
    OBVIOUS
  <1>2. \A i : i \in 1 .. Len(s) + 1 <=> i \in 1 .. Len(s) \/ i = Len(s) + 1
    BY <1>1
  <1>3. \A i \in 1 .. Len(s) : Append(s, e)[i] = s[i] /\ i \in Nat /\ i < Len(s) + 1
    OBVIOUS
  <1> QED
    BY <1>1, <1>2, <1>3

\* What is left of a sequence without its head, position by position.
LEMMA TailPositions ==
  ASSUME NEW S, NEW s \in Seq(S), s # <<>>
  PROVE  /\ Tail(s) \in Seq(S)
         /\ Head(s) = s[1] /\ 1 \in DOMAIN s
         /\ \A i \in DOMAIN Tail(s) : i \in Nat /\ i >= 1 /\ i + 1 \in DOMAIN s /\ Tail(s)[i] = s[i + 1]
         /\ \A i \in DOMAIN s : i \in Nat /\ i >= 1
         /\ \A i \in DOMAIN s : i # 1 => i - 1 \in DOMAIN Tail(s) /\ Tail(s)[i - 1] = s[i]
  OBVIOUS

\* Positions of one sequence behind another.
LEMMA ConcatPositions ==
  ASSUME NEW S, NEW s \in Seq(S), NEW t \in Seq(S)
  PROVE  /\ s \o t \in Seq(S)
         /\ DOMAIN (s \o t) = 1 .. Len(s) + Len(t)
         /\ \A i \in 1 .. Len(s) + Len(t) : (s \o t)[i] = IF i <= Len(s) THEN s[i] ELSE t[i - Len(s)]
  <1>1. s \o t \in Seq(S) /\ Len(s \o t) = Len(s) + Len(t)
    BY ConcatProperties
  <1>2. \A i \in 1 .. Len(s) + Len(t) : (s \o t)[i] = IF i <= Len(s) THEN s[i] ELSE t[i - Len(s)]
    BY ConcatProperties, Zenon
  <1>3. DOMAIN (s \o t) = 1 .. Len(s \o t)
    BY <1>1
  <1> QED
    BY <1>1, <1>2, <1>3

\* What the records on the wires are made of.
LEMMA RequestFacts ==
  /\ \A r \in Requests : r.kind \in {"listen", "put"} /\ (r.kind = "put" => r.write \in Writes)
  /\ Listen \in Requests /\ Listen.kind = "listen"
  /\ \A w \in Writes : Put(w) \in Requests /\ Put(w).kind = "put" /\ Put(w).write = w
  <1>1. Listen \in Requests /\ Listen.kind = "listen"
    BY DEF Requests, Listen
  <1>2. ASSUME NEW w \in Writes
        PROVE  Put(w) \in Requests /\ Put(w).kind = "put" /\ Put(w).write = w
    BY DEF Requests, Put
  <1>3. ASSUME NEW r \in Requests
        PROVE  r.kind \in {"listen", "put"} /\ (r.kind = "put" => r.write \in Writes)
    <2>1. r = Listen \/ \E w \in Writes : r = Put(w)
      BY DEF Requests
    <2>2. "listen" # "put"
      OBVIOUS
    <2> QED
      BY <2>1, <2>2, <1>1, <1>2
  <1> QED
    BY <1>1, <1>2, <1>3

\* What each kind of message carries.
LEMMA MessageFacts ==
  \A m \in Messages :
    /\ m.kind \in {"tree", "listenAnswer", "change", "putAnswer"}
    /\ m.kind = "tree" => m.tree \in Trees
    /\ m.kind = "change" => m.write \in Writes
    /\ m.kind = "putAnswer" => m.write \in Writes /\ m.ok \in BOOLEAN
  BY DEF Messages

\* The fields of a write.
LEMMA WriteFacts ==
  /\ \A w \in Writes : w.dev \in Devices /\ w.n \in Nat /\ w.team \in Teams /\ w # NoWrite
  /\ \A d \in Devices, n \in Nat, t \in Teams : [dev |-> d, n |-> n, team |-> t] \in Writes
  BY NoWriteAssumption DEF Writes

\* Types of the writes that are on their way.
LEMMA TypeFacts ==
  ASSUME Types, NEW d \in Devices
  PROVE  /\ \A i : IsPut(d, i) => requests[d][i].write \in Writes /\ i \in Nat
         /\ \A k : IsPutAnswer(d, k) => responses[d][k].write \in Writes /\ k \in Nat
         /\ \A k \in DOMAIN putsToAck[d] : putsToAck[d][k].write \in Writes
         /\ \A p \in puts[d] : p.write \in Writes
         /\ \A w \in Read(d) : w \in Writes
  <1>1. /\ requests[d] \in Seq(Requests) /\ responses[d] \in Seq(Messages)
        /\ putsToAck[d] \in Seq(Answers)
        /\ puts[d] \in SUBSET [write : Writes, sent : BOOLEAN]
        /\ acked[d] \in SUBSET Writes
    BY DEF Types
  <1>2. \A i : IsPut(d, i) => requests[d][i].write \in Writes /\ i \in Nat
    BY <1>1, RequestFacts DEF IsPut
  <1>3. \A k : IsPutAnswer(d, k) => responses[d][k].write \in Writes /\ k \in Nat
    BY <1>1, MessageFacts DEF IsPutAnswer
  <1>4. \A k \in DOMAIN putsToAck[d] : putsToAck[d][k].write \in Writes
    <2>1. \A k \in DOMAIN putsToAck[d] : putsToAck[d][k] \in Answers
      BY <1>1
    <2>2. \A a \in Answers : a.write \in Writes
      BY DEF Answers
    <2> QED
      BY <2>1, <2>2
  <1>5. \A p \in puts[d] : p.write \in Writes
    BY <1>1
  <1> QED
    BY <1>1, <1>2, <1>3, <1>4, <1>5 DEF Read

\* A request put behind the others, and the first request taken.
LEMMA RequestAppended ==
  ASSUME Types, NEW d \in Devices, NEW r \in Requests,
         requests' = [requests EXCEPT ![d] = Append(@, r)]
  PROVE  LET last == Len(requests[d]) + 1
         IN /\ requests' \in [Devices -> Seq(Requests)]
            /\ \A i : IsListen(d, i)' <=> IsListen(d, i) \/ (i = last /\ r.kind = "listen")
            /\ \A i : IsPut(d, i)' <=> IsPut(d, i) \/ (i = last /\ r.kind = "put")
            /\ \A i \in DOMAIN requests[d] : requests'[d][i] = requests[d][i] /\ i \in Nat /\ i < last
            /\ requests'[d][last] = r /\ last \in Nat
            /\ \A i : IsPut(d, i) => requests[d][i].write \in Writes
  <1>1. requests[d] \in Seq(Requests) /\ requests'[d] = Append(requests[d], r)
    BY DEF Types
  <1>2. requests' \in [Devices -> Seq(Requests)]
    BY <1>1, AppendPositions DEF Types
  <1>3. \A i \in DOMAIN requests[d] : requests[d][i] \in Requests
    BY <1>1
  <1> QED
    BY <1>1, <1>2, <1>3, AppendPositions, RequestFacts DEF IsListen, IsPut

\* What remains of the requests once the server has taken the first.
LEMMA RequestTaken ==
  ASSUME Types, NEW d \in Devices, requests[d] # <<>>, TakeRequest(d)
  PROVE  /\ requests' \in [Devices -> Seq(Requests)]
         /\ requests[d][1] = Head(requests[d]) /\ Head(requests[d]) \in Requests
         /\ IsPut(d, 1) <=> Head(requests[d]).kind = "put"
         /\ IsListen(d, 1) <=> Head(requests[d]).kind = "listen"
         /\ \A i : IsPut(d, i)' => /\ i \in Nat /\ i >= 1 /\ IsPut(d, i + 1)
                                   /\ requests'[d][i] = requests[d][i + 1]
         /\ \A i : IsListen(d, i)' => i \in Nat /\ i >= 1 /\ IsListen(d, i + 1)
         /\ \A i : IsPut(d, i) /\ i # 1 => IsPut(d, i - 1)' /\ requests'[d][i - 1] = requests[d][i]
         /\ \A i : IsPut(d, i) => i \in Nat /\ requests[d][i].write \in Writes
  <1>1. requests[d] \in Seq(Requests) /\ requests'[d] = Tail(requests[d])
    BY DEF Types, TakeRequest
  <1>2. requests' \in [Devices -> Seq(Requests)]
    BY <1>1, TailPositions DEF Types, TakeRequest
  <1>3. \A i \in DOMAIN requests[d] : requests[d][i] \in Requests
    BY <1>1
  <1> QED
    BY <1>1, <1>2, <1>3, TailPositions, RequestFacts DEF IsListen, IsPut

\* A message behind the others, and the first message taken.
LEMMA ResponseAppended ==
  ASSUME NEW d \in Devices, NEW s \in Seq(Messages), NEW m \in Messages,
         responses'[d] = Append(s, m)
  PROVE  LET last == Len(s) + 1
         IN /\ responses'[d] \in Seq(Messages)
            /\ \A k : IsListenAnswer(d, k)' <=>
                        (k \in DOMAIN s /\ s[k].kind = "listenAnswer") \/ (k = last /\ m.kind = "listenAnswer")
            /\ \A k : IsPutAnswer(d, k)' <=>
                        (k \in DOMAIN s /\ s[k].kind = "putAnswer") \/ (k = last /\ m.kind = "putAnswer")
            /\ \A k \in DOMAIN s : responses'[d][k] = s[k] /\ k \in Nat /\ k < last /\ s[k] \in Messages
            /\ responses'[d][last] = m /\ last \in Nat
  BY AppendPositions DEF IsListenAnswer, IsPutAnswer

\* What remains of the responses once the client has read the first.
LEMMA ResponseTaken ==
  ASSUME Types, NEW d \in Devices, NEW kind, TakeResponse(d, kind)
  PROVE  /\ responses' \in [Devices -> Seq(Messages)]
         /\ responses[d] # <<>> /\ responses[d][1] = Head(responses[d])
         /\ Head(responses[d]) \in Messages /\ Head(responses[d]).kind = kind
         /\ IsPutAnswer(d, 1) <=> kind = "putAnswer"
         /\ IsListenAnswer(d, 1) <=> kind = "listenAnswer"
         /\ \A k : IsPutAnswer(d, k)' => /\ k \in Nat /\ k >= 1 /\ IsPutAnswer(d, k + 1)
                                         /\ responses'[d][k] = responses[d][k + 1]
         /\ \A k : IsListenAnswer(d, k)' => k \in Nat /\ k >= 1 /\ IsListenAnswer(d, k + 1)
         /\ \A k : IsPutAnswer(d, k) /\ k # 1 =>
                     IsPutAnswer(d, k - 1)' /\ responses'[d][k - 1] = responses[d][k]
         /\ \A k : IsPutAnswer(d, k) => k \in Nat /\ k >= 1 /\ responses[d][k].write \in Writes
         /\ \A e \in Devices : e # d => responses'[e] = responses[e]
  <1>1. /\ responses[d] \in Seq(Messages) /\ responses'[d] = Tail(responses[d]) /\ responses[d] # <<>>
        /\ Head(responses[d]).kind = kind
    BY DEF Types, TakeResponse
  <1>2. /\ responses' \in [Devices -> Seq(Messages)]
        /\ \A e \in Devices : e # d => responses'[e] = responses[e]
    BY <1>1, TailPositions DEF Types, TakeResponse
  <1>3. \A k \in DOMAIN responses[d] : responses[d][k] \in Messages
    BY <1>1
  <1> QED
    BY <1>1, <1>2, <1>3, TailPositions, MessageFacts DEF IsListenAnswer, IsPutAnswer

-----------------------------------------------------------------------------
\* The initial state satisfies the inductive invariant.
LEMMA InitIInv == Init => IInv
  <1> SUFFICES ASSUME Init PROVE IInv
    OBVIOUS
  <1> USE DEF Init
  <1>1. Types
    <2>1. \A d \in Devices : IsFiniteSet(puts[d])
      BY FS_EmptySet
    <2>2. observers \in [Devices -> 0 .. MaxObservers]
      BY BoundsAssumption
    <2>3. db \in Trees
      BY DEF Trees
    <2> QED
      BY <2>1, <2>2, <2>3 DEF Types
  <1>2. ASSUME NEW d \in Devices PROVE DeviceInv(d)
    <2>1. \A i : ~IsListen(d, i) /\ ~IsPut(d, i) /\ ~IsListenAnswer(d, i) /\ ~IsPutAnswer(d, i)
      BY DEF IsListen, IsPut, IsListenAnswer, IsPutAnswer
    <2>2. /\ puts[d] = {} /\ acked[d] = {} /\ putsToAck[d] = <<>> /\ conn[d] = "disconnected"
          /\ unacked[d] = 0 /\ responses[d] = <<>> /\ d \notin listening
      OBVIOUS
    <2> HIDE DEF Init
    <2>3. Read(d) = {}
      BY <2>2 DEF Read
    <2> QED
      BY <2>1, <2>2, <2>3 DEF DeviceInv, ListenInv, OwnInv, OrderInv, CoverInv, StandInv
  <1> QED
    BY <1>1, <1>2 DEF IInv

-----------------------------------------------------------------------------
\* A step of another device or of the server for it: nothing of this device changes, but
\* that the server may tell it of a change of the tree.
LEMMA OtherDevice ==
  ASSUME Types, NEW e \in Devices, DeviceInv(e),
         conn'[e] = conn[e], observers'[e] = observers[e], unacked'[e] = unacked[e],
         puts'[e] = puts[e], putsToAck'[e] = putsToAck[e], requests'[e] = requests[e],
         issued'[e] = issued[e], acked'[e] = acked[e],
         e \in listening' <=> e \in listening,
         \/ responses'[e] = responses[e]
         \/ /\ e \in listening
            /\ \E w \in Writes : responses'[e] = Append(responses[e], [kind |-> "change", write |-> w]),
         \A t \in Teams : db'[t] = db[t] \/ (db'[t] # NoWrite /\ db'[t].dev # e)
  PROVE  DeviceInv(e)'
  <1>1. /\ \A i : IsListen(e, i)' = IsListen(e, i)
        /\ \A i : IsPut(e, i)' = IsPut(e, i)
    BY DEF IsListen, IsPut
  <1>2. /\ \A k : IsListenAnswer(e, k)' <=> IsListenAnswer(e, k)
        /\ \A k : IsPutAnswer(e, k)' <=> IsPutAnswer(e, k)
        /\ \A k : IsPutAnswer(e, k) => /\ responses'[e][k] = responses[e][k]
                                       /\ responses[e][k].write \in Writes
        /\ e \notin listening => responses'[e] = responses[e]
    <2>1. /\ responses[e] \in Seq(Messages)
          /\ \A k \in DOMAIN responses[e] : responses[e][k] \in Messages
      BY DEF Types
    <2>2. CASE responses'[e] = responses[e]
      BY <2>1, <2>2, MessageFacts DEF IsListenAnswer, IsPutAnswer
    <2>3. ASSUME e \in listening, NEW w \in Writes,
                 responses'[e] = Append(responses[e], [kind |-> "change", write |-> w])
          PROVE  /\ \A k : IsListenAnswer(e, k)' <=> IsListenAnswer(e, k)
                 /\ \A k : IsPutAnswer(e, k)' <=> IsPutAnswer(e, k)
                 /\ \A k : IsPutAnswer(e, k) => /\ responses'[e][k] = responses[e][k]
                                                /\ responses[e][k].write \in Writes
      <3>1. [kind |-> "change", write |-> w] \in Messages
        BY DEF Messages
      <3>2. [kind |-> "change", write |-> w].kind = "change"
        OBVIOUS
      <3> QED
        BY <2>1, <2>3, <3>1, <3>2, ResponseAppended, MessageFacts DEF IsListenAnswer, IsPutAnswer
    <2> QED
      BY <2>2, <2>3
  <1>3. Read(e)' = Read(e)
    BY DEF Read
  <1>4. \A w \in Writes : Stands(db, e, w) => Stands(db', e, w)
    BY WriteFacts DEF Stands
  <1>5. /\ acked[e] \subseteq Writes
        /\ \A k \in DOMAIN putsToAck[e] : putsToAck[e][k].write \in Writes
    BY TypeFacts DEF Types
  <1>6. ListenInv(e)'
    BY <1>1, <1>2 DEF DeviceInv, ListenInv, Types
  <1>7. OwnInv(e)'
    BY <1>1, <1>2, <1>3 DEF DeviceInv, OwnInv
  <1>8. OrderInv(e)'
    BY <1>1, <1>2, <1>3 DEF DeviceInv, OrderInv
  <1>9. CoverInv(e)'
    BY <1>1, <1>2 DEF DeviceInv, CoverInv
  <1>10. StandInv(e)'
    BY <1>1, <1>2, <1>4, <1>5 DEF DeviceInv, StandInv
  <1> QED
    BY <1>6, <1>7, <1>8, <1>9, <1>10 DEF DeviceInv

\* A write is put behind the outstanding ones and, with a connection, requested.
LEMMA SetValueStep ==
  ASSUME IInv, NEW d \in Devices, NEW t \in Teams, SetValue(d, t)
  PROVE  IInv'
  <1> DEFINE n == issued[d] + 1
             w == [dev |-> d, n |-> n, team |-> t]
             up == conn[d] = "connected"
             p == [write |-> w, sent |-> up]
  <1>1. /\ issued' = [issued EXCEPT ![d] = n]
        /\ allWrites' = [allWrites EXCEPT ![d] = @ \cup {w}]
        /\ puts' = [puts EXCEPT ![d] = @ \cup {p}]
        /\ requests' = IF up THEN [requests EXCEPT ![d] = Append(@, Put(w))] ELSE requests
        /\ UNCHANGED <<conn, observers, unacked, putsToAck, serverCache, responses, listening,
                       db, acked>>
    BY DEF SetValue, serverVars
  <1>2. issued[d] \in Nat /\ n \in Nat /\ w \in Writes /\ w.n = n /\ w.dev = d
    <2>1. issued[d] \in Nat /\ n \in Nat
      BY DEF IInv, Types
    <2> QED
      BY <2>1, WriteFacts
  <1>3. p \in [write : Writes, sent : BOOLEAN] /\ p.write = w
    BY <1>2
  <1>4. receivedTeam' \in [Devices -> Teams \cup {NoWrite}]
    BY DEF SetValue, RaiseEvents, Receive, IInv, Types
  <1> HIDE DEF w, p, n, up
  <1>5. /\ up => /\ requests' \in [Devices -> Seq(Requests)]
                 /\ \A i : IsListen(d, i)' <=> IsListen(d, i)
                 /\ \A i : IsPut(d, i)' <=> IsPut(d, i) \/ i = Len(requests[d]) + 1
                 /\ \A i : IsPut(d, i) => /\ requests'[d][i] = requests[d][i]
                                          /\ i \in Nat /\ i < Len(requests[d]) + 1
                 /\ requests'[d][Len(requests[d]) + 1].write = w /\ Len(requests[d]) + 1 \in Nat
        /\ ~up => requests' = requests
    BY <1>1, <1>2, RequestAppended, RequestFacts DEF IInv, IsPut
  <1>6. Types'
    <2>1. /\ puts' \in [Devices -> SUBSET [write : Writes, sent : BOOLEAN]]
          /\ \A e \in Devices : puts'[e] = IF e = d THEN puts[d] \cup {p} ELSE puts[e]
      BY <1>1, <1>3 DEF IInv, Types
    <2>2. \A e \in Devices : IsFiniteSet(puts'[e])
      <3>1. IsFiniteSet(puts[d] \cup {p}) /\ \A e \in Devices : IsFiniteSet(puts[e])
        BY FS_AddElement DEF IInv, Types
      <3> QED
        BY <2>1, <3>1
    <2>3. issued' \in [Devices -> Nat] /\ allWrites' \in [Devices -> SUBSET Writes]
      BY <1>1, <1>2 DEF IInv, Types
    <2> QED
      BY <1>1, <1>4, <1>5, <2>1, <2>2, <2>3 DEF IInv, Types
  <1>7. ASSUME NEW e \in Devices, e # d PROVE DeviceInv(e)'
    <2>1. /\ requests'[e] = requests[e] /\ puts'[e] = puts[e] /\ issued'[e] = issued[e]
          /\ UNCHANGED <<conn, observers, unacked, putsToAck, responses, listening, db, acked>>
      BY <1>1, <1>7 DEF IInv, Types
    <2> QED
      BY <2>1, OtherDevice DEF IInv
  <1>8. DeviceInv(d)'
    <2>0. DeviceInv(d) /\ Types
      BY DEF IInv
    <2>1. /\ \A k : IsListenAnswer(d, k)' <=> IsListenAnswer(d, k)
          /\ \A k : IsPutAnswer(d, k)' <=> IsPutAnswer(d, k)
          /\ responses' = responses
          /\ Read(d)' = Read(d)
          /\ \A i : ~up => (IsListen(d, i)' <=> IsListen(d, i)) /\ (IsPut(d, i)' <=> IsPut(d, i))
      BY <1>1, <1>5 DEF IsListenAnswer, IsPutAnswer, Read, IsListen, IsPut
    <2>2. issued'[d] = n /\ puts'[d] = puts[d] \cup {p}
      BY <1>1 DEF IInv, Types
    <2>3. ListenInv(d)'
      BY <1>1, <1>5, <2>0, <2>1 DEF DeviceInv, ListenInv
    <2>4. /\ \A i : IsPut(d, i) => requests[d][i].write \in Writes
          /\ \A k : IsPutAnswer(d, k) => responses[d][k].write \in Writes
          /\ \A x \in Read(d) : x \in Writes
          /\ \A x \in puts[d] : x.write \in Writes
      BY <2>0, TypeFacts
    <2>9. \A i : IsPut(d, i)' => \/ IsPut(d, i) /\ requests'[d][i] = requests[d][i]
                                 \/ /\ requests'[d][i].write = w
                                    /\ \A j : IsPut(d, j) => j < i
                                    /\ ~IsPut(d, i)
      BY <1>5, <2>1
    <2>10. \A i : IsPut(d, i) => IsPut(d, i)' /\ requests'[d][i] = requests[d][i]
      BY <1>5, <2>1
    <2>11. n = issued[d] + 1 /\ \A x \in Writes : x.n \in Nat
      BY WriteFacts DEF n
    <2>5. OwnInv(d)'
      BY <1>2, <1>3, <2>0, <2>1, <2>2, <2>4, <2>9, <2>11 DEF DeviceInv, OwnInv
    <2>6. OrderInv(d)'
      <3>1. /\ \A i : IsPut(d, i) => requests[d][i].write.n < n
            /\ \A k : IsPutAnswer(d, k) => responses[d][k].write.n < n
            /\ \A x \in Read(d) : x.n < n
        BY <1>2, <2>0, <2>4, <2>11 DEF DeviceInv, OwnInv
      <3>2. \A i, j : IsPut(d, i)' /\ IsPut(d, j)' /\ i < j =>
                        requests'[d][i].write.n < requests'[d][j].write.n
        <4> SUFFICES ASSUME NEW i, NEW j, IsPut(d, i)', IsPut(d, j)', i < j
                     PROVE  requests'[d][i].write.n < requests'[d][j].write.n
          OBVIOUS
        <4>1. i \in Nat /\ j \in Nat
          BY <1>5, <2>0, <2>1, TypeFacts
        <4>2. IsPut(d, i) /\ requests'[d][i] = requests[d][i]
          BY <1>5, <2>1, <2>9, <4>1
        <4> QED
          BY <1>2, <2>0, <2>9, <3>1, <4>2 DEF DeviceInv, OrderInv
      <3> QED
        BY <1>2, <1>3, <2>0, <2>1, <2>2, <2>9, <3>1, <3>2 DEF DeviceInv, OrderInv
    <2>7. CoverInv(d)'
      <3>1. up => \E i : IsPut(d, i)' /\ requests'[d][i].write = p.write
        BY <1>3, <1>5
      <3>2. conn' = conn /\ (conn[d] = "connected" => up)
        BY <1>1 DEF up
      <3> QED
        BY <2>0, <2>1, <2>2, <2>10, <3>1, <3>2 DEF DeviceInv, CoverInv
    <2>8. StandInv(d)'
      BY <1>1, <2>0, <2>1 DEF DeviceInv, StandInv, Stands
    <2> QED
      BY <2>3, <2>5, <2>6, <2>7, <2>8 DEF DeviceInv
  <1> QED
    BY <1>6, <1>7, <1>8 DEF IInv

\* The first fetchTeams call of a connection sends its one listen.
LEMMA FetchTeamsStep ==
  ASSUME IInv, NEW d \in Devices, FetchTeams(d)
  PROVE  IInv'
  <1> DEFINE first == observers[d] = 0 /\ conn[d] = "connected"
  <1>0. DeviceInv(d) /\ Types
    BY DEF IInv
  <1>1. /\ observers' = [observers EXCEPT ![d] = @ + 1]
        /\ first => /\ requests' = [requests EXCEPT ![d] = Append(@, Listen)]
                    /\ unacked' = [unacked EXCEPT ![d] = @ + 1]
        /\ ~first => requests' = requests /\ unacked' = unacked
        /\ UNCHANGED <<conn, puts, putsToAck, allWrites, serverCache, responses, listening,
                       db, issued, acked>>
        /\ observers[d] < MaxObservers
    BY DEF FetchTeams, serverVars
  <1>2. receivedTeam' \in [Devices -> Teams \cup {NoWrite}]
    BY <1>0 DEF FetchTeams, Receive, Types
  <1> HIDE DEF first
  <1>3. first => /\ requests' \in [Devices -> Seq(Requests)]
                 /\ \A i : IsListen(d, i)' <=> IsListen(d, i) \/ i = Len(requests[d]) + 1
                 /\ \A i : IsPut(d, i)' <=> IsPut(d, i)
                 /\ \A i : IsPut(d, i) => requests'[d][i] = requests[d][i]
    BY <1>0, <1>1, RequestAppended, RequestFacts DEF IsPut
  <1>4. ~first => /\ \A i : IsListen(d, i)' <=> IsListen(d, i)
                  /\ \A i : IsPut(d, i)' <=> IsPut(d, i)
                  /\ requests' = requests
    BY <1>1 DEF IsListen, IsPut
  <1>5. first => unacked[d] = 0 /\ \A i : ~IsListen(d, i) /\ ~IsListenAnswer(d, i)
    BY <1>0 DEF first, DeviceInv, ListenInv, Types
  <1>6. Types'
    <2>1. observers' \in [Devices -> 0 .. MaxObservers]
      <3>1. observers[d] \in 0 .. MaxObservers /\ MaxObservers \in Nat
        BY <1>0, BoundsAssumption DEF Types
      <3>2. observers[d] + 1 \in 0 .. MaxObservers
        BY <1>1, <3>1
      <3> QED
        BY <1>0, <1>1, <3>2 DEF Types
    <2>3. unacked' \in [Devices -> Int]
      <3>1. CASE first
        BY <1>0, <1>1, <3>1 DEF Types
      <3> QED
        BY <1>0, <1>1, <3>1 DEF Types
    <2>2. requests' \in [Devices -> Seq(Requests)]
      BY <1>0, <1>1, <1>3 DEF Types
    <2> QED
      BY <1>0, <1>1, <1>2, <2>1, <2>2, <2>3 DEF Types
  <1>7. ASSUME NEW e \in Devices, e # d PROVE DeviceInv(e)'
    <2>1. /\ requests'[e] = requests[e] /\ observers'[e] = observers[e] /\ unacked'[e] = unacked[e]
          /\ UNCHANGED <<conn, puts, putsToAck, responses, listening, db, issued, acked>>
      BY <1>0, <1>1, <1>7 DEF Types
    <2> QED
      BY <1>0, <2>1, OtherDevice DEF IInv
  <1>8. DeviceInv(d)'
    <2>1. /\ \A k : IsListenAnswer(d, k)' <=> IsListenAnswer(d, k)
          /\ \A k : IsPutAnswer(d, k)' <=> IsPutAnswer(d, k)
          /\ \A i : IsPut(d, i)' <=> IsPut(d, i)
          /\ \A i : IsPut(d, i) => requests'[d][i] = requests[d][i]
          /\ Read(d)' = Read(d)
      BY <1>1, <1>3, <1>4 DEF IsListenAnswer, IsPutAnswer, Read
    <2>2. /\ observers'[d] = observers[d] + 1 /\ observers[d] \in Nat /\ observers'[d] > 0
          /\ first => unacked'[d] = 1
          /\ ~first => unacked'[d] = unacked[d]
      BY <1>0, <1>1, <1>5 DEF Types
    <2>3. ListenInv(d)'
      <3>1. CASE first
        BY <1>1, <1>3, <1>5, <2>1, <2>2, <3>1 DEF first, ListenInv
      <3>2. CASE ~first
        BY <1>0, <1>1, <1>4, <2>1, <2>2, <3>2 DEF DeviceInv, ListenInv
      <3> QED
        BY <3>1, <3>2
    <2>4. OwnInv(d)' /\ OrderInv(d)'
      BY <1>0, <1>1, <2>1 DEF DeviceInv, OwnInv, OrderInv
    <2>5. CoverInv(d)' /\ StandInv(d)'
      BY <1>0, <1>1, <2>1 DEF DeviceInv, CoverInv, StandInv, Stands
    <2> QED
      BY <2>3, <2>4, <2>5 DEF DeviceInv
  <1> QED
    BY <1>6, <1>7, <1>8 DEF IInv

\* What is sent when the connection is up again: the listen, if any, and every put in order.
LEMMA Restored ==
  ASSUME Types, NEW d \in Devices, NEW s \in RestoredPuts(d),
         requests' = [requests EXCEPT ![d] = RestoredListens(d) \o [i \in DOMAIN s |-> Put(s[i].write)]]
  PROVE  LET k == Len(RestoredListens(d))
         IN /\ requests' \in [Devices -> Seq(Requests)]
            /\ k = IF observers[d] > 0 THEN 1 ELSE 0
            /\ \A i : IsListen(d, i)' => i = 1 /\ k = 1
            /\ k = 1 => IsListen(d, 1)'
            /\ \A i : IsPut(d, i)' => /\ i \in Nat /\ i - k \in DOMAIN s /\ s[i - k] \in puts[d]
                                      /\ requests'[d][i].write = s[i - k].write
            /\ \A p \in puts[d] : \E i : IsPut(d, i)' /\ requests'[d][i].write = p.write
            /\ \A i, j \in DOMAIN s : i < j => s[i].write.n < s[j].write.n
  <1> DEFINE n == Cardinality(puts[d])
             k == Len(RestoredListens(d))
             q == [i \in DOMAIN s |-> Put(s[i].write)]
  <1>1. n \in Nat
    BY FS_CardinalityType DEF Types
  <1>2. /\ s \in [1 .. n -> puts[d]] /\ \A p \in puts[d] : \E i \in DOMAIN s : s[i] = p
        /\ \A i, j \in DOMAIN s : i < j => s[i].write.n < s[j].write.n
    BY DEF RestoredPuts, InOrder
  <1>3. DOMAIN s = 1 .. n /\ \A i \in 1 .. n : s[i] \in puts[d] /\ s[i].write \in Writes
    BY <1>2, TypeFacts
  <1>4. q \in Seq(Requests) /\ Len(q) = n /\ \A i \in 1 .. n : q[i] = Put(s[i].write)
    <2>1. q \in [1 .. n -> Requests]
      BY <1>3, RequestFacts
    <2> QED
      BY <1>1, <1>3, <2>1
  <1>5. /\ RestoredListens(d) \in Seq(Requests) /\ k = IF observers[d] > 0 THEN 1 ELSE 0
        /\ \A i \in 1 .. k : RestoredListens(d)[i] = Listen
    BY RequestFacts DEF RestoredListens
  <1> HIDE DEF q
  <1>6. /\ requests' \in [Devices -> Seq(Requests)]
        /\ requests'[d] = RestoredListens(d) \o q
    <2>1. requests' = [requests EXCEPT ![d] = RestoredListens(d) \o q]
      BY DEF q
    <2>2. RestoredListens(d) \o q \in Seq(Requests)
      BY <1>4, <1>5, ConcatProperties
    <2> QED
      BY <2>1, <2>2 DEF Types
  <1>7. /\ DOMAIN requests'[d] = 1 .. k + n
        /\ \A i \in 1 .. k + n : requests'[d][i] = IF i <= k THEN RestoredListens(d)[i] ELSE q[i - k]
    <2> DEFINE first == RestoredListens(d)
    <2> HIDE DEF first
    <2>1. first \in Seq(Requests) /\ q \in Seq(Requests) /\ Len(first) = k /\ Len(q) = n
      BY <1>4, <1>5 DEF first
    <2>2. /\ DOMAIN (first \o q) = 1 .. Len(first) + Len(q)
          /\ \A i \in 1 .. Len(first) + Len(q) :
               (first \o q)[i] = IF i <= Len(first) THEN first[i] ELSE q[i - Len(first)]
      BY <2>1, ConcatPositions, Zenon
    <2>3. requests'[d] = first \o q
      BY <1>6 DEF first
    <2>4. /\ DOMAIN requests'[d] = 1 .. k + n
          /\ \A i \in 1 .. k + n : requests'[d][i] = IF i <= k THEN first[i] ELSE q[i - k]
      BY <2>1, <2>2, <2>3, Zenon
    <2> QED
      BY <2>4 DEF first
  <1> HIDE DEF k, n
  <1>8. \A i \in 1 .. n : q[i].kind = "put" /\ q[i].write = s[i].write
    BY <1>3, <1>4, RequestFacts
  <1>9. k \in {0, 1}
    BY <1>5
  <1>10. \A i \in DOMAIN requests'[d] :
           /\ i \in Nat
           /\ \/ i = 1 /\ k = 1 /\ requests'[d][i].kind = "listen"
              \/ /\ i - k \in 1 .. n /\ requests'[d][i].kind = "put"
                 /\ requests'[d][i].write = s[i - k].write
    <2> SUFFICES ASSUME NEW i \in 1 .. k + n
                 PROVE  \/ i = 1 /\ k = 1 /\ requests'[d][i].kind = "listen"
                        \/ /\ i - k \in 1 .. n /\ requests'[d][i].kind = "put"
                           /\ requests'[d][i].write = s[i - k].write
      <3>1. DOMAIN requests'[d] = 1 .. k + n /\ 1 .. k + n \subseteq Nat
        BY <1>1, <1>7, <1>9
      <3> QED
        BY <3>1
    <2>1. CASE i <= k
      <3>1. i \in 1 .. k /\ i = 1 /\ k = 1
        BY <1>1, <1>9, <2>1
      <3> QED
        BY <1>5, <1>7, <2>1, <3>1, RequestFacts
    <2>2. CASE ~(i <= k)
      <3>1. i - k \in 1 .. n
        BY <1>1, <1>9, <2>2
      <3>2. requests'[d][i] = q[i - k]
        BY <1>7, <2>2
      <3> QED
        BY <1>8, <3>1, <3>2
    <2> QED
      BY <2>1, <2>2
  <1>11. \A i : IsListen(d, i)' => i = 1 /\ k = 1
    BY <1>10 DEF IsListen
  <1>12. \A i : IsPut(d, i)' => /\ i \in Nat /\ i - k \in DOMAIN s /\ s[i - k] \in puts[d]
                                /\ requests'[d][i].write = s[i - k].write
    BY <1>3, <1>10 DEF IsPut
  <1>13. \A i \in 1 .. n : \E j : IsPut(d, j)' /\ requests'[d][j].write = s[i].write
    <2> SUFFICES ASSUME NEW i \in 1 .. n
                 PROVE  \E j : IsPut(d, j)' /\ requests'[d][j].write = s[i].write
      OBVIOUS
    <2>1. i + k \in 1 .. k + n /\ ~(i + k <= k) /\ (i + k) - k = i
      BY <1>1, <1>9
    <2>2. requests'[d][i + k] = q[i]
      BY <1>7, <2>1
    <2>3. i + k \in DOMAIN requests'[d]
      BY <1>7, <2>1
    <2>4. requests'[d][i + k].kind = "put" /\ requests'[d][i + k].write = s[i].write
      BY <1>8, <2>2
    <2> QED
      BY <2>3, <2>4 DEF IsPut
  <1>14. \A p \in puts[d] : \E i : IsPut(d, i)' /\ requests'[d][i].write = p.write
    <2> SUFFICES ASSUME NEW p \in puts[d]
                 PROVE  \E i : IsPut(d, i)' /\ requests'[d][i].write = p.write
      OBVIOUS
    <2>1. PICK i \in 1 .. n : s[i] = p
      BY <1>2, <1>3
    <2> QED
      BY <1>13, <2>1
  <1>15. k = 1 => IsListen(d, 1)'
    <2> SUFFICES ASSUME k = 1 PROVE IsListen(d, 1)'
      OBVIOUS
    <2>1. 1 \in 1 .. k + n /\ 1 \in 1 .. k /\ 1 <= k
      BY <1>1
    <2>2. requests'[d][1] = RestoredListens(d)[1] /\ RestoredListens(d)[1] = Listen
      <3>1. requests'[d][1] = RestoredListens(d)[1]
        BY <1>7, <2>1
      <3> QED
        BY <1>5, <2>1, <3>1
    <2> QED
      BY <1>7, <2>1, <2>2, RequestFacts DEF IsListen
  <1> QED
    BY <1>2, <1>5, <1>6, <1>11, <1>12, <1>14, <1>15 DEF k

\* Reconnected, the device has sent all that is not answered, and nothing else.
LEMMA OnReadyStep ==
  ASSUME IInv, NEW d \in Devices, OnReady(d)
  PROVE  IInv'
  <1>0. DeviceInv(d) /\ Types
    BY DEF IInv
  <1> DEFINE k == Len(RestoredListens(d))
  <1>1. PICK s \in RestoredPuts(d) :
          requests' = [requests EXCEPT ![d] = RestoredListens(d) \o [i \in DOMAIN s |-> Put(s[i].write)]]
    BY DEF OnReady
  <1>2. /\ conn[d] = "disconnected" /\ conn' = [conn EXCEPT ![d] = "connected"]
        /\ unacked' = [unacked EXCEPT ![d] = @ + k]
        /\ puts' = [puts EXCEPT ![d] = {[p EXCEPT !.sent = TRUE] : p \in @}]
        /\ UNCHANGED <<observers, putsToAck, allWrites, serverCache, receivedTeam, responses,
                       listening, db, issued, acked>>
    BY DEF OnReady, appVars, serverVars
  <1> HIDE DEF k
  <1>3. /\ requests' \in [Devices -> Seq(Requests)]
        /\ k = IF observers[d] > 0 THEN 1 ELSE 0
        /\ \A i : IsListen(d, i)' => i = 1 /\ k = 1
        /\ \A i : IsPut(d, i)' => /\ i \in Nat /\ i - k \in DOMAIN s /\ s[i - k] \in puts[d]
                                  /\ requests'[d][i].write = s[i - k].write
        /\ \A p \in puts[d] : \E i : IsPut(d, i)' /\ requests'[d][i].write = p.write
        /\ \A i, j \in DOMAIN s : i < j => s[i].write.n < s[j].write.n
    BY <1>0, <1>1, Restored DEF k
  <1>4. puts'[d] = {[p EXCEPT !.sent = TRUE] : p \in puts[d]}
    BY <1>0, <1>2 DEF Types
  <1>5. /\ \A p \in puts'[d] : \E q \in puts[d] : p.write = q.write
        /\ puts'[d] \in SUBSET [write : Writes, sent : BOOLEAN]
    <2>1. puts[d] \in SUBSET [write : Writes, sent : BOOLEAN]
      BY <1>0 DEF Types
    <2>2. \A q \in puts[d] : [q EXCEPT !.sent = TRUE].write = q.write
                             /\ [q EXCEPT !.sent = TRUE] \in [write : Writes, sent : BOOLEAN]
      BY <2>1
    <2> QED
      BY <1>4, <2>2
  <1>6. Types'
    <2>1. puts' \in [Devices -> SUBSET [write : Writes, sent : BOOLEAN]]
      BY <1>0, <1>2, <1>5 DEF Types
    <2>2. \A e \in Devices : IsFiniteSet(puts'[e])
      <3>1. IsFiniteSet(puts[d]) /\ \A e \in Devices : e # d => puts'[e] = puts[e] /\ IsFiniteSet(puts[e])
        BY <1>0, <1>2 DEF Types
      <3>2. IsFiniteSet(puts'[d])
        <4> DEFINE f == [p \in puts[d] |-> [p EXCEPT !.sent = TRUE]]
        <4>1. f \in Surjection(puts[d], puts'[d])
          BY <1>4 DEF Surjection
        <4> QED
          BY <3>1, <4>1, FS_Surjection
      <3> QED
        BY <3>1, <3>2
    <2>3. conn' \in [Devices -> {"disconnected", "connected"}] /\ unacked' \in [Devices -> Int]
      BY <1>0, <1>2, <1>3 DEF Types
    <2> QED
      BY <1>0, <1>2, <1>3, <2>1, <2>2, <2>3 DEF Types
  <1>7. ASSUME NEW e \in Devices, e # d PROVE DeviceInv(e)'
    <2>1. /\ requests'[e] = requests[e] /\ conn'[e] = conn[e] /\ unacked'[e] = unacked[e]
          /\ puts'[e] = puts[e]
          /\ UNCHANGED <<observers, putsToAck, responses, listening, db, issued, acked>>
      BY <1>0, <1>1, <1>2, <1>7 DEF Types
    <2> QED
      BY <1>0, <2>1, OtherDevice DEF IInv
  <1>8. DeviceInv(d)'
    <2>1. /\ responses'[d] = <<>> /\ unacked'[d] = k /\ conn'[d] = "connected"
          /\ Read(d)' = Read(d) /\ k \in 0 .. 1
      BY <1>0, <1>2, <1>3 DEF DeviceInv, ListenInv, Types, Read
    <2>2. \A j : ~IsListenAnswer(d, j)' /\ ~IsPutAnswer(d, j)'
      BY <2>1 DEF IsListenAnswer, IsPutAnswer
    <2>3. ListenInv(d)'
      BY <1>0, <1>2, <1>3, <2>1, <2>2 DEF DeviceInv, ListenInv
    <2>4. OwnInv(d)'
      <3>1. OwnInv(d) /\ issued' = issued
        BY <1>0, <1>2 DEF DeviceInv
      <3>2. \A i : IsPut(d, i)' => requests'[d][i].write.dev = d /\ requests'[d][i].write.n <= issued[d]
        BY <1>3, <3>1 DEF OwnInv
      <3>3. \A p \in puts'[d] : p.write.dev = d /\ p.write.n <= issued[d]
        BY <1>5, <3>1 DEF OwnInv
      <3> QED
        BY <2>1, <2>2, <3>1, <3>2, <3>3 DEF OwnInv
    <2>5. OrderInv(d)'
      <3>1. ASSUME NEW i, NEW j, IsPut(d, i)', IsPut(d, j)', i < j
            PROVE  requests'[d][i].write.n < requests'[d][j].write.n
        <4>1. i \in Nat /\ j \in Nat /\ i - k < j - k
          BY <1>3, <2>1, <3>1
        <4> QED
          BY <1>3, <3>1, <4>1
      <3> QED
        BY <1>0, <1>3, <1>5, <2>1, <2>2, <3>1 DEF DeviceInv, OrderInv
    <2>6. CoverInv(d)'
      BY <1>3, <1>5 DEF CoverInv
    <2>7. StandInv(d)'
      BY <1>0, <1>2, <2>2 DEF DeviceInv, StandInv, Stands
    <2> QED
      BY <2>3, <2>4, <2>5, <2>6, <2>7 DEF DeviceInv
  <1> QED
    BY <1>6, <1>7, <1>8 DEF IInv

\* A lost connection takes what the server has sent; a relaunch everything else as well.
LEMMA LoseConnectionStep ==
  ASSUME IInv, NEW d \in Devices, OnDisconnect(d) \/ Relaunch(d)
  PROVE  IInv'
  <1>0. DeviceInv(d) /\ Types
    BY DEF IInv
  <1>1. /\ conn' = [conn EXCEPT ![d] = "disconnected"]
        /\ unacked' = [unacked EXCEPT ![d] = 0]
        /\ responses' = [responses EXCEPT ![d] = <<>>]
        /\ listening' = listening \ {d}
        /\ UNCHANGED <<issued, requests, db, acked>>
    BY DEF OnDisconnect, Relaunch, LoseConnection, appVars, serverVars
  <1>2. \/ UNCHANGED <<observers, puts, putsToAck, allWrites, serverCache, receivedTeam>>
        \/ /\ observers' = [observers EXCEPT ![d] = 0]
           /\ puts' = [puts EXCEPT ![d] = {}]
           /\ putsToAck' = [putsToAck EXCEPT ![d] = <<>>]
           /\ allWrites' = [allWrites EXCEPT ![d] = {}]
           /\ serverCache' = [serverCache EXCEPT ![d] = NoData]
           /\ receivedTeam' = [receivedTeam EXCEPT ![d] = NoWrite]
    BY DEF OnDisconnect, Relaunch, appVars
  <1>3. Types'
    <2>1. /\ conn' \in [Devices -> {"disconnected", "connected"}] /\ unacked' \in [Devices -> Int]
          /\ responses' \in [Devices -> Seq(Messages)] /\ listening' \subseteq Devices
      BY <1>0, <1>1 DEF Types
    <2>2. CASE UNCHANGED <<observers, puts, putsToAck, allWrites, serverCache, receivedTeam>>
      BY <1>0, <1>1, <2>1, <2>2 DEF Types
    <2>3. CASE /\ observers' = [observers EXCEPT ![d] = 0]
               /\ puts' = [puts EXCEPT ![d] = {}]
               /\ putsToAck' = [putsToAck EXCEPT ![d] = <<>>]
               /\ allWrites' = [allWrites EXCEPT ![d] = {}]
               /\ serverCache' = [serverCache EXCEPT ![d] = NoData]
               /\ receivedTeam' = [receivedTeam EXCEPT ![d] = NoWrite]
      <3>1. /\ puts' \in [Devices -> SUBSET [write : Writes, sent : BOOLEAN]]
            /\ \A e \in Devices : puts'[e] = IF e = d THEN {} ELSE puts[e]
        BY <1>0, <2>3 DEF Types
      <3>2. \A e \in Devices : IsFiniteSet(puts'[e])
        BY <1>0, <3>1, FS_EmptySet DEF Types
      <3>3. observers' \in [Devices -> 0 .. MaxObservers]
        BY <1>0, <2>3, BoundsAssumption DEF Types
      <3>4. /\ putsToAck' \in [Devices -> Seq(Answers)]
            /\ allWrites' \in [Devices -> SUBSET Writes]
            /\ receivedTeam' \in [Devices -> Teams \cup {NoWrite}]
        BY <1>0, <2>3 DEF Types
      <3> QED
        BY <1>0, <1>1, <2>1, <3>1, <3>2, <3>3, <3>4 DEF Types
    <2> QED
      BY <1>2, <2>2, <2>3
  <1>4. ASSUME NEW e \in Devices, e # d PROVE DeviceInv(e)'
    <2>1. /\ conn'[e] = conn[e] /\ unacked'[e] = unacked[e] /\ responses'[e] = responses[e]
          /\ observers'[e] = observers[e] /\ puts'[e] = puts[e] /\ putsToAck'[e] = putsToAck[e]
          /\ e \in listening' <=> e \in listening
          /\ UNCHANGED <<issued, requests, db, acked>>
      BY <1>0, <1>1, <1>2, <1>4 DEF Types
    <2> QED
      BY <1>0, <2>1, OtherDevice DEF IInv
  <1>5. DeviceInv(d)'
    <2>1. /\ conn'[d] = "disconnected" /\ unacked'[d] = 0 /\ responses'[d] = <<>>
          /\ d \notin listening'
          /\ \/ puts'[d] = puts[d] /\ putsToAck'[d] = putsToAck[d] /\ observers'[d] = observers[d]
             \/ puts'[d] = {} /\ putsToAck'[d] = <<>>
      BY <1>0, <1>1, <1>2 DEF Types
    <2>2. /\ \A k : ~IsListenAnswer(d, k)' /\ ~IsPutAnswer(d, k)'
          /\ \A i : IsPut(d, i)' = IsPut(d, i)
          /\ requests' = requests
      BY <1>1, <2>1 DEF IsListenAnswer, IsPutAnswer, IsPut
    <2>3. Read(d)' \subseteq Read(d) /\ puts'[d] \subseteq puts[d]
      BY <1>1, <2>1 DEF Read
    <2>4. ListenInv(d)'
      BY <1>0, <2>1, <2>2 DEF DeviceInv, ListenInv
    <2>5. OwnInv(d)'
      BY <1>0, <1>1, <2>2, <2>3 DEF DeviceInv, OwnInv
    <2>6. OrderInv(d)'
      BY <1>0, <2>2, <2>3 DEF DeviceInv, OrderInv
    <2>7. CoverInv(d)'
      BY <2>1 DEF CoverInv
    <2>8. StandInv(d)'
      BY <1>0, <1>1, <2>1, <2>2 DEF DeviceInv, StandInv, Stands
    <2> QED
      BY <2>4, <2>5, <2>6, <2>7, <2>8 DEF DeviceInv
  <1> QED
    BY <1>3, <1>4, <1>5 DEF IInv

-----------------------------------------------------------------------------
\* A sequence of messages with the answers device d is being sent, at the same positions.
SameAnswers(d, s) ==
  /\ \A k : k \in DOMAIN s /\ s[k].kind = "listenAnswer" <=> IsListenAnswer(d, k)
  /\ \A k : k \in DOMAIN s /\ s[k].kind = "putAnswer" <=> IsPutAnswer(d, k)
  /\ \A k : IsPutAnswer(d, k) => s[k] = responses[d][k] /\ k \in Nat /\ k < Len(s) + 1

\* The messages of the server, and what the data it sends leave as it was.
LEMMA MessageKinds ==
  /\ \A t \in Trees : [kind |-> "tree", tree |-> t] \in Messages
  /\ \A w \in Writes : [kind |-> "change", write |-> w] \in Messages
  /\ \A ok \in BOOLEAN : [kind |-> "listenAnswer", ok |-> ok] \in Messages
  /\ \A w \in Writes, ok \in BOOLEAN : [kind |-> "putAnswer", write |-> w, ok |-> ok] \in Messages
  BY DEF Messages

\* Data put behind the answers leave them where they are.
LEMMA DataSent ==
  ASSUME Types, NEW d \in Devices
  PROVE  /\ responses[d] \in Seq(Messages) /\ SameAnswers(d, responses[d])
         /\ \A m \in Messages : m.kind \notin {"listenAnswer", "putAnswer"} =>
              Append(responses[d], m) \in Seq(Messages) /\ SameAnswers(d, Append(responses[d], m))
  <1>1. responses[d] \in Seq(Messages)
    BY DEF Types
  <1>2. SameAnswers(d, responses[d])
    <2>1. \A k \in DOMAIN responses[d] : k \in Nat /\ k < Len(responses[d]) + 1
      BY <1>1
    <2> QED
      BY <1>1, <2>1 DEF SameAnswers, IsListenAnswer, IsPutAnswer
  <1>3. ASSUME NEW m \in Messages, m.kind \notin {"listenAnswer", "putAnswer"}
        PROVE  Append(responses[d], m) \in Seq(Messages) /\ SameAnswers(d, Append(responses[d], m))
    <2> DEFINE s == Append(responses[d], m)
               last == Len(responses[d]) + 1
    <2>1. /\ s \in Seq(Messages)
          /\ \A i : i \in DOMAIN s <=> i \in DOMAIN responses[d] \/ i = last
          /\ \A i \in DOMAIN responses[d] : s[i] = responses[d][i] /\ i \in Nat /\ i < last
          /\ s[last] = m /\ last \in Nat
      BY <1>1, AppendPositions
    <2>2. Len(s) = last
      BY <1>1
    <2> HIDE DEF s, last
    <2>3. \A i \in DOMAIN responses[d] : i < Len(s) + 1
      BY <2>1, <2>2
    <2>4. SameAnswers(d, s)
      BY <1>3, <2>1, <2>3 DEF SameAnswers, IsListenAnswer, IsPutAnswer
    <2> QED
      BY <2>1, <2>4 DEF s
  <1> QED
    BY <1>1, <1>2, <1>3

\* An answer put behind the others.
LEMMA AnswerSent ==
  ASSUME NEW d \in Devices, NEW s \in Seq(Messages), SameAnswers(d, s), NEW m \in Messages,
         responses'[d] = Append(s, m)
  PROVE  LET last == Len(s) + 1
         IN /\ responses'[d] \in Seq(Messages)
            /\ \A k : IsListenAnswer(d, k)' <=> IsListenAnswer(d, k) \/ (k = last /\ m.kind = "listenAnswer")
            /\ \A k : IsPutAnswer(d, k)' <=> IsPutAnswer(d, k) \/ (k = last /\ m.kind = "putAnswer")
            /\ \A k : IsPutAnswer(d, k) => responses'[d][k] = responses[d][k] /\ k \in Nat /\ k < last
            /\ responses'[d][last] = m /\ last \in Nat
  <1>1. \A k : IsPutAnswer(d, k) => k \in DOMAIN s
    BY DEF SameAnswers
  <1> QED
    BY <1>1, ResponseAppended DEF SameAnswers

\* The server has taken the listen of a device, and answered it if there is a connection.
LEMMA ListenTaken ==
  ASSUME IInv, NEW d \in Devices, requests[d] # <<>>, Head(requests[d]).kind = "listen",
         TakeRequest(d), UNCHANGED <<clientVars, db, issued, acked>>,
         conn[d] = "connected" =>
           \E s \in Seq(Messages), ok \in BOOLEAN :
             SameAnswers(d, s) /\ responses'[d] = Append(s, [kind |-> "listenAnswer", ok |-> ok]),
         conn[d] # "connected" => responses'[d] = responses[d] /\ (d \in listening' => d \in listening)
  PROVE  DeviceInv(d)'
  <1>0. DeviceInv(d) /\ Types
    BY DEF IInv
  <1>1. /\ UNCHANGED <<conn, observers, unacked, puts, putsToAck, db, issued, acked>>
        /\ Read(d)' = Read(d)
    BY DEF clientVars, Read
  <1>2. /\ IsListen(d, 1) /\ ~IsPut(d, 1)
        /\ \A i : IsPut(d, i)' => /\ i \in Nat /\ i >= 1 /\ IsPut(d, i + 1)
                                  /\ requests'[d][i] = requests[d][i + 1]
        /\ \A i : IsListen(d, i)' => i \in Nat /\ i >= 1 /\ IsListen(d, i + 1)
        /\ \A i : IsPut(d, i) => IsPut(d, i - 1)' /\ requests'[d][i - 1] = requests[d][i]
    <2>1. "listen" # "put"
      OBVIOUS
    <2> QED
      BY <1>0, <2>1, RequestTaken
  <1>3. /\ \A k : IsPutAnswer(d, k)' <=> IsPutAnswer(d, k)
        /\ \A k : IsPutAnswer(d, k) => responses'[d][k] = responses[d][k]
        /\ conn[d] # "connected" => responses'[d] = responses[d]
        /\ conn[d] = "connected" =>
             \E last : \A k : IsListenAnswer(d, k)' => IsListenAnswer(d, k) \/ k = last
    <2>1. CASE conn[d] = "connected"
      <3>1. PICK s \in Seq(Messages), ok \in BOOLEAN :
              SameAnswers(d, s) /\ responses'[d] = Append(s, [kind |-> "listenAnswer", ok |-> ok])
        BY <2>1
      <3>2. [kind |-> "listenAnswer", ok |-> ok] \in Messages
        BY MessageKinds
      <3>3. [kind |-> "listenAnswer", ok |-> ok].kind # "putAnswer"
        OBVIOUS
      <3> DEFINE m == [kind |-> "listenAnswer", ok |-> ok]
      <3> HIDE DEF m
      <3>4. m \in Messages /\ m.kind # "putAnswer" /\ responses'[d] = Append(s, m) /\ SameAnswers(d, s)
        BY <3>1, <3>2, <3>3 DEF m
      <3>5. /\ \A k : IsListenAnswer(d, k)' <=> IsListenAnswer(d, k) \/ (k = Len(s) + 1 /\ m.kind = "listenAnswer")
            /\ \A k : IsPutAnswer(d, k)' <=> IsPutAnswer(d, k) \/ (k = Len(s) + 1 /\ m.kind = "putAnswer")
            /\ \A k : IsPutAnswer(d, k) => responses'[d][k] = responses[d][k]
        BY <3>4, AnswerSent, SMTT(90) DEF SameAnswers
      <3>6. /\ \A k : IsListenAnswer(d, k)' => IsListenAnswer(d, k) \/ k = Len(s) + 1
            /\ \A k : IsPutAnswer(d, k)' <=> IsPutAnswer(d, k)
        BY <3>4, <3>5
      <3>7. \E last : \A k : IsListenAnswer(d, k)' => IsListenAnswer(d, k) \/ k = last
        BY <3>6
      <3> QED
        BY <2>1, <3>5, <3>6, <3>7
    <2>2. CASE conn[d] # "connected"
      BY <2>2 DEF IsPutAnswer
    <2> QED
      BY <2>1, <2>2
  <1>4. conn[d] = "connected" => /\ \A i : ~IsListen(d, i)'
                                 /\ unacked[d] # 0 /\ \A k : ~IsListenAnswer(d, k)
    BY <1>0, <1>2 DEF DeviceInv, ListenInv
  <1>5. ListenInv(d)'
    <2>1. CASE conn[d] = "connected"
      BY <1>0, <1>1, <1>3, <1>4, <2>1 DEF DeviceInv, ListenInv
    <2>2. CASE conn[d] # "connected"
      <3>1. conn[d] = "disconnected" /\ conn'[d] = "disconnected"
        BY <1>0, <1>1, <2>2 DEF Types
      <3> QED
        BY <1>0, <1>1, <1>3, <2>2, <3>1 DEF DeviceInv, ListenInv
    <2> QED
      BY <2>1, <2>2
  <1>6. OwnInv(d)'
    BY <1>0, <1>1, <1>2, <1>3 DEF DeviceInv, OwnInv
  <1>7. OrderInv(d)'
    <2>1. \A i : IsPut(d, i)' => /\ i \in Nat /\ IsPut(d, i + 1)
                                  /\ requests'[d][i] = requests[d][i + 1]
      BY <1>2
    <2>2. \A i, j : IsPut(d, i)' /\ IsPut(d, j)' /\ i < j => i + 1 < j + 1
      BY <2>1
    <2> QED
      BY <1>0, <1>1, <1>3, <2>1, <2>2 DEF DeviceInv, OrderInv
  <1>8. CoverInv(d)'
    <2> SUFFICES ASSUME conn[d] = "connected", NEW p \in puts[d]
                 PROVE  \/ \E i : IsPut(d, i)' /\ requests'[d][i].write = p.write
                        \/ \E k : IsPutAnswer(d, k)' /\ responses'[d][k].write = p.write
      BY <1>1 DEF CoverInv
    <2>1. CASE \E i : IsPut(d, i) /\ requests[d][i].write = p.write
      BY <1>2, <2>1
    <2>2. CASE \E k : IsPutAnswer(d, k) /\ responses[d][k].write = p.write
      BY <1>3, <2>2
    <2> QED
      BY <1>0, <2>1, <2>2 DEF DeviceInv, CoverInv
  <1>9. StandInv(d)'
    BY <1>0, <1>1, <1>3 DEF DeviceInv, StandInv, Stands
  <1> QED
    BY <1>5, <1>6, <1>7, <1>8, <1>9 DEF DeviceInv

\* The server has taken a put of a device, applied it or not, and answered it if there is a
\* connection.
LEMMA PutTaken ==
  ASSUME IInv, NEW d \in Devices, requests[d] # <<>>, Head(requests[d]).kind = "put",
         TakeRequest(d), UNCHANGED <<clientVars, issued, acked, listening>>,
         NEW ok \in BOOLEAN,
         conn[d] = "connected" =>
           \E s \in Seq(Messages) :
                  /\ SameAnswers(d, s)
                  /\ responses'[d] =
                       Append(s, [kind |-> "putAnswer", write |-> Head(requests[d]).write, ok |-> ok]),
         conn[d] # "connected" => responses'[d] = responses[d],
         \/ db' = db /\ ~ok
         \/ db' = [db EXCEPT ![Head(requests[d]).write.team] = Head(requests[d]).write]
  PROVE  DeviceInv(d)'
  <1>0. DeviceInv(d) /\ Types
    BY DEF IInv
  <1>w. PICK w \in Writes : w = Head(requests[d]).write
    BY <1>0, RequestTaken, RequestFacts
  <1> DEFINE m == [kind |-> "putAnswer", write |-> w, ok |-> ok]
  <1>1. /\ UNCHANGED <<conn, observers, unacked, puts, putsToAck, issued, acked, listening>>
        /\ Read(d)' = Read(d)
    BY DEF clientVars, Read
  <1>2. /\ IsPut(d, 1) /\ ~IsListen(d, 1) /\ requests[d][1].write = w /\ w \in Writes
        /\ \A i : IsPut(d, i)' => /\ i \in Nat /\ i >= 1 /\ IsPut(d, i + 1)
                                  /\ requests'[d][i] = requests[d][i + 1]
        /\ \A i : IsListen(d, i)' => i \in Nat /\ i >= 1 /\ IsListen(d, i + 1)
        /\ \A i : IsPut(d, i) /\ i # 1 => IsPut(d, i - 1)' /\ requests'[d][i - 1] = requests[d][i]
        /\ \A i : IsPut(d, i) => i \in Nat /\ requests[d][i].write \in Writes
    <2>1. "listen" # "put"
      OBVIOUS
    <2> QED
      BY <1>0, <1>w, <2>1, RequestTaken
  <1>3. m \in Messages /\ m.kind = "putAnswer" /\ m.write = w /\ m.ok = ok
    BY <1>2, MessageKinds
  <1>4. m.kind # "listenAnswer"
    BY <1>3
  <1>5. conn[d] = "connected" => \E s \in Seq(Messages) : SameAnswers(d, s) /\ responses'[d] = Append(s, m)
    BY <1>w
  <1>6. (db' = db /\ ~ok) \/ db' = [db EXCEPT ![w.team] = w]
    BY <1>w
  <1> HIDE DEF m
  <1>7. PICK last :
          /\ \A k : IsListenAnswer(d, k)' <=> IsListenAnswer(d, k)
          /\ \A k : IsPutAnswer(d, k)' <=> IsPutAnswer(d, k) \/ (k = last /\ conn[d] = "connected")
          /\ \A k : IsPutAnswer(d, k) => responses'[d][k] = responses[d][k]
          /\ conn[d] # "connected" => responses'[d] = responses[d]
          /\ conn[d] = "connected" => /\ last \in Nat /\ responses'[d][last] = m
                                      /\ \A k : IsPutAnswer(d, k) => k \in Nat /\ k < last
    <2>1. CASE conn[d] = "connected"
      <3>1. PICK s \in Seq(Messages) : SameAnswers(d, s) /\ responses'[d] = Append(s, m)
        BY <1>5, <2>1
      <3>2. /\ \A k : IsListenAnswer(d, k)' <=> IsListenAnswer(d, k) \/ (k = Len(s) + 1 /\ m.kind = "listenAnswer")
            /\ \A k : IsPutAnswer(d, k)' <=> IsPutAnswer(d, k) \/ (k = Len(s) + 1 /\ m.kind = "putAnswer")
            /\ \A k : IsPutAnswer(d, k) => /\ responses'[d][k] = responses[d][k]
                                            /\ k \in Nat /\ k < Len(s) + 1
            /\ responses'[d][Len(s) + 1] = m /\ Len(s) + 1 \in Nat
        BY <1>3, <3>1, AnswerSent, SMTT(90) DEF SameAnswers
      <3> QED
        BY <1>3, <1>4, <2>1, <3>2
    <2>2. CASE conn[d] # "connected"
      <3>1. /\ \A k : IsListenAnswer(d, k)' <=> IsListenAnswer(d, k)
            /\ \A k : IsPutAnswer(d, k)' <=> IsPutAnswer(d, k)
            /\ responses'[d] = responses[d]
        BY <2>2 DEF IsPutAnswer, IsListenAnswer
      <3> QED
        BY <2>2, <3>1
    <2> QED
      BY <2>1, <2>2
  <1>8. /\ \A i : IsPut(d, i) /\ i # 1 => i > 1 /\ w.n < requests[d][i].write.n
        /\ \A k : IsPutAnswer(d, k) => responses[d][k].write.n < w.n
        /\ \A x \in Read(d) : x.n < w.n
    <2>1. \A i : IsPut(d, i) /\ i # 1 => i > 1
      BY <1>0 DEF IsPut, Types
    <2> QED
      BY <1>0, <1>2, <2>1 DEF DeviceInv, OrderInv
  <1>9. ListenInv(d)'
    BY <1>0, <1>1, <1>2, <1>7 DEF DeviceInv, ListenInv
  <1>10. OwnInv(d)'
    <2>1. OwnInv(d) /\ issued' = issued
      BY <1>0, <1>1 DEF DeviceInv
    <2>2. w.dev = d /\ w.n <= issued[d]
      BY <1>2, <2>1 DEF OwnInv
    <2>3. \A i : IsPut(d, i)' => requests'[d][i].write.dev = d /\ requests'[d][i].write.n <= issued[d]
      BY <1>2, <2>1 DEF OwnInv
    <2>4. \A k : IsPutAnswer(d, k)' => responses'[d][k].write.dev = d /\ responses'[d][k].write.n <= issued[d]
      BY <1>3, <1>7, <2>1, <2>2 DEF OwnInv
    <2> QED
      BY <1>1, <2>1, <2>3, <2>4 DEF OwnInv
  <1>11. OrderInv(d)'
    <2>1. /\ \A i : IsPut(d, i)' => /\ i \in Nat /\ IsPut(d, i + 1) /\ i + 1 # 1
                                    /\ requests'[d][i] = requests[d][i + 1]
          /\ \A x \in Writes : x.n \in Nat
      BY <1>2, WriteFacts
    <2>2. \A i, j : IsPut(d, i)' /\ IsPut(d, j)' /\ i < j =>
                      requests'[d][i].write.n < requests'[d][j].write.n
      <3> SUFFICES ASSUME NEW i, NEW j, IsPut(d, i)', IsPut(d, j)', i < j
                   PROVE  requests'[d][i].write.n < requests'[d][j].write.n
        OBVIOUS
      <3>1. IsPut(d, i + 1) /\ IsPut(d, j + 1) /\ i + 1 < j + 1
        BY <2>1
      <3> QED
        BY <1>0, <2>1, <3>1 DEF DeviceInv, OrderInv
    <2>3. \A k, l : IsPutAnswer(d, k)' /\ IsPutAnswer(d, l)' /\ k < l =>
                      responses'[d][k].write.n < responses'[d][l].write.n
      <3> SUFFICES ASSUME NEW k, NEW l, IsPutAnswer(d, k)', IsPutAnswer(d, l)', k < l
                   PROVE  responses'[d][k].write.n < responses'[d][l].write.n
        OBVIOUS
      <3>1. k \in Nat /\ l \in Nat
        BY <1>0, <1>7, TypeFacts
      <3>2. IsPutAnswer(d, k)
        BY <1>7, <3>1
      <3> QED
        BY <1>0, <1>3, <1>7, <1>8, <3>2 DEF DeviceInv, OrderInv
    <2>4. \A k, i : IsPutAnswer(d, k)' /\ IsPut(d, i)' =>
                      responses'[d][k].write.n < requests'[d][i].write.n
      BY <1>0, <1>3, <1>7, <1>8, <2>1 DEF DeviceInv, OrderInv
    <2>5. \A x \in Read(d) : /\ \A i : IsPut(d, i)' => x.n < requests'[d][i].write.n
                             /\ \A k : IsPutAnswer(d, k)' => x.n < responses'[d][k].write.n
                             /\ \A p \in puts[d] : x.n < p.write.n
      BY <1>0, <1>3, <1>7, <1>8, <2>1 DEF DeviceInv, OrderInv
    <2> QED
      BY <1>1, <2>2, <2>3, <2>4, <2>5 DEF OrderInv
  <1>12. CoverInv(d)'
    <2> SUFFICES ASSUME conn[d] = "connected", NEW p \in puts[d]
                 PROVE  \/ \E i : IsPut(d, i)' /\ requests'[d][i].write = p.write
                        \/ \E k : IsPutAnswer(d, k)' /\ responses'[d][k].write = p.write
      BY <1>1 DEF CoverInv
    <2>1. CASE \E i : IsPut(d, i) /\ requests[d][i].write = p.write
      BY <1>2, <1>3, <1>7, <2>1
    <2>2. CASE \E k : IsPutAnswer(d, k) /\ responses[d][k].write = p.write
      BY <1>7, <2>2
    <2> QED
      BY <1>0, <2>1, <2>2 DEF DeviceInv, CoverInv
  <1>13. StandInv(d)'
    <2>1. ASSUME NEW x \in Writes, Stands(db, d, x), x.n < w.n \/ db' = db
          PROVE  Stands(db', d, x)
      <3>1. CASE db' = db
        BY <2>1, <3>1 DEF Stands
      <3>2. CASE db' = [db EXCEPT ![w.team] = w] /\ x.n < w.n
        <4>1. db \in Trees /\ w.team \in Teams /\ x.team \in Teams /\ w.n \in Nat /\ x.n \in Nat
          BY <1>0, <1>2, WriteFacts DEF Types
        <4>2. db'[x.team] = IF x.team = w.team THEN w ELSE db[x.team]
          BY <3>2, <4>1 DEF Trees
        <4> QED
          BY <2>1, <3>2, <4>1, <4>2 DEF Stands
      <3> QED
        BY <1>6, <2>1, <3>1, <3>2
    <2>2. ok => Stands(db', d, w)
      <3>1. ASSUME db' = [db EXCEPT ![w.team] = w]
            PROVE  Stands(db', d, w)
        <4>1. db'[w.team] = w /\ w.n \in Nat
          BY <1>0, <1>2, <3>1, WriteFacts DEF Types, Trees
        <4> QED
          BY <4>1 DEF Stands
      <3> QED
        BY <1>6, <3>1
    <2>3. \A x \in acked[d] : Stands(db', d, x)
      <3>1. \A x \in acked[d] : x \in Writes /\ x \in Read(d)
        BY <1>0 DEF Types, Read
      <3> QED
        BY <1>0, <1>8, <2>1, <3>1 DEF DeviceInv, StandInv
    <2>4. \A k \in DOMAIN putsToAck[d] : putsToAck[d][k].ok => Stands(db', d, putsToAck[d][k].write)
      <3>1. \A k \in DOMAIN putsToAck[d] : putsToAck[d][k].write \in Writes /\ putsToAck[d][k].write \in Read(d)
        BY <1>0, TypeFacts DEF Read
      <3> QED
        BY <1>0, <1>8, <2>1, <3>1 DEF DeviceInv, StandInv
    <2>5. \A k : IsPutAnswer(d, k) /\ responses[d][k].ok => Stands(db', d, responses[d][k].write)
      BY <1>0, <1>8, <2>1, TypeFacts DEF DeviceInv, StandInv
    <2>6. \A k : IsPutAnswer(d, k)' /\ responses'[d][k].ok => Stands(db', d, responses'[d][k].write)
      BY <1>3, <1>7, <2>2, <2>5
    <2> QED
      BY <1>1, <2>3, <2>4, <2>6 DEF StandInv
  <1> QED
    BY <1>9, <1>10, <1>11, <1>12, <1>13 DEF DeviceInv

\* Sequences of one and of two messages put behind others.
LEMMA MessagesSent ==
  ASSUME NEW s \in Seq(Messages), NEW a \in Messages, NEW b \in Messages
  PROVE  /\ s \o <<a>> = Append(s, a)
         /\ s \o <<a, b>> = Append(Append(s, a), b)
  OBVIOUS

\* The server reads a listen: the tree, then the answer.
LEMMA ServerListensStep ==
  ASSUME IInv, NEW d \in Devices, ServerListens(d)
  PROVE  IInv'
  <1> DEFINE tree == [kind |-> "tree", tree |-> db]
             answer == [kind |-> "listenAnswer", ok |-> TRUE]
  <1>0. Types
    BY DEF IInv
  <1>1. /\ requests[d] # <<>> /\ Head(requests[d]).kind = "listen" /\ TakeRequest(d)
        /\ listening' = IF conn[d] = "connected" THEN listening \cup {d} ELSE listening
        /\ responses' = [responses EXCEPT ![d] = IF conn[d] = "connected" THEN @ \o <<tree, answer>> ELSE @]
        /\ UNCHANGED <<clientVars, receivedTeam, db, issued, acked>>
    BY DEF ServerListens, Respond, appVars, serverVars
  <1>2. tree \in Messages /\ answer \in Messages /\ tree.kind \notin {"listenAnswer", "putAnswer"}
    BY <1>0, MessageKinds DEF Types
  <1> HIDE DEF tree
  <1>3. /\ Append(responses[d], tree) \in Seq(Messages) /\ SameAnswers(d, Append(responses[d], tree))
        /\ responses[d] \in Seq(Messages)
    BY <1>0, <1>2, DataSent
  <1>4. responses[d] \o <<tree, answer>> = Append(Append(responses[d], tree), answer)
    BY <1>2, <1>3, MessagesSent
  <1>5. /\ conn[d] = "connected" => responses'[d] = Append(Append(responses[d], tree), answer)
        /\ conn[d] # "connected" => responses'[d] = responses[d]
        /\ \A e \in Devices : e # d => responses'[e] = responses[e]
        /\ responses' \in [Devices -> Seq(Messages)]
    <2>1. Append(Append(responses[d], tree), answer) \in Seq(Messages)
      BY <1>2, <1>3
    <2> QED
      BY <1>0, <1>1, <1>3, <1>4, <2>1 DEF Types
  <1>6. requests' \in [Devices -> Seq(Requests)] /\ \A e \in Devices : e # d => requests'[e] = requests[e]
    BY <1>0, <1>1, RequestTaken DEF Types, TakeRequest
  <1>7. Types'
    BY <1>0, <1>1, <1>5, <1>6 DEF Types, clientVars
  <1>8. ASSUME NEW e \in Devices, e # d PROVE DeviceInv(e)'
    <2>1. /\ requests'[e] = requests[e] /\ responses'[e] = responses[e]
          /\ e \in listening' <=> e \in listening
          /\ UNCHANGED <<conn, observers, unacked, puts, putsToAck, issued, acked, db>>
      BY <1>1, <1>5, <1>6, <1>8 DEF clientVars
    <2> QED
      BY <1>0, <2>1, OtherDevice DEF IInv
  <1>9. DeviceInv(d)'
    <2>1. conn[d] = "connected" =>
            \E s \in Seq(Messages), ok \in BOOLEAN :
              SameAnswers(d, s) /\ responses'[d] = Append(s, [kind |-> "listenAnswer", ok |-> ok])
      BY <1>3, <1>5
    <2>2. conn[d] # "connected" => responses'[d] = responses[d] /\ (d \in listening' => d \in listening)
      BY <1>1, <1>5
    <2> QED
      BY <1>1, <2>1, <2>2, ListenTaken
  <1> QED
    BY <1>7, <1>8, <1>9 DEF IInv

\* The server applies a put: the listeners hear of it, then its device has the answer.
LEMMA ServerAppliesStep ==
  ASSUME IInv, NEW d \in Devices, ServerApplies(d)
  PROVE  IInv'
  <1>0. DeviceInv(d) /\ Types
    BY DEF IInv
  <1>1. PICK w : w = Head(requests[d]).write
    OBVIOUS
  <1> DEFINE change == [kind |-> "change", write |-> w]
             answer == [kind |-> "putAnswer", write |-> w, ok |-> TRUE]
             told(e) == IF e \in listening THEN Append(responses[e], change) ELSE responses[e]
  <1>2. /\ requests[d] # <<>> /\ Head(requests[d]).kind = "put" /\ TakeRequest(d)
        /\ db' = [db EXCEPT ![w.team] = w]
        /\ responses' = IF conn[d] = "connected"
                          THEN [[e \in Devices |-> told(e)] EXCEPT ![d] = Append(@, answer)]
                          ELSE [e \in Devices |-> told(e)]
        /\ UNCHANGED <<clientVars, listening, receivedTeam, issued, acked>>
    BY <1>1 DEF ServerApplies, appVars
  <1>3. /\ w \in Writes /\ w.dev = d /\ w.team \in Teams /\ w # NoWrite
        /\ requests' \in [Devices -> Seq(Requests)]
        /\ \A e \in Devices : e # d => requests'[e] = requests[e]
    <2>1. /\ requests' \in [Devices -> Seq(Requests)]
          /\ IsPut(d, 1) /\ requests[d][1].write = w /\ w \in Writes
      BY <1>0, <1>1, <1>2, RequestTaken, RequestFacts
    <2>2. w.dev = d
      BY <1>0, <2>1 DEF DeviceInv, OwnInv
    <2>3. \A e \in Devices : e # d => requests'[e] = requests[e]
      BY <1>0, <1>2 DEF Types, TakeRequest
    <2> QED
      BY <2>1, <2>2, <2>3, WriteFacts
  <1>4. change \in Messages /\ answer \in Messages /\ change.kind \notin {"listenAnswer", "putAnswer"}
    BY <1>3, MessageKinds
  <1> HIDE DEF change, answer, told
  <1>5. \A e \in Devices : told(e) \in Seq(Messages) /\ SameAnswers(e, told(e))
    BY <1>0, <1>4, DataSent DEF told
  <1>6. /\ \A e \in Devices : e # d => responses'[e] = told(e)
        /\ conn[d] = "connected" => responses'[d] = Append(told(d), answer)
        /\ conn[d] # "connected" => responses'[d] = responses[d]
        /\ responses' \in [Devices -> Seq(Messages)]
    <2>1. Append(told(d), answer) \in Seq(Messages)
      BY <1>4, <1>5
    <2>2. conn[d] # "connected" => d \notin listening
      BY <1>0 DEF DeviceInv, ListenInv, Types
    <2>3. conn[d] # "connected" => told(d) = responses[d]
      BY <2>2 DEF told
    <2>4. CASE conn[d] = "connected"
      BY <1>2, <1>5, <2>1, <2>4
    <2>5. CASE conn[d] # "connected"
      BY <1>2, <1>5, <2>3, <2>5
    <2> QED
      BY <2>4, <2>5
  <1>7. db' \in Trees /\ \A t \in Teams : db'[t] = db[t] \/ (db'[t] # NoWrite /\ db'[t].dev = d)
    BY <1>0, <1>2, <1>3 DEF Types, Trees
  <1>8. Types'
    BY <1>0, <1>2, <1>3, <1>6, <1>7 DEF Types, clientVars
  <1>9. ASSUME NEW e \in Devices, e # d PROVE DeviceInv(e)'
    <2>1. /\ requests'[e] = requests[e]
          /\ e \in listening' <=> e \in listening
          /\ UNCHANGED <<conn, observers, unacked, puts, putsToAck, issued, acked>>
      BY <1>2, <1>3, <1>9 DEF clientVars
    <2>2. \/ responses'[e] = responses[e]
          \/ /\ e \in listening
             /\ \E x \in Writes : responses'[e] = Append(responses[e], [kind |-> "change", write |-> x])
      BY <1>3, <1>6, <1>9 DEF told, change
    <2>3. \A t \in Teams : db'[t] = db[t] \/ (db'[t] # NoWrite /\ db'[t].dev # e)
      BY <1>7, <1>9
    <2> QED
      BY <1>0, <2>1, <2>2, <2>3, OtherDevice DEF IInv
  <1>10. DeviceInv(d)'
    <2>1. conn[d] = "connected" =>
            \E s \in Seq(Messages) :
              /\ SameAnswers(d, s)
              /\ responses'[d] =
                   Append(s, [kind |-> "putAnswer", write |-> Head(requests[d]).write, ok |-> TRUE])
      BY <1>1, <1>5, <1>6 DEF answer
    <2>2. db' = [db EXCEPT ![Head(requests[d]).write.team] = Head(requests[d]).write]
      BY <1>1, <1>2
    <2> QED
      BY <1>2, <1>6, <2>1, <2>2, PutTaken
  <1> QED
    BY <1>8, <1>9, <1>10 DEF IInv

\* The server refuses a request.
LEMMA ServerRefusesStep ==
  ASSUME IInv, NEW d \in Devices, ServerRefuses(d)
  PROVE  IInv'
  <1>0. Types
    BY DEF IInv
  <1>1. PICK r : r = Head(requests[d])
    OBVIOUS
  <1> DEFINE answer == IF r.kind = "listen" THEN [kind |-> "listenAnswer", ok |-> FALSE]
                       ELSE [kind |-> "putAnswer", write |-> r.write, ok |-> FALSE]
  <1>2. /\ requests[d] # <<>> /\ TakeRequest(d)
        /\ responses' = [responses EXCEPT ![d] = IF conn[d] = "connected" THEN @ \o <<answer>> ELSE @]
        /\ UNCHANGED <<clientVars, listening, receivedTeam, db, issued, acked>>
    BY <1>1 DEF ServerRefuses, Respond, appVars
  <1>3. /\ requests' \in [Devices -> Seq(Requests)]
        /\ r \in Requests /\ r.kind \in {"listen", "put"} /\ (r.kind = "put" => r.write \in Writes)
        /\ \A e \in Devices : e # d => requests'[e] = requests[e]
    <2>1. requests' \in [Devices -> Seq(Requests)] /\ r \in Requests
      BY <1>0, <1>1, <1>2, RequestTaken
    <2>2. \A e \in Devices : e # d => requests'[e] = requests[e]
      BY <1>0, <1>2 DEF Types, TakeRequest
    <2> QED
      BY <2>1, <2>2, RequestFacts
  <1>4. answer \in Messages
    BY <1>3, MessageKinds
  <1>5. responses[d] \in Seq(Messages) /\ SameAnswers(d, responses[d])
    BY <1>0, DataSent
  <1> HIDE DEF answer
  <1>6. responses[d] \o <<answer>> = Append(responses[d], answer)
    BY <1>4, <1>5, MessagesSent
  <1>7. /\ conn[d] = "connected" => responses'[d] = Append(responses[d], answer)
        /\ conn[d] # "connected" => responses'[d] = responses[d]
        /\ \A e \in Devices : e # d => responses'[e] = responses[e]
        /\ responses' \in [Devices -> Seq(Messages)]
    <2>1. Append(responses[d], answer) \in Seq(Messages)
      BY <1>4, <1>5
    <2> QED
      BY <1>0, <1>2, <1>6, <2>1 DEF Types
  <1>8. Types'
    BY <1>0, <1>2, <1>3, <1>7 DEF Types, clientVars
  <1>9. ASSUME NEW e \in Devices, e # d PROVE DeviceInv(e)'
    <2>1. /\ requests'[e] = requests[e] /\ responses'[e] = responses[e]
          /\ e \in listening' <=> e \in listening
          /\ UNCHANGED <<conn, observers, unacked, puts, putsToAck, issued, acked, db>>
      BY <1>2, <1>3, <1>7, <1>9 DEF clientVars
    <2> QED
      BY <1>0, <2>1, OtherDevice DEF IInv
  <1>10. CASE r.kind = "listen"
    <2>1. answer = [kind |-> "listenAnswer", ok |-> FALSE]
      BY <1>10 DEF answer
    <2>2. conn[d] = "connected" =>
            \E s \in Seq(Messages), ok \in BOOLEAN :
              SameAnswers(d, s) /\ responses'[d] = Append(s, [kind |-> "listenAnswer", ok |-> ok])
      BY <1>5, <1>7, <2>1
    <2>3. conn[d] # "connected" => responses'[d] = responses[d] /\ (d \in listening' => d \in listening)
      BY <1>2, <1>7
    <2>4. DeviceInv(d)'
      BY <1>1, <1>2, <1>10, <2>2, <2>3, ListenTaken
    <2> QED
      BY <1>8, <1>9, <2>4 DEF IInv
  <1>11. CASE r.kind = "put"
    <2>1. answer = [kind |-> "putAnswer", write |-> r.write, ok |-> FALSE]
      BY <1>11 DEF answer
    <2>2. conn[d] = "connected" =>
            \E s \in Seq(Messages) :
              /\ SameAnswers(d, s)
              /\ responses'[d] =
                   Append(s, [kind |-> "putAnswer", write |-> Head(requests[d]).write, ok |-> FALSE])
      BY <1>1, <1>5, <1>7, <2>1
    <2>3. DeviceInv(d)'
      BY <1>1, <1>2, <1>7, <1>11, <2>2, PutTaken
    <2> QED
      BY <1>8, <1>9, <2>3 DEF IInv
  <1> QED
    BY <1>3, <1>10, <1>11

-----------------------------------------------------------------------------
\* The handlers of fetchTeams leave a team, or none, in the controller.
LEMMA EventsRaised ==
  ASSUME Types, NEW d \in Devices, NEW cache, NEW writes,
         RaiseEvents(d, cache, writes) \/ UNCHANGED receivedTeam
  PROVE  receivedTeam' \in [Devices -> Teams \cup {NoWrite}]
  BY DEF RaiseEvents, Receive, Types

\* The completion blocks take pending writes away, and acknowledge those that were applied.
LEMMA CompletionsRun ==
  ASSUME Types, NEW d \in Devices, NEW answers \in Seq(Answers), RunCompletions(d, answers)
  PROVE  /\ allWrites' \in [Devices -> SUBSET Writes]
         /\ acked' \in [Devices -> SUBSET Writes]
         /\ receivedTeam' \in [Devices -> Teams \cup {NoWrite}]
         /\ \A e \in Devices : e # d => acked'[e] = acked[e]
         /\ acked[d] \subseteq acked'[d]
         /\ \A w \in acked'[d] :
              w \in acked[d] \/ \E i \in DOMAIN answers : answers[i].ok /\ w = answers[i].write
  <1> DEFINE left == AckWrites(allWrites[d], answers)
             new == {a.write : a \in {x \in ToSet(answers) : x.ok}}
  <1>1. /\ allWrites' = [allWrites EXCEPT ![d] = left]
        /\ acked' = [acked EXCEPT ![d] = @ \cup new]
        /\ RaiseEvents(d, serverCache[d], left)
    BY DEF RunCompletions
  <1>2. left \subseteq allWrites[d]
    BY DEF AckWrites
  <1>3. \A w \in new : w \in Writes /\ \E i \in DOMAIN answers : answers[i].ok /\ w = answers[i].write
    <2>1. \A i \in DOMAIN answers : answers[i] \in Answers
      OBVIOUS
    <2>2. \A a \in Answers : a.write \in Writes
      BY DEF Answers
    <2> QED
      BY <2>1, <2>2 DEF ToSet
  <1> HIDE DEF left, new
  <1>4. receivedTeam' \in [Devices -> Teams \cup {NoWrite}]
    BY <1>1, EventsRaised
  <1>5. /\ acked' \in [Devices -> SUBSET Writes]
        /\ acked'[d] = acked[d] \cup new
        /\ \A e \in Devices : e # d => acked'[e] = acked[e]
    BY <1>1, <1>3 DEF Types
  <1> QED
    BY <1>1, <1>2, <1>3, <1>4, <1>5 DEF Types

\* The device takes data: the tree it asked for, or a change.
LEMMA OnDataUpdateStep ==
  ASSUME IInv, NEW d \in Devices, OnDataUpdate(d)
  PROVE  IInv'
  <1>0. DeviceInv(d) /\ Types
    BY DEF IInv
  <1>1. PICK kind : TakeResponse(d, kind) /\ kind \in {"tree", "change"}
    BY DEF OnDataUpdate
  <1>2. /\ UNCHANGED <<conn, observers, unacked, puts, putsToAck, allWrites, issued, requests,
                       listening, db, acked>>
        /\ RaiseEvents(d, serverCache'[d], allWrites[d])
    BY DEF OnDataUpdate, serverVars
  <1>3. /\ responses' \in [Devices -> Seq(Messages)]
        /\ ~IsPutAnswer(d, 1) /\ ~IsListenAnswer(d, 1) /\ responses[d] # <<>>
        /\ \A k : IsPutAnswer(d, k)' => /\ k \in Nat /\ IsPutAnswer(d, k + 1)
                                        /\ responses'[d][k] = responses[d][k + 1]
        /\ \A k : IsListenAnswer(d, k)' => k \in Nat /\ IsListenAnswer(d, k + 1)
        /\ \A k : IsPutAnswer(d, k) => IsPutAnswer(d, k - 1)' /\ responses'[d][k - 1] = responses[d][k]
        /\ \A e \in Devices : e # d => responses'[e] = responses[e]
        /\ Head(responses[d]) \in Messages /\ Head(responses[d]).kind = kind
    BY <1>0, <1>1, ResponseTaken
  <1>5. Types'
    <2>1. receivedTeam' \in [Devices -> Teams \cup {NoWrite}]
      BY <1>0, <1>2, EventsRaised
    <2> QED
      BY <1>0, <1>2, <1>3, <2>1 DEF Types
  <1>6. ASSUME NEW e \in Devices, e # d PROVE DeviceInv(e)'
    <2>1. responses'[e] = responses[e]
      BY <1>3, <1>6
    <2> QED
      BY <1>0, <1>2, <2>1, OtherDevice DEF IInv
  <1>7. DeviceInv(d)'
    <2>1. /\ \A i : IsListen(d, i)' <=> IsListen(d, i)
          /\ \A i : IsPut(d, i)' <=> IsPut(d, i)
          /\ Read(d)' = Read(d)
          /\ conn[d] # "disconnected"
      BY <1>0, <1>2, <1>3 DEF IsListen, IsPut, Read, DeviceInv, ListenInv
    <2>2. ListenInv(d)'
      <3>1. \A k, l : IsListenAnswer(d, k)' /\ IsListenAnswer(d, l)' => k = l
        <4>1. \A k, l : IsListenAnswer(d, k)' /\ IsListenAnswer(d, l)' =>
                          k \in Nat /\ l \in Nat /\ k + 1 = l + 1
          BY <1>0, <1>3, <2>1 DEF DeviceInv, ListenInv, Types
        <4> QED
          BY <4>1
      <3> QED
        BY <1>0, <1>2, <1>3, <2>1, <3>1 DEF DeviceInv, ListenInv
    <2>3. OwnInv(d)'
      BY <1>0, <1>2, <1>3, <2>1 DEF DeviceInv, OwnInv
    <2>4. OrderInv(d)'
      <3>1. \A k, l : IsPutAnswer(d, k)' /\ IsPutAnswer(d, l)' /\ k < l => k + 1 < l + 1
        BY <1>3
      <3>2. OrderInv(d) /\ requests' = requests /\ puts' = puts
        BY <1>0, <1>2 DEF DeviceInv
      <3>3. \A k, l : IsPutAnswer(d, k)' /\ IsPutAnswer(d, l)' /\ k < l =>
                        responses'[d][k].write.n < responses'[d][l].write.n
        BY <1>3, <3>1, <3>2 DEF OrderInv
      <3>4. \A k : IsPutAnswer(d, k)' =>
              /\ \A i : IsPut(d, i) => responses'[d][k].write.n < requests[d][i].write.n
              /\ \A w \in Read(d) : w.n < responses'[d][k].write.n
        BY <1>3, <3>2 DEF OrderInv
      <3> QED
        BY <2>1, <3>2, <3>3, <3>4 DEF OrderInv
    <2>5. CoverInv(d)'
      <3> SUFFICES ASSUME conn[d] = "connected", NEW p \in puts[d]
                   PROVE  \/ \E i : IsPut(d, i)' /\ requests'[d][i].write = p.write
                          \/ \E k : IsPutAnswer(d, k)' /\ responses'[d][k].write = p.write
        BY <1>2 DEF CoverInv
      <3>1. CASE \E i : IsPut(d, i) /\ requests[d][i].write = p.write
        BY <1>2, <2>1, <3>1
      <3>2. CASE \E k : IsPutAnswer(d, k) /\ responses[d][k].write = p.write
        BY <1>3, <3>2
      <3> QED
        BY <1>0, <3>1, <3>2 DEF DeviceInv, CoverInv
    <2>6. StandInv(d)'
      BY <1>0, <1>2, <1>3 DEF DeviceInv, StandInv
    <2> QED
      BY <2>2, <2>3, <2>4, <2>5, <2>6 DEF DeviceInv
  <1> QED
    BY <1>5, <1>6, <1>7 DEF IInv

\* The device takes the answer to a put: it runs the completion, or holds it back.
LEMMA OnPutAnswerStep ==
  ASSUME IInv, NEW d \in Devices, OnPutAnswer(d)
  PROVE  IInv'
  <1>0. DeviceInv(d) /\ Types
    BY DEF IInv
  <1>1. PICK m : m = Head(responses[d])
    OBVIOUS
  <1> DEFINE w == m.write
             answer == [write |-> m.write, ok |-> m.ok]
  <1>2. /\ TakeResponse(d, "putAnswer")
        /\ puts' = [puts EXCEPT ![d] = {p \in @ : p.write # w}]
        /\ \/ RunCompletions(d, <<answer>>) /\ UNCHANGED putsToAck
           \/ /\ unacked[d] # 0
              /\ putsToAck' = [putsToAck EXCEPT ![d] = Append(@, answer)]
              /\ UNCHANGED <<allWrites, acked, receivedTeam>>
        /\ UNCHANGED <<conn, observers, unacked, issued, requests, listening, db>>
    BY <1>1 DEF OnPutAnswer, serverVars
  <1>3. /\ responses' \in [Devices -> Seq(Messages)]
        /\ responses[d][1] = m /\ m \in Messages /\ m.kind = "putAnswer" /\ responses[d] # <<>>
        /\ IsPutAnswer(d, 1)
        /\ \A k : IsPutAnswer(d, k)' => /\ k \in Nat /\ k >= 1 /\ IsPutAnswer(d, k + 1)
                                        /\ responses'[d][k] = responses[d][k + 1]
        /\ \A k : IsListenAnswer(d, k)' => k \in Nat /\ k >= 1 /\ IsListenAnswer(d, k + 1)
        /\ \A k : IsPutAnswer(d, k) /\ k # 1 =>
                    IsPutAnswer(d, k - 1)' /\ responses'[d][k - 1] = responses[d][k]
        /\ \A k : IsPutAnswer(d, k) => k \in Nat /\ k >= 1
        /\ \A e \in Devices : e # d => responses'[e] = responses[e]
    BY <1>0, <1>1, <1>2, ResponseTaken
  <1>4. w \in Writes /\ m.ok \in BOOLEAN /\ w.dev = d /\ w.n <= issued[d]
        /\ (m.ok => Stands(db, d, w))
    BY <1>0, <1>3, MessageFacts DEF DeviceInv, OwnInv, StandInv
  <1>5. answer \in Answers /\ answer.write = w /\ answer.ok = m.ok
    BY <1>4 DEF Answers
  <1> HIDE DEF answer, w
  <1>6. /\ acked' \in [Devices -> SUBSET Writes]
        /\ putsToAck' \in [Devices -> Seq(Answers)]
        /\ allWrites' \in [Devices -> SUBSET Writes]
        /\ receivedTeam' \in [Devices -> Teams \cup {NoWrite}]
        /\ \A e \in Devices : e # d => acked'[e] = acked[e] /\ putsToAck'[e] = putsToAck[e]
        /\ Read(d)' \subseteq Read(d) \cup {w}
        /\ \A x \in acked'[d] : x \in acked[d] \/ (m.ok /\ x = w)
        /\ \A k \in DOMAIN putsToAck'[d] :
             \/ k \in DOMAIN putsToAck[d] /\ putsToAck'[d][k] = putsToAck[d][k]
             \/ putsToAck'[d][k] = answer
        /\ unacked[d] = 0 => putsToAck'[d] = putsToAck[d]
    <2>1. CASE RunCompletions(d, <<answer>>) /\ UNCHANGED putsToAck
      <3>1. <<answer>> \in Seq(Answers) /\ DOMAIN <<answer>> = {1} /\ <<answer>>[1] = answer
        BY <1>5
      <3>2. /\ allWrites' \in [Devices -> SUBSET Writes]
            /\ acked' \in [Devices -> SUBSET Writes]
            /\ receivedTeam' \in [Devices -> Teams \cup {NoWrite}]
            /\ \A e \in Devices : e # d => acked'[e] = acked[e]
            /\ \A x \in acked'[d] :
                 x \in acked[d] \/ \E i \in DOMAIN <<answer>> : <<answer>>[i].ok /\ x = <<answer>>[i].write
        BY <1>0, <2>1, <3>1, CompletionsRun
      <3>3. \A x \in acked'[d] : x \in acked[d] \/ (m.ok /\ x = w)
        BY <1>5, <3>1, <3>2
      <3>4. Read(d)' \subseteq Read(d) \cup {w}
        BY <2>1, <3>3 DEF Read
      <3> QED
        BY <1>0, <2>1, <3>2, <3>3, <3>4 DEF Types
    <2>2. CASE /\ unacked[d] # 0
               /\ putsToAck' = [putsToAck EXCEPT ![d] = Append(@, answer)]
               /\ UNCHANGED <<allWrites, acked, receivedTeam>>
      <3>1. putsToAck[d] \in Seq(Answers) /\ putsToAck'[d] = Append(putsToAck[d], answer)
        BY <1>0, <2>2 DEF Types
      <3>2. /\ putsToAck'[d] \in Seq(Answers)
            /\ \A k \in DOMAIN putsToAck'[d] :
                 \/ k \in DOMAIN putsToAck[d] /\ putsToAck'[d][k] = putsToAck[d][k]
                 \/ putsToAck'[d][k] = answer
        BY <1>5, <3>1, AppendPositions
      <3>3. Read(d)' \subseteq Read(d) \cup {w}
        BY <1>5, <2>2, <3>2 DEF Read
      <3>4. /\ putsToAck' \in [Devices -> Seq(Answers)]
            /\ \A e \in Devices : e # d => putsToAck'[e] = putsToAck[e]
        BY <1>0, <2>2, <3>1, <3>2 DEF Types
      <3> QED
        BY <1>0, <2>2, <3>2, <3>3, <3>4 DEF Types
    <2> QED
      BY <1>2, <2>1, <2>2
  <1>7. /\ puts'[d] = {p \in puts[d] : p.write # w}
        /\ puts' \in [Devices -> SUBSET [write : Writes, sent : BOOLEAN]]
        /\ \A e \in Devices : e # d => puts'[e] = puts[e]
    BY <1>0, <1>2 DEF Types
  <1>8. Types'
    <2>1. \A e \in Devices : IsFiniteSet(puts'[e])
      <3>1. IsFiniteSet(puts'[d])
        BY <1>0, <1>7, FS_Subset DEF Types
      <3> QED
        BY <1>0, <1>7, <3>1 DEF Types
    <2> QED
      BY <1>0, <1>2, <1>3, <1>6, <1>7, <2>1 DEF Types
  <1>9. ASSUME NEW e \in Devices, e # d PROVE DeviceInv(e)'
    <2>1. responses'[e] = responses[e] /\ acked'[e] = acked[e] /\ putsToAck'[e] = putsToAck[e]
          /\ puts'[e] = puts[e]
      BY <1>3, <1>6, <1>7, <1>9
    <2> QED
      BY <1>0, <1>2, <2>1, OtherDevice DEF IInv
  <1>10. DeviceInv(d)'
    <2>1. /\ \A i : IsListen(d, i)' <=> IsListen(d, i)
          /\ \A i : IsPut(d, i)' <=> IsPut(d, i)
          /\ requests' = requests
          /\ conn[d] = "connected" /\ conn'[d] = "connected"
      BY <1>0, <1>2, <1>3 DEF IsListen, IsPut, DeviceInv, ListenInv, Types
    <2>2. ListenInv(d)'
      <3>1. \A k, l : IsListenAnswer(d, k)' /\ IsListenAnswer(d, l)' => k = l
        <4>1. \A k, l : IsListenAnswer(d, k)' /\ IsListenAnswer(d, l)' =>
                          k \in Nat /\ l \in Nat /\ k + 1 = l + 1
          BY <1>0, <1>3, <2>1 DEF DeviceInv, ListenInv
        <4> QED
          BY <4>1
      <3>2. putsToAck'[d] # <<>> => observers[d] > 0 /\ unacked[d] = 1
        BY <1>0, <1>6, <2>1 DEF DeviceInv, ListenInv
      <3> QED
        BY <1>0, <1>2, <1>3, <2>1, <3>1, <3>2 DEF DeviceInv, ListenInv
    <2>3. OwnInv(d)'
      <3>1. OwnInv(d) /\ issued' = issued
        BY <1>0, <1>2 DEF DeviceInv
      <3>2. \A k : IsPutAnswer(d, k)' => responses'[d][k].write.dev = d /\ responses'[d][k].write.n <= issued[d]
        BY <1>3, <3>1 DEF OwnInv
      <3>3. \A p \in puts'[d] : p.write.dev = d /\ p.write.n <= issued[d]
        BY <1>7, <3>1 DEF OwnInv
      <3>4. \A x \in Read(d)' : x.n <= issued[d]
        BY <1>4, <1>6, <3>1 DEF OwnInv
      <3>5. \A i : IsPut(d, i)' => requests'[d][i].write.dev = d /\ requests'[d][i].write.n <= issued[d]
        BY <2>1, <3>1 DEF OwnInv
      <3> QED
        BY <3>1, <3>2, <3>3, <3>4, <3>5 DEF OwnInv
    <2>4. OrderInv(d)'
      <3>0. OrderInv(d)
        BY <1>0 DEF DeviceInv
      <3>1. \A k, l : IsPutAnswer(d, k)' /\ IsPutAnswer(d, l)' /\ k < l => k + 1 < l + 1
        BY <1>3
      <3>2. \A k, l : IsPutAnswer(d, k)' /\ IsPutAnswer(d, l)' /\ k < l =>
                        responses'[d][k].write.n < responses'[d][l].write.n
        <4>1. \A k, l : IsPutAnswer(d, k) /\ IsPutAnswer(d, l) /\ k < l =>
                          responses[d][k].write.n < responses[d][l].write.n
          BY <3>0 DEF OrderInv
        <4> SUFFICES ASSUME NEW k, NEW l, IsPutAnswer(d, k)', IsPutAnswer(d, l)', k < l
                     PROVE  responses'[d][k].write.n < responses'[d][l].write.n
          OBVIOUS
        <4>2. IsPutAnswer(d, k + 1) /\ IsPutAnswer(d, l + 1) /\ k + 1 < l + 1
          BY <1>3, <3>1
        <4>3. responses'[d][k] = responses[d][k + 1] /\ responses'[d][l] = responses[d][l + 1]
          BY <1>3
        <4> QED
          BY <4>1, <4>2, <4>3
      <3>3. \A k : IsPutAnswer(d, k)' =>
              /\ \A i : IsPut(d, i) => responses'[d][k].write.n < requests[d][i].write.n
              /\ \A x \in Read(d) : x.n < responses'[d][k].write.n
        BY <1>3, <3>0 DEF OrderInv
      <3>4. /\ \A i : IsPut(d, i) => w.n < requests[d][i].write.n
            /\ \A k : IsPutAnswer(d, k) /\ k # 1 => w.n < responses[d][k].write.n
        <4>1. \A k : IsPutAnswer(d, k) /\ k # 1 => 1 < k
          BY <1>3
        <4> QED
          BY <1>3, <3>0, <4>1 DEF OrderInv, w
      <3>5. \A k : IsPutAnswer(d, k)' => w.n < responses'[d][k].write.n
        BY <1>3, <3>4
      <3>6. \A p \in puts'[d] : w.n < p.write.n
        <4> SUFFICES ASSUME NEW p \in puts[d], p.write # w PROVE w.n < p.write.n
          BY <1>7
        <4>1. \/ \E i : IsPut(d, i) /\ requests[d][i].write = p.write
              \/ \E k : IsPutAnswer(d, k) /\ k # 1 /\ responses[d][k].write = p.write
          BY <1>0, <1>3, <2>1 DEF DeviceInv, CoverInv, w
        <4> QED
          BY <3>4, <4>1
      <3>7. \A x \in Read(d) : /\ \A i : IsPut(d, i) => x.n < requests[d][i].write.n
                               /\ \A p \in puts'[d] : x.n < p.write.n
        BY <1>7, <3>0 DEF OrderInv
      <3>8. \A i, j : IsPut(d, i) /\ IsPut(d, j) /\ i < j => requests[d][i].write.n < requests[d][j].write.n
        BY <3>0 DEF OrderInv
      <3> QED
        BY <1>6, <2>1, <3>2, <3>3, <3>4, <3>5, <3>6, <3>7, <3>8 DEF OrderInv
    <2>5. CoverInv(d)'
      <3> SUFFICES ASSUME NEW p \in puts[d], p.write # w
                   PROVE  \/ \E i : IsPut(d, i)' /\ requests'[d][i].write = p.write
                          \/ \E k : IsPutAnswer(d, k)' /\ responses'[d][k].write = p.write
        BY <1>7 DEF CoverInv
      <3>1. CASE \E i : IsPut(d, i) /\ requests[d][i].write = p.write
        BY <2>1, <3>1
      <3>2. CASE \E k : IsPutAnswer(d, k) /\ responses[d][k].write = p.write
        BY <1>3, <3>2 DEF w
      <3> QED
        BY <1>0, <2>1, <3>1, <3>2 DEF DeviceInv, CoverInv
    <2>6. StandInv(d)'
      <3>1. StandInv(d) /\ db' = db
        BY <1>0, <1>2 DEF DeviceInv
      <3>2. \A x \in acked'[d] : Stands(db, d, x)
        BY <1>4, <1>6, <3>1 DEF StandInv
      <3>3. \A k \in DOMAIN putsToAck'[d] : putsToAck'[d][k].ok => Stands(db, d, putsToAck'[d][k].write)
        BY <1>4, <1>5, <1>6, <3>1 DEF StandInv
      <3>4. \A k : IsPutAnswer(d, k)' /\ responses'[d][k].ok => Stands(db, d, responses'[d][k].write)
        BY <1>3, <3>1 DEF StandInv
      <3> QED
        BY <3>1, <3>2, <3>3, <3>4 DEF StandInv
    <2> QED
      BY <2>2, <2>3, <2>4, <2>5, <2>6 DEF DeviceInv
  <1> QED
    BY <1>8, <1>9, <1>10 DEF IInv

\* The device takes the answer to its listen: what was held back runs now.
LEMMA OnListenAnswerStep ==
  ASSUME IInv, NEW d \in Devices, OnListenAnswer(d)
  PROVE  IInv'
  <1>0. DeviceInv(d) /\ Types
    BY DEF IInv
  <1>1. /\ responses' \in [Devices -> Seq(Messages)]
        /\ IsListenAnswer(d, 1) /\ ~IsPutAnswer(d, 1) /\ responses[d] # <<>>
        /\ \A k : IsPutAnswer(d, k)' => /\ k \in Nat /\ IsPutAnswer(d, k + 1)
                                        /\ responses'[d][k] = responses[d][k + 1]
        /\ \A k : IsListenAnswer(d, k)' => k \in Nat /\ k >= 1 /\ IsListenAnswer(d, k + 1)
        /\ \A k : IsPutAnswer(d, k) => IsPutAnswer(d, k - 1)' /\ responses'[d][k - 1] = responses[d][k]
        /\ \A e \in Devices : e # d => responses'[e] = responses[e]
    <2>1. TakeResponse(d, "listenAnswer") /\ "listenAnswer" # "putAnswer"
      BY DEF OnListenAnswer
    <2> QED
      BY <1>0, <2>1, ResponseTaken
  <1>2. /\ conn[d] = "connected" /\ unacked[d] = 1
        /\ \A i : ~IsListen(d, i)
        /\ \A k : ~IsListenAnswer(d, k)'
    <2>1. conn[d] = "connected"
      BY <1>0, <1>1 DEF DeviceInv, ListenInv, Types
    <2>2. unacked[d] = 1 /\ \A i : ~IsListen(d, i)
      BY <1>0, <1>1, <2>1 DEF DeviceInv, ListenInv
    <2>3. \A k : IsListenAnswer(d, k)' => k + 1 = 1
      BY <1>0, <1>1, <2>1 DEF DeviceInv, ListenInv
    <2>4. \A k : ~IsListenAnswer(d, k)'
      BY <1>1, <2>3
    <2> QED
      BY <2>1, <2>2, <2>4
  <1>3. /\ unacked' = [unacked EXCEPT ![d] = @ - 1]
        /\ observers' = observers \/ observers' = [observers EXCEPT ![d] = 0]
        /\ IF unacked'[d] = 0
             THEN /\ RunCompletions(d, putsToAck[d])
                  /\ putsToAck' = [putsToAck EXCEPT ![d] = <<>>]
             ELSE UNCHANGED <<allWrites, acked, receivedTeam, putsToAck>>
        /\ UNCHANGED <<conn, puts, issued, requests, listening, db>>
    BY DEF OnListenAnswer, serverVars
  <1>4. /\ unacked'[d] = 0 /\ unacked' \in [Devices -> Int]
        /\ \A e \in Devices : e # d => unacked'[e] = unacked[e] /\ observers'[e] = observers[e]
        /\ observers' \in [Devices -> 0 .. MaxObservers]
    <2>1. 0 \in 0 .. MaxObservers
      BY BoundsAssumption
    <2>2. observers' \in [Devices -> 0 .. MaxObservers]
      BY <1>0, <1>3, <2>1 DEF Types
    <2>3. \A e \in Devices : e # d => unacked'[e] = unacked[e] /\ observers'[e] = observers[e]
      BY <1>0, <1>3 DEF Types
    <2>4. unacked' \in [Devices -> Int] /\ unacked'[d] = unacked[d] - 1
      BY <1>0, <1>3 DEF Types
    <2> QED
      BY <1>2, <2>2, <2>3, <2>4
  <1>5. /\ putsToAck' = [putsToAck EXCEPT ![d] = <<>>]
        /\ RunCompletions(d, putsToAck[d])
        /\ putsToAck[d] \in Seq(Answers)
    BY <1>0, <1>3, <1>4 DEF Types
  <1>6. /\ allWrites' \in [Devices -> SUBSET Writes]
        /\ acked' \in [Devices -> SUBSET Writes]
        /\ receivedTeam' \in [Devices -> Teams \cup {NoWrite}]
        /\ \A e \in Devices : e # d => acked'[e] = acked[e]
        /\ \A w \in acked'[d] :
             w \in acked[d] \/ \E i \in DOMAIN putsToAck[d] : putsToAck[d][i].ok /\ w = putsToAck[d][i].write
    BY <1>0, <1>5, CompletionsRun
  <1>7. /\ putsToAck' \in [Devices -> Seq(Answers)] /\ putsToAck'[d] = <<>>
        /\ \A e \in Devices : e # d => putsToAck'[e] = putsToAck[e]
        /\ Read(d)' \subseteq Read(d)
    <2>1. /\ putsToAck' \in [Devices -> Seq(Answers)] /\ putsToAck'[d] = <<>>
          /\ \A e \in Devices : e # d => putsToAck'[e] = putsToAck[e]
      BY <1>0, <1>5 DEF Types
    <2>2. Read(d)' = acked'[d]
      BY <2>1 DEF Read
    <2>3. acked'[d] \subseteq Read(d)
      BY <1>6 DEF Read
    <2> QED
      BY <2>1, <2>2, <2>3
  <1>8. Types'
    BY <1>0, <1>1, <1>3, <1>4, <1>6, <1>7 DEF Types
  <1>9. ASSUME NEW e \in Devices, e # d PROVE DeviceInv(e)'
    <2>1. responses'[e] = responses[e] /\ acked'[e] = acked[e] /\ putsToAck'[e] = putsToAck[e]
          /\ unacked'[e] = unacked[e] /\ observers'[e] = observers[e]
      BY <1>1, <1>4, <1>6, <1>7, <1>9
    <2> QED
      BY <1>0, <1>3, <2>1, OtherDevice DEF IInv
  <1>10. DeviceInv(d)'
    <2>1. /\ \A i : IsListen(d, i)' <=> IsListen(d, i)
          /\ \A i : IsPut(d, i)' <=> IsPut(d, i)
          /\ requests' = requests /\ puts' = puts /\ conn'[d] = "connected"
      BY <1>2, <1>3 DEF IsListen, IsPut
    <2>2. ListenInv(d)'
      BY <1>2, <1>4, <1>7, <2>1 DEF ListenInv
    <2>3. OwnInv(d)'
      <3>1. OwnInv(d) /\ issued' = issued
        BY <1>0, <1>3 DEF DeviceInv
      <3>2. \A k : IsPutAnswer(d, k)' => responses'[d][k].write.dev = d /\ responses'[d][k].write.n <= issued[d]
        BY <1>1, <3>1 DEF OwnInv
      <3>3. \A x \in Read(d)' : x.n <= issued[d]
        BY <1>7, <3>1 DEF OwnInv
      <3> QED
        BY <2>1, <3>1, <3>2, <3>3 DEF OwnInv
    <2>4. OrderInv(d)'
      <3>0. OrderInv(d)
        BY <1>0 DEF DeviceInv
      <3>1. \A k, l : IsPutAnswer(d, k)' /\ IsPutAnswer(d, l)' /\ k < l => k + 1 < l + 1
        BY <1>1
      <3>2. \A k, l : IsPutAnswer(d, k)' /\ IsPutAnswer(d, l)' /\ k < l =>
                        responses'[d][k].write.n < responses'[d][l].write.n
        BY <1>1, <3>0, <3>1 DEF OrderInv
      <3>3. \A k : IsPutAnswer(d, k)' =>
              /\ \A i : IsPut(d, i) => responses'[d][k].write.n < requests[d][i].write.n
              /\ \A x \in Read(d) : x.n < responses'[d][k].write.n
        BY <1>1, <3>0 DEF OrderInv
      <3> QED
        BY <1>7, <2>1, <3>0, <3>2, <3>3 DEF OrderInv
    <2>5. CoverInv(d)'
      <3> SUFFICES ASSUME NEW p \in puts[d]
                   PROVE  \/ \E i : IsPut(d, i)' /\ requests'[d][i].write = p.write
                          \/ \E k : IsPutAnswer(d, k)' /\ responses'[d][k].write = p.write
        BY <2>1 DEF CoverInv
      <3>1. CASE \E i : IsPut(d, i) /\ requests[d][i].write = p.write
        BY <2>1, <3>1
      <3>2. CASE \E k : IsPutAnswer(d, k) /\ responses[d][k].write = p.write
        BY <1>1, <3>2
      <3> QED
        BY <1>0, <1>2, <3>1, <3>2 DEF DeviceInv, CoverInv
    <2>6. StandInv(d)'
      <3>1. StandInv(d) /\ db' = db
        BY <1>0, <1>3 DEF DeviceInv
      <3>2. \A x \in acked'[d] : Stands(db, d, x)
        BY <1>6, <3>1 DEF StandInv
      <3>3. \A k : IsPutAnswer(d, k)' /\ responses'[d][k].ok => Stands(db, d, responses'[d][k].write)
        BY <1>1, <3>1 DEF StandInv
      <3> QED
        BY <1>7, <3>1, <3>2, <3>3 DEF StandInv
    <2> QED
      BY <2>2, <2>3, <2>4, <2>5, <2>6 DEF DeviceInv
  <1> QED
    BY <1>8, <1>9, <1>10 DEF IInv

-----------------------------------------------------------------------------
\* Nothing but a step of one device, or of the server for it, changes the state.
LEMMA IInvStep == IInv /\ [Next]_vars => IInv'
  <1> SUFFICES ASSUME IInv, [Next]_vars PROVE IInv'
    OBVIOUS
  <1>1. CASE UNCHANGED vars
    <2>1. UNCHANGED <<conn, observers, unacked, puts, putsToAck, allWrites, receivedTeam, requests,
                      responses, listening, db, issued, acked>>
      BY <1>1 DEF vars, appVars, clientVars, wireVars, serverVars
    <2>2. Types'
      BY <2>1 DEF IInv, Types
    <2>3. ASSUME NEW d \in Devices PROVE DeviceInv(d)'
      BY <2>1, OtherDevice DEF IInv
    <2> QED
      BY <2>2, <2>3 DEF IInv
  <1>2. ASSUME NEW d \in Devices, NEW t \in Teams, CreateTeam(d, t) \/ AddPlayerToFirebase(d, t)
        PROVE  IInv'
    BY <1>2, SetValueStep DEF CreateTeam, AddPlayerToFirebase
  <1>3. ASSUME NEW d \in Devices,
               \/ FetchTeams(d) \/ OnReady(d) \/ OnDisconnect(d) \/ Relaunch(d)
               \/ ServerListens(d) \/ ServerApplies(d) \/ ServerRefuses(d)
               \/ OnDataUpdate(d) \/ OnPutAnswer(d) \/ OnListenAnswer(d)
        PROVE  IInv'
    BY <1>3, FetchTeamsStep, OnReadyStep, LoseConnectionStep, ServerListensStep, ServerAppliesStep,
       ServerRefusesStep, OnDataUpdateStep, OnPutAnswerStep, OnListenAnswerStep
  <1> QED
    BY <1>1, <1>2, <1>3 DEF Next

\* The inductive invariant holds throughout.
THEOREM Invariant == Spec => []IInv
  <1> QED
    BY InitIInv, IInvStep, PTL DEF Spec

\* What a device was told of as done stays done: no put that is sent again after a lost
\* connection or a relaunch can bring back an older write of the device (restoreState,
\* sendPut, ackWrite).
THEOREM AckedWritesStand == Spec => []AckedNotUndone
  <1>1. IInv => AckedNotUndone
    BY DEF IInv, DeviceInv, StandInv, Stands, AckedNotUndone
  <1> QED
    BY <1>1, Invariant, PTL

-----------------------------------------------------------------------------
(* What a device knows of "Team": a change comes only to a device that has the tree, or is *)
(* about to read it.                                                                       *)

At(s, k, kind) == k \in DOMAIN s /\ s[k].kind = kind
HasTree(s) == \E k : At(s, k, "tree")
HasChange(s) == \E k : At(s, k, "change")
HasRefusal(s) == \E k : At(s, k, "listenAnswer") /\ ~s[k].ok
TreeFirst(s) == \A k : At(s, k, "change") => \E j : At(s, j, "tree") /\ j < k

\* The tree comes before the changes that are on their way and those that will be sent.
\* Besides, a device that changes are sent to has observers and no other listen on its way.
CacheInv(d) ==
  /\ serverCache[d] = NoData => TreeFirst(responses[d]) /\ (d \in listening => HasTree(responses[d]))
  /\ d \in listening \/ HasChange(responses[d]) =>
       observers[d] > 0 /\ (\A i : ~IsListen(d, i)) /\ ~HasRefusal(responses[d])

Caches == serverCache \in [Devices -> Trees \cup {NoData}] /\ \A d \in Devices : CacheInv(d)

\* A message put behind others.
LEMMA MessageAt ==
  ASSUME NEW s \in Seq(Messages), NEW m \in Messages
  PROVE  /\ \A k, kind : At(Append(s, m), k, kind) <=>
              At(s, k, kind) \/ (k = Len(s) + 1 /\ m.kind = kind)
         /\ \A k, kind : At(s, k, kind) => /\ Append(s, m)[k] = s[k]
                                           /\ k \in Nat /\ k < Len(s) + 1
         /\ Append(s, m)[Len(s) + 1] = m
         /\ Len(s) + 1 \in Nat /\ Append(s, m) \in Seq(Messages)
  BY AppendPositions DEF At

\* What a message adds to the responses behind which it is sent.
LEMMA MessageBehind ==
  ASSUME NEW s \in Seq(Messages), NEW m \in Messages
  PROVE  /\ Append(s, m) \in Seq(Messages)
         /\ HasTree(s) \/ m.kind = "tree" => HasTree(Append(s, m))
         /\ TreeFirst(s) /\ (m.kind = "change" => HasTree(s)) => TreeFirst(Append(s, m))
         /\ HasChange(Append(s, m)) => HasChange(s) \/ m.kind = "change"
         /\ HasRefusal(Append(s, m)) => HasRefusal(s) \/ (m.kind = "listenAnswer" /\ ~m.ok)
  <1> DEFINE t == Append(s, m)
             last == Len(s) + 1
  <1>1. /\ \A k, kind : At(t, k, kind) <=> At(s, k, kind) \/ (k = last /\ m.kind = kind)
        /\ \A k, kind : At(s, k, kind) => t[k] = s[k] /\ k \in Nat /\ k < last
        /\ t[last] = m /\ last \in Nat /\ t \in Seq(Messages)
    BY MessageAt, Zenon
  <1> HIDE DEF t, last
  <1>2. HasTree(s) \/ m.kind = "tree" => HasTree(t)
    BY <1>1 DEF HasTree
  <1>3. ASSUME TreeFirst(s), m.kind = "change" => HasTree(s), NEW k, At(t, k, "change")
        PROVE  \E j : At(t, j, "tree") /\ j < k
    <2>1. CASE At(s, k, "change")
      BY <1>1, <1>3, <2>1 DEF TreeFirst
    <2>2. CASE k = last /\ m.kind = "change"
      BY <1>1, <1>3, <2>2 DEF HasTree
    <2> QED
      BY <1>1, <1>3, <2>1, <2>2
  <1>4. TreeFirst(s) /\ (m.kind = "change" => HasTree(s)) => TreeFirst(t)
    BY <1>3 DEF TreeFirst
  <1>5. HasChange(t) => HasChange(s) \/ m.kind = "change"
    BY <1>1 DEF HasChange
  <1>6. HasRefusal(t) => HasRefusal(s) \/ (m.kind = "listenAnswer" /\ ~m.ok)
    BY <1>1 DEF HasRefusal
  <1> QED
    BY <1>1, <1>2, <1>4, <1>5, <1>6 DEF t

\* The first message taken.
LEMMA MessageGone ==
  ASSUME NEW s \in Seq(Messages), s # <<>>
  PROVE  /\ Head(s).kind # "tree" /\ HasTree(s) => HasTree(Tail(s))
         /\ Head(s).kind # "tree" /\ TreeFirst(s) => TreeFirst(Tail(s))
         /\ Head(s).kind = "change" => HasChange(s) /\ ~TreeFirst(s)
         /\ Head(s).kind = "listenAnswer" /\ ~Head(s).ok => HasRefusal(s)
         /\ HasChange(Tail(s)) => HasChange(s)
         /\ HasRefusal(Tail(s)) => HasRefusal(s)
         /\ ~HasChange(Tail(s)) => TreeFirst(Tail(s))
  <1>1. /\ Head(s) = s[1] /\ 1 \in DOMAIN s
        /\ \A k, kind : At(Tail(s), k, kind) => k \in Nat /\ k >= 1 /\ At(s, k + 1, kind) /\ Tail(s)[k] = s[k + 1]
        /\ \A k, kind : At(s, k, kind) => k \in Nat /\ k >= 1
        /\ \A k, kind : At(s, k, kind) /\ k # 1 => At(Tail(s), k - 1, kind)
    BY TailPositions DEF At
  <1>2. \A kind : At(s, 1, kind) <=> Head(s).kind = kind
    BY <1>1 DEF At
  <1>3. Head(s).kind = "change" => HasChange(s) /\ ~TreeFirst(s)
    <2>1. \A j : At(s, j, "tree") => ~(j < 1)
      BY <1>1
    <2> QED
      BY <1>2, <2>1 DEF HasChange, TreeFirst
  <1>4. Head(s).kind # "tree" => \A j : At(s, j, "tree") => At(Tail(s), j - 1, "tree") /\ j \in Nat
    BY <1>1, <1>2
  <1>5. Head(s).kind # "tree" /\ HasTree(s) => HasTree(Tail(s))
    BY <1>4 DEF HasTree
  <1>6. ASSUME Head(s).kind # "tree", TreeFirst(s), NEW k, At(Tail(s), k, "change")
        PROVE  \E j : At(Tail(s), j, "tree") /\ j < k
    <2>1. PICK j : At(s, j, "tree") /\ j < k + 1
      BY <1>1, <1>6 DEF TreeFirst
    <2>2. At(Tail(s), j - 1, "tree") /\ j - 1 < k
      BY <1>1, <1>4, <1>6, <2>1
    <2> QED
      BY <2>2
  <1>7. Head(s).kind # "tree" /\ TreeFirst(s) => TreeFirst(Tail(s))
    BY <1>6 DEF TreeFirst
  <1>8. Head(s).kind = "listenAnswer" /\ ~Head(s).ok => HasRefusal(s)
    BY <1>1, <1>2 DEF HasRefusal
  <1>9. HasChange(Tail(s)) => HasChange(s)
    BY <1>1 DEF HasChange
  <1>10. HasRefusal(Tail(s)) => HasRefusal(s)
    BY <1>1 DEF HasRefusal
  <1>11. ~HasChange(Tail(s)) => TreeFirst(Tail(s))
    BY DEF HasChange, TreeFirst
  <1> QED
    BY <1>3, <1>5, <1>7, <1>8, <1>9, <1>10, <1>11

\* Nothing comes in: another device's step, or one that only sends.
LEMMA CacheUnfed ==
  ASSUME NEW d \in Devices, CacheInv(d), responses'[d] = responses[d], serverCache'[d] = serverCache[d],
         d \in listening' <=> d \in listening,
         observers'[d] = observers[d] \/ observers'[d] > 0,
         \A i : IsListen(d, i)' => IsListen(d, i) \/ observers[d] = 0
  PROVE  CacheInv(d)'
  BY DEF CacheInv

\* The server sends a message, behind what it has sent.
LEMMA CacheFed ==
  ASSUME NEW d \in Devices, CacheInv(d), serverCache'[d] = serverCache[d], observers'[d] = observers[d],
         d \in listening' <=> d \in listening,
         (\A i : ~IsListen(d, i)) => (\A i : ~IsListen(d, i)'),
         NEW s \in Seq(Messages),
         serverCache[d] = NoData => TreeFirst(s) /\ (d \in listening => HasTree(s)),
         HasChange(s) => d \in listening \/ HasChange(responses[d]),
         HasRefusal(s) => HasRefusal(responses[d]),
         NEW m \in Messages, responses'[d] = Append(s, m), m.kind = "change" => d \in listening,
         m.kind = "listenAnswer" /\ ~m.ok => d \notin listening /\ ~HasChange(responses[d])
  PROVE  CacheInv(d)'
  <1>1. /\ HasTree(s) \/ m.kind = "tree" => HasTree(responses'[d])
        /\ TreeFirst(s) /\ (m.kind = "change" => HasTree(s)) => TreeFirst(responses'[d])
        /\ HasChange(responses'[d]) => HasChange(s) \/ m.kind = "change"
        /\ HasRefusal(responses'[d]) => HasRefusal(s) \/ (m.kind = "listenAnswer" /\ ~m.ok)
    BY MessageBehind
  <1> QED
    BY <1>1 DEF CacheInv

\* The device has read a message; only a refusal takes the tree from it.
LEMMA CacheRead ==
  ASSUME Types, NEW d \in Devices, CacheInv(d), NEW kind, TakeResponse(d, kind),
         listening' = listening, requests' = requests,
         \/ /\ observers'[d] = observers[d]
            /\ serverCache'[d] = NoData => serverCache[d] = NoData /\ kind # "tree"
         \/ kind = "listenAnswer" /\ ~Head(responses[d]).ok
  PROVE  CacheInv(d)'
  <1> DEFINE s == responses[d]
  <1>1. s \in Seq(Messages) /\ s # <<>> /\ responses'[d] = Tail(s) /\ Head(s).kind = kind
    BY DEF Types, TakeResponse
  <1>2. /\ kind # "tree" /\ HasTree(s) => HasTree(Tail(s))
        /\ kind # "tree" /\ TreeFirst(s) => TreeFirst(Tail(s))
        /\ kind = "listenAnswer" /\ ~Head(s).ok => HasRefusal(s)
        /\ HasChange(Tail(s)) => HasChange(s)
        /\ HasRefusal(Tail(s)) => HasRefusal(s)
        /\ ~HasChange(Tail(s)) => TreeFirst(Tail(s))
    BY <1>1, MessageGone
  <1>3. \A i : IsListen(d, i)' <=> IsListen(d, i)
    BY DEF IsListen
  <1> HIDE DEF s
  <1>4. /\ serverCache[d] = NoData => TreeFirst(s) /\ (d \in listening => HasTree(s))
        /\ d \in listening \/ HasChange(s) =>
             observers[d] > 0 /\ (\A i : ~IsListen(d, i)) /\ ~HasRefusal(s)
    BY DEF CacheInv, s
  <1>5. CASE /\ observers'[d] = observers[d]
             /\ serverCache'[d] = NoData => serverCache[d] = NoData /\ kind # "tree"
    BY <1>1, <1>2, <1>3, <1>4, <1>5 DEF CacheInv
  <1>6. CASE kind = "listenAnswer" /\ ~Head(s).ok
    <2>1. HasRefusal(s) /\ d \notin listening /\ ~HasChange(Tail(s)) /\ TreeFirst(Tail(s))
      BY <1>2, <1>4, <1>6
    <2> QED
      BY <1>1, <2>1 DEF CacheInv
  <1> QED
    BY <1>5, <1>6 DEF s

\* Of a device that the server has nothing for, there is nothing to say.
LEMMA CacheIdle ==
  ASSUME NEW d \in Devices, responses[d] = <<>>, d \notin listening
  PROVE  CacheInv(d)
  BY DEF CacheInv, HasChange, TreeFirst, At

\* What an action that leaves the cache of everyone and a device's wires alone preserves.
LEMMA CachesUnfed ==
  ASSUME Caches, UNCHANGED <<serverCache, responses, listening>>,
         \A e \in Devices : /\ observers'[e] = observers[e] \/ observers'[e] > 0
                            /\ \A i : IsListen(e, i)' => IsListen(e, i) \/ observers[e] = 0
  PROVE  Caches'
  BY CacheUnfed DEF Caches

\* A write adds a put at most to the requests.
LEMMA CachesSetValue ==
  ASSUME IInv, Caches, NEW d \in Devices, NEW t \in Teams, SetValue(d, t)
  PROVE  Caches'
  <1> DEFINE w == [dev |-> d, n |-> issued[d] + 1, team |-> t]
  <1>0. Types
    BY DEF IInv
  <1>1. /\ requests' = requests \/ requests' = [requests EXCEPT ![d] = Append(@, Put(w))]
        /\ UNCHANGED <<serverCache, responses, listening, observers>>
    BY DEF SetValue
  <1>2. w \in Writes
    <2>1. issued[d] + 1 \in Nat
      BY <1>0 DEF Types
    <2> QED
      BY <2>1, WriteFacts
  <1> HIDE DEF w
  <1>3. ASSUME NEW e \in Devices, NEW i, IsListen(e, i)' PROVE IsListen(e, i)
    <2>1. CASE requests' = requests
      BY <1>3, <2>1 DEF IsListen
    <2>2. CASE requests' = [requests EXCEPT ![d] = Append(@, Put(w))]
      <3>1. Put(w) \in Requests /\ Put(w).kind # "listen"
        <4>1. "put" # "listen"
          OBVIOUS
        <4> QED
          BY <1>2, <4>1, RequestFacts
      <3>2. CASE e = d
        BY <1>0, <1>3, <2>2, <3>1, <3>2, RequestAppended
      <3>3. CASE e # d
        <4>1. requests'[e] = requests[e]
          BY <1>0, <2>2, <3>3 DEF Types
        <4> QED
          BY <1>3, <4>1 DEF IsListen
      <3> QED
        BY <3>2, <3>3
    <2> QED
      BY <1>1, <2>1, <2>2
  <1> QED
    BY <1>1, <1>3, CachesUnfed

\* An observer adds a listen at most, if it is the first.
LEMMA CachesFetchTeams ==
  ASSUME IInv, Caches, NEW d \in Devices, FetchTeams(d)
  PROVE  Caches'
  <1>0. Types
    BY DEF IInv
  <1>1. /\ observers' = [observers EXCEPT ![d] = @ + 1]
        /\ requests' = requests \/ observers[d] = 0
        /\ requests' = requests \/ requests' = [requests EXCEPT ![d] = Append(@, Listen)]
        /\ UNCHANGED <<serverCache, responses, listening>>
    BY DEF FetchTeams
  <1>2. ASSUME NEW e \in Devices
        PROVE  /\ observers'[e] = observers[e] \/ observers'[e] > 0
               /\ \A i : IsListen(e, i)' => IsListen(e, i) \/ observers[e] = 0
    <2>1. observers'[e] = observers[e] \/ observers'[e] > 0
      <3>1. observers[d] \in Nat /\ (e # d => observers'[e] = observers[e])
        BY <1>0, <1>1 DEF Types
      <3>2. observers'[d] = observers[d] + 1
        BY <1>0, <1>1 DEF Types
      <3> QED
        BY <3>1, <3>2
    <2>2. e # d => requests'[e] = requests[e]
      BY <1>0, <1>1 DEF Types
    <2> QED
      BY <1>1, <2>1, <2>2 DEF IsListen
  <1> QED
    BY <1>1, <1>2, CachesUnfed

\* A device without a connection is told nothing.
LEMMA CachesOnReady ==
  ASSUME IInv, Caches, NEW d \in Devices, OnReady(d)
  PROVE  Caches'
  <1>0. Types /\ DeviceInv(d)
    BY DEF IInv
  <1>1. UNCHANGED <<serverCache, responses, listening, observers>> /\ conn[d] = "disconnected"
    BY DEF OnReady
  <1>2. responses'[d] = <<>> /\ d \notin listening'
    BY <1>0, <1>1 DEF DeviceInv, ListenInv
  <1>3. CacheInv(d)'
    BY <1>2, CacheIdle DEF CacheInv, HasChange, TreeFirst, At
  <1>4. ASSUME NEW e \in Devices, e # d PROVE CacheInv(e)'
    <2>1. requests'[e] = requests[e]
      BY <1>0, <1>4 DEF Types, OnReady
    <2> QED
      BY <1>1, <2>1, CacheUnfed DEF Caches, IsListen
  <1> QED
    BY <1>1, <1>3, <1>4 DEF Caches

\* With the connection go its responses, and a restart empties the cache.
LEMMA CachesLoseConnection ==
  ASSUME IInv, Caches, NEW d \in Devices, OnDisconnect(d) \/ Relaunch(d)
  PROVE  Caches'
  <1>0. Types
    BY DEF IInv
  <1>1. /\ responses' = [responses EXCEPT ![d] = <<>>]
        /\ listening' = listening \ {d}
        /\ UNCHANGED requests
        /\ observers' = observers \/ observers' = [observers EXCEPT ![d] = 0]
        /\ serverCache' = serverCache \/ serverCache' = [serverCache EXCEPT ![d] = NoData]
    BY DEF OnDisconnect, Relaunch, LoseConnection
  <1>2. responses'[d] = <<>> /\ d \notin listening'
    BY <1>0, <1>1 DEF Types
  <1>3. CacheInv(d)'
    BY <1>2 DEF CacheInv, HasChange, TreeFirst, At
  <1>4. ASSUME NEW e \in Devices, e # d PROVE CacheInv(e)'
    <2>1. /\ responses'[e] = responses[e] /\ serverCache'[e] = serverCache[e]
          /\ observers'[e] = observers[e] /\ (e \in listening' <=> e \in listening)
          /\ \A i : IsListen(e, i)' => IsListen(e, i)
      BY <1>0, <1>1, <1>4 DEF Types, Caches, IsListen
    <2> QED
      BY <2>1, CacheUnfed DEF Caches
  <1>5. serverCache' \in [Devices -> Trees \cup {NoData}]
    BY <1>1 DEF Caches
  <1> QED
    BY <1>3, <1>4, <1>5 DEF Caches

\* The server takes a request: no listen is added.
LEMMA RequestGone ==
  ASSUME Types, NEW d \in Devices, requests[d] # <<>>, TakeRequest(d)
  PROVE  \A e \in Devices : (\A i : ~IsListen(e, i)) => (\A i : ~IsListen(e, i)')
  <1>1. \A i : IsListen(d, i)' => IsListen(d, i + 1)
    BY RequestTaken
  <1>2. \A e \in Devices : e # d => requests'[e] = requests[e]
    BY DEF Types, TakeRequest
  <1> QED
    BY <1>1, <1>2 DEF IsListen

\* A listen that is on its way finds a device to which no changes are sent.
LEMMA CachesServerListens ==
  ASSUME IInv, Caches, NEW d \in Devices, ServerListens(d)
  PROVE  Caches'
  <1> DEFINE tree == [kind |-> "tree", tree |-> db]
             answer == [kind |-> "listenAnswer", ok |-> TRUE]
             s == Append(responses[d], tree)
  <1>0. Types /\ DeviceInv(d) /\ CacheInv(d)
    BY DEF IInv, Caches
  <1>1. /\ requests[d] # <<>> /\ Head(requests[d]).kind = "listen" /\ TakeRequest(d)
        /\ listening' = IF conn[d] = "connected" THEN listening \cup {d} ELSE listening
        /\ responses' = [responses EXCEPT ![d] = IF conn[d] = "connected" THEN @ \o <<tree, answer>> ELSE @]
        /\ UNCHANGED <<serverCache, observers>>
    BY DEF ServerListens, Respond, clientVars
  <1>2. /\ responses[d] \in Seq(Messages) /\ tree \in Messages /\ answer \in Messages
        /\ tree.kind = "tree" /\ answer.kind = "listenAnswer" /\ answer.ok = TRUE
    BY <1>0, MessageKinds DEF Types
  <1>3. /\ "tree" # "change" /\ "listenAnswer" # "change" /\ "tree" # "listenAnswer"
    OBVIOUS
  <1> HIDE DEF tree, answer
  <1>4. /\ conn[d] = "connected" => responses'[d] = Append(s, answer)
        /\ conn[d] # "connected" => responses'[d] = responses[d]
        /\ \A e \in Devices : e # d => responses'[e] = responses[e]
    BY <1>0, <1>1, <1>2, MessagesSent DEF Types
  <1>5. IsListen(d, 1)
    BY <1>0, <1>1, RequestTaken
  <1>6. d \notin listening /\ ~HasChange(responses[d])
    BY <1>0, <1>5 DEF CacheInv
  <1>7. ASSUME NEW e \in Devices, e # d \/ conn[d] # "connected" PROVE CacheInv(e)'
    <2>1. responses'[e] = responses[e] /\ (e \in listening' <=> e \in listening)
      BY <1>1, <1>4, <1>7
    <2>2. (\A i : ~IsListen(e, i)) => (\A i : ~IsListen(e, i)')
      BY <1>0, <1>1, RequestGone
    <2>3. CacheInv(e)
      BY DEF Caches
    <2> QED
      BY <1>1, <2>1, <2>2, <2>3 DEF CacheInv
  <1>8. CASE conn[d] = "connected"
    <2>1. /\ \A i : ~IsListen(d, i)'
          /\ \A k : ~IsListenAnswer(d, k)
          /\ observers[d] > 0
      <3>1. /\ \A k : ~IsListenAnswer(d, k)
            /\ \A i : IsListen(d, i) => i = 1
            /\ observers[d] > 0
        BY <1>0, <1>5, <1>8 DEF DeviceInv, ListenInv
      <3>2. \A i : IsListen(d, i)' => i \in Nat /\ i >= 1 /\ IsListen(d, i + 1)
        BY <1>0, <1>1, RequestTaken
      <3>3. \A i : IsListen(d, i)' => i \in Nat /\ i >= 1 /\ i + 1 = 1
        BY <3>1, <3>2
      <3> QED
        BY <3>1, <3>3
    <2>2. ~HasRefusal(responses[d]) /\ TreeFirst(responses[d])
      BY <1>6, <2>1 DEF HasRefusal, HasChange, TreeFirst, At, IsListenAnswer
    <2>3. s \in Seq(Messages) /\ HasTree(s) /\ TreeFirst(s) /\ ~HasChange(s) /\ ~HasRefusal(s)
      BY <1>2, <1>3, <1>6, <2>2, MessageBehind
    <2> HIDE DEF s
    <2>4. /\ HasTree(Append(s, answer)) /\ TreeFirst(Append(s, answer))
          /\ ~HasRefusal(Append(s, answer))
      BY <1>2, <1>3, <2>3, MessageBehind
    <2>5. responses'[d] = Append(s, answer) /\ observers'[d] = observers[d]
      BY <1>1, <1>4, <1>8
    <2>6. HasTree(responses'[d]) /\ TreeFirst(responses'[d]) /\ ~HasRefusal(responses'[d])
      BY <2>4, <2>5
    <2>7. CacheInv(d)'
      BY <2>1, <2>5, <2>6 DEF CacheInv
    <2> QED
      BY <1>1, <1>7, <2>7 DEF Caches
  <1> QED
    BY <1>1, <1>7, <1>8 DEF Caches

\* The server tells of a change only those who have been sent a tree.
LEMMA CachesServerApplies ==
  ASSUME IInv, Caches, NEW d \in Devices, ServerApplies(d)
  PROVE  Caches'
  <1>0. Types /\ DeviceInv(d)
    BY DEF IInv
  <1>1. PICK w : w = Head(requests[d]).write
    OBVIOUS
  <1> DEFINE change == [kind |-> "change", write |-> w]
             answer == [kind |-> "putAnswer", write |-> w, ok |-> TRUE]
             told(e) == IF e \in listening THEN Append(responses[e], change) ELSE responses[e]
  <1>2. /\ requests[d] # <<>> /\ Head(requests[d]).kind = "put" /\ TakeRequest(d)
        /\ responses' = IF conn[d] = "connected"
                          THEN [[e \in Devices |-> told(e)] EXCEPT ![d] = Append(@, answer)]
                          ELSE [e \in Devices |-> told(e)]
        /\ UNCHANGED <<serverCache, observers, listening>>
    BY <1>1 DEF ServerApplies, clientVars
  <1>3. w \in Writes
    BY <1>0, <1>1, <1>2, RequestTaken, RequestFacts
  <1>4. change \in Messages /\ answer \in Messages /\ change.kind = "change" /\ answer.kind = "putAnswer"
    BY <1>3, MessageKinds
  <1>5. "change" # "listenAnswer" /\ "putAnswer" # "listenAnswer" /\ "putAnswer" # "change"
    OBVIOUS
  <1> HIDE DEF change, answer
  <1>6. ASSUME NEW e \in Devices
        PROVE  /\ told(e) \in Seq(Messages)
               /\ serverCache[e] = NoData => TreeFirst(told(e)) /\ (e \in listening => HasTree(told(e)))
               /\ HasChange(told(e)) => e \in listening \/ HasChange(responses[e])
               /\ HasRefusal(told(e)) => HasRefusal(responses[e])
    <2>1. responses[e] \in Seq(Messages) /\ CacheInv(e)
      BY <1>0 DEF Types, Caches
    <2>2. serverCache[e] = NoData => TreeFirst(responses[e]) /\ (e \in listening => HasTree(responses[e]))
      BY <2>1 DEF CacheInv
    <2>3. CASE e \notin listening
      BY <2>1, <2>2, <2>3
    <2>4. CASE e \in listening
      <3>1. told(e) = Append(responses[e], change)
        BY <2>4
      <3> HIDE DEF told
      <3>2. /\ told(e) \in Seq(Messages)
            /\ HasTree(responses[e]) => HasTree(told(e))
            /\ TreeFirst(responses[e]) /\ HasTree(responses[e]) => TreeFirst(told(e))
            /\ HasRefusal(told(e)) => HasRefusal(responses[e])
        BY <1>4, <1>5, <2>1, <3>1, MessageBehind
      <3> QED
        BY <2>2, <2>4, <3>2
    <2> QED
      BY <2>3, <2>4
  <1>7. ASSUME NEW e \in Devices PROVE (\A i : ~IsListen(e, i)) => (\A i : ~IsListen(e, i)')
    BY <1>0, <1>2, RequestGone
  <1>8. /\ \A e \in Devices : e # d \/ conn[d] # "connected" => responses'[e] = told(e)
        /\ conn[d] = "connected" => responses'[d] = Append(told(d), answer)
    BY <1>2
  <1> HIDE DEF told
  <1>9. ASSUME NEW e \in Devices, e # d \/ conn[d] # "connected" PROVE CacheInv(e)'
    <2>1. responses'[e] = told(e)
      BY <1>8, <1>9
    <2>2. CacheInv(e)
      BY DEF Caches
    <2> QED
      BY <1>2, <1>6, <1>7, <2>1, <2>2 DEF CacheInv
  <1>10. CASE conn[d] = "connected"
    <2>1. responses'[d] = Append(told(d), answer)
      BY <1>8, <1>10
    <2>2. /\ told(d) \in Seq(Messages)
          /\ serverCache[d] = NoData => TreeFirst(told(d)) /\ (d \in listening => HasTree(told(d)))
          /\ HasChange(told(d)) => d \in listening \/ HasChange(responses[d])
          /\ HasRefusal(told(d)) => HasRefusal(responses[d])
      BY <1>6
    <2>3. (\A i : ~IsListen(d, i)) => (\A i : ~IsListen(d, i)')
      BY <1>7
    <2>4. CacheInv(d)
      BY DEF Caches
    <2>5. CacheInv(d)'
      BY <1>2, <1>4, <1>5, <2>1, <2>2, <2>3, <2>4, CacheFed
    <2> QED
      BY <1>2, <1>9, <2>5 DEF Caches
  <1> QED
    BY <1>2, <1>9, <1>10 DEF Caches

\* A refusal ends the listening it answers.
LEMMA CachesServerRefuses ==
  ASSUME IInv, Caches, NEW d \in Devices, ServerRefuses(d)
  PROVE  Caches'
  <1>0. Types /\ DeviceInv(d) /\ CacheInv(d)
    BY DEF IInv, Caches
  <1>1. PICK r : r = Head(requests[d])
    OBVIOUS
  <1> DEFINE answer == IF r.kind = "listen" THEN [kind |-> "listenAnswer", ok |-> FALSE]
                       ELSE [kind |-> "putAnswer", write |-> r.write, ok |-> FALSE]
  <1>2. /\ requests[d] # <<>> /\ TakeRequest(d)
        /\ responses' = [responses EXCEPT ![d] = IF conn[d] = "connected" THEN @ \o <<answer>> ELSE @]
        /\ UNCHANGED <<serverCache, observers, listening>>
    BY <1>1 DEF ServerRefuses, Respond, clientVars
  <1>3. r \in Requests /\ r.kind \in {"listen", "put"} /\ (r.kind = "put" => r.write \in Writes)
    <2>1. r \in Requests
      BY <1>0, <1>1, <1>2, RequestTaken
    <2> QED
      BY <2>1, RequestFacts
  <1>4. /\ answer \in Messages /\ answer.kind \in {"listenAnswer", "putAnswer"}
        /\ answer.kind = "listenAnswer" => r.kind = "listen"
    BY <1>3, MessageKinds
  <1> HIDE DEF answer
  <1>5. /\ responses[d] \in Seq(Messages)
        /\ conn[d] = "connected" => responses'[d] = Append(responses[d], answer)
        /\ conn[d] # "connected" => responses'[d] = responses[d]
        /\ \A e \in Devices : e # d => responses'[e] = responses[e]
    <2>1. responses[d] \in Seq(Messages)
      BY <1>0 DEF Types
    <2>2. responses[d] \o <<answer>> = Append(responses[d], answer)
      BY <1>4, <2>1, MessagesSent
    <2> QED
      BY <1>0, <1>2, <2>1, <2>2 DEF Types
  <1>6. ASSUME NEW e \in Devices, responses'[e] = responses[e] PROVE CacheInv(e)'
    <2>1. (\A i : ~IsListen(e, i)) => (\A i : ~IsListen(e, i)')
      BY <1>0, <1>2, RequestGone
    <2>2. CacheInv(e)
      BY DEF Caches
    <2> QED
      BY <1>2, <1>6, <2>1, <2>2 DEF CacheInv
  <1>7. CASE conn[d] = "connected"
    <2>1. answer.kind = "listenAnswer" => d \notin listening /\ ~HasChange(responses[d])
      <3>1. answer.kind = "listenAnswer" => IsListen(d, 1)
        BY <1>0, <1>1, <1>2, <1>4, RequestTaken
      <3> QED
        BY <1>0, <3>1 DEF CacheInv
    <2>2. serverCache[d] = NoData => TreeFirst(responses[d]) /\ (d \in listening => HasTree(responses[d]))
      BY <1>0 DEF CacheInv
    <2>3. (\A i : ~IsListen(d, i)) => (\A i : ~IsListen(d, i)')
      BY <1>0, <1>2, RequestGone
    <2>4. answer.kind # "change"
      BY <1>4
    <2>5. CacheInv(d)'
      BY <1>0, <1>2, <1>4, <1>5, <1>7, <2>1, <2>2, <2>3, <2>4, CacheFed
    <2> QED
      BY <1>2, <1>5, <1>6, <2>5 DEF Caches
  <1> QED
    BY <1>2, <1>5, <1>6, <1>7 DEF Caches

\* A device that reads a change has the tree to apply it to.
LEMMA CachesOnDataUpdate ==
  ASSUME IInv, Caches, NEW d \in Devices, OnDataUpdate(d)
  PROVE  Caches'
  <1>0. Types /\ CacheInv(d)
    BY DEF IInv, Caches
  <1>1. UNCHANGED <<observers, requests, listening>>
    BY DEF OnDataUpdate
  <1>2. PICK kind \in {"tree", "change"} :
          /\ TakeResponse(d, kind)
          /\ kind = "tree" => serverCache' = [serverCache EXCEPT ![d] = Head(responses[d]).tree]
          /\ kind = "change" => serverCache' = [serverCache EXCEPT ![d] =
                                  [@ EXCEPT ![Head(responses[d]).write.team] = Head(responses[d]).write]]
    <2>1. "tree" # "change"
      OBVIOUS
    <2> QED
      BY <2>1 DEF OnDataUpdate
  <1>3. /\ responses[d] \in Seq(Messages) /\ responses[d] # <<>>
        /\ Head(responses[d]) \in Messages /\ Head(responses[d]).kind = kind
        /\ \A e \in Devices : e # d => responses'[e] = responses[e]
    <2>1. responses[d] \in Seq(Messages)
      BY <1>0 DEF Types
    <2> QED
      BY <1>0, <1>2, <2>1, ResponseTaken
  <1>4. PICK c \in Trees : serverCache' = [serverCache EXCEPT ![d] = c]
    <2>1. CASE kind = "tree"
      <3>1. Head(responses[d]).tree \in Trees
        BY <1>3, <2>1, MessageFacts
      <3> QED
        BY <1>2, <2>1, <3>1
    <2>2. CASE kind = "change"
      <3>1. PICK w : w = Head(responses[d]).write
        OBVIOUS
      <3>2. w \in Writes /\ w.team \in Teams
        BY <1>3, <2>2, <3>1, MessageFacts, WriteFacts
      <3>3. serverCache[d] # NoData
        BY <1>0, <1>3, <2>2, MessageGone DEF CacheInv
      <3>4. serverCache[d] \in Trees
        BY <3>3 DEF Caches
      <3>5. [serverCache[d] EXCEPT ![w.team] = w] \in Trees
        BY <3>2, <3>4 DEF Trees
      <3>6. serverCache' = [serverCache EXCEPT ![d] = [serverCache[d] EXCEPT ![w.team] = w]]
        BY <1>2, <2>2, <3>1
      <3> QED
        BY <3>5, <3>6
    <2> QED
      BY <2>1, <2>2
  <1>5. /\ serverCache' \in [Devices -> Trees \cup {NoData}]
        /\ serverCache'[d] = c
        /\ \A e \in Devices : e # d => serverCache'[e] = serverCache[e]
    BY <1>4 DEF Caches
  <1>6. serverCache'[d] # NoData
    BY <1>5, NoDataAssumption DEF Trees
  <1>7. CacheInv(d)'
    BY <1>0, <1>1, <1>2, <1>6, CacheRead
  <1>8. ASSUME NEW e \in Devices, e # d PROVE CacheInv(e)'
    BY <1>1, <1>3, <1>5, <1>8, CacheUnfed DEF Caches, IsListen
  <1> QED
    BY <1>5, <1>7, <1>8 DEF Caches

\* An answer changes the cache only when it refuses the listen.
LEMMA CachesOnAnswer ==
  ASSUME IInv, Caches, NEW d \in Devices, OnPutAnswer(d) \/ OnListenAnswer(d)
  PROVE  Caches'
  <1>0. Types /\ CacheInv(d)
    BY DEF IInv, Caches
  <1>1. PICK kind \in {"putAnswer", "listenAnswer"} :
          /\ TakeResponse(d, kind)
          /\ UNCHANGED <<requests, listening>>
          /\ \/ UNCHANGED <<observers, serverCache>>
             \/ /\ kind = "listenAnswer" /\ ~Head(responses[d]).ok
                /\ observers' = [observers EXCEPT ![d] = 0]
                /\ serverCache' = [serverCache EXCEPT ![d] = NoData]
    BY DEF OnPutAnswer, OnListenAnswer
  <1>2. \A e \in Devices : e # d => responses'[e] = responses[e]
    BY <1>0, <1>1, ResponseTaken
  <1>3. serverCache' \in [Devices -> Trees \cup {NoData}]
    BY <1>1 DEF Caches
  <1>4. CacheInv(d)'
    <2>1. kind # "tree"
      BY <1>1
    <2> QED
      BY <1>0, <1>1, <2>1, CacheRead
  <1>5. ASSUME NEW e \in Devices, e # d PROVE CacheInv(e)'
    <2>1. observers'[e] = observers[e] /\ serverCache'[e] = serverCache[e]
      BY <1>0, <1>1, <1>5 DEF Types, Caches
    <2> QED
      BY <1>1, <1>2, <1>5, <2>1, CacheUnfed DEF Caches, IsListen
  <1> QED
    BY <1>3, <1>4, <1>5 DEF Caches

\* The caches hold trees throughout.
THEOREM CachesHoldTrees == Spec => []Caches
  <1>1. Init => Caches
    <2> SUFFICES ASSUME Init PROVE Caches
      OBVIOUS
    <2>1. \A d \in Devices : responses[d] = <<>> /\ d \notin listening
      BY DEF Init
    <2>2. \A d \in Devices : CacheInv(d)
      BY <2>1, CacheIdle
    <2>3. serverCache \in [Devices -> Trees \cup {NoData}]
      BY DEF Init
    <2> QED
      BY <2>2, <2>3 DEF Caches
  <1>2. IInv /\ Caches /\ [Next]_vars => Caches'
    <2> SUFFICES ASSUME IInv, Caches, [Next]_vars PROVE Caches'
      OBVIOUS
    <2>1. CASE UNCHANGED vars
      BY <2>1, CachesUnfed DEF vars, appVars, clientVars, wireVars, serverVars, IsListen
    <2>2. ASSUME NEW d \in Devices, NEW t \in Teams, CreateTeam(d, t) \/ AddPlayerToFirebase(d, t)
          PROVE  Caches'
      BY <2>2, CachesSetValue DEF CreateTeam, AddPlayerToFirebase
    <2>3. ASSUME NEW d \in Devices,
                 \/ FetchTeams(d) \/ OnReady(d) \/ OnDisconnect(d) \/ Relaunch(d)
                 \/ ServerListens(d) \/ ServerApplies(d) \/ ServerRefuses(d)
                 \/ OnDataUpdate(d) \/ OnPutAnswer(d) \/ OnListenAnswer(d)
          PROVE  Caches'
      BY <2>3, CachesFetchTeams, CachesOnReady, CachesLoseConnection, CachesServerListens,
         CachesServerApplies, CachesServerRefuses, CachesOnDataUpdate, CachesOnAnswer
    <2> QED
      BY <2>1, <2>2, <2>3 DEF Next
  <1> QED
    BY <1>1, <1>2, Invariant, PTL DEF Spec

\* Every variable holds what its declaration says, and a connection has one unanswered
\* listen at most (sendListen's assertion on unackedListensCount).
THEOREM TypeCorrect == Spec => []TypeOK
  <1>1. IInv /\ Caches => TypeOK
    <2> SUFFICES ASSUME IInv, Caches PROVE TypeOK
      OBVIOUS
    <2>1. unacked \in [Devices -> 0 .. 1]
      BY DEF IInv, Types, DeviceInv, ListenInv
    <2> QED
      BY <2>1 DEF IInv, Types, Caches, TypeOK, Answers
  <1> QED
    BY <1>1, Invariant, CachesHoldTrees, PTL

\* No device ever receives a team: what createTeam writes, at a child of the team's node,
\* has none of the keys Team.init?(snapshot:) reads.
THEOREM NothingIsReceived == Spec => []NothingReceived
  <1>1. Init => NothingReceived
    BY DEF Init, NothingReceived
  <1>2. NothingReceived /\ [Next]_vars => NothingReceived'
    <2> SUFFICES ASSUME NothingReceived, [Next]_vars PROVE NothingReceived'
      OBVIOUS
    <2>1. \A view, t : ~Readable(NodeKeys(view, t))
      BY DEF Readable, NodeKeys
    <2>2. \A d \in Devices : \A view : Receive(d, view) => UNCHANGED receivedTeam
      BY <2>1 DEF Receive
    <2>3. \A d \in Devices : \A cache, writes : RaiseEvents(d, cache, writes) => UNCHANGED receivedTeam
      BY <2>2 DEF RaiseEvents
    <2>4. UNCHANGED receivedTeam \/ \E d \in Devices : Relaunch(d)
      <3>1. CASE UNCHANGED vars
        BY <3>1 DEF vars, appVars
      <3>2. ASSUME NEW d \in Devices, NEW t \in Teams, CreateTeam(d, t) \/ AddPlayerToFirebase(d, t)
            PROVE  UNCHANGED receivedTeam
        BY <2>3, <3>2 DEF CreateTeam, AddPlayerToFirebase, SetValue
      <3>3. ASSUME NEW d \in Devices, FetchTeams(d) PROVE UNCHANGED receivedTeam
        BY <2>2, <3>3 DEF FetchTeams
      <3>4. ASSUME NEW d \in Devices,
                   OnReady(d) \/ OnDisconnect(d) \/ ServerListens(d) \/ ServerApplies(d) \/ ServerRefuses(d)
            PROVE  UNCHANGED receivedTeam
        BY <3>4 DEF OnReady, OnDisconnect, ServerListens, ServerApplies, ServerRefuses, appVars
      <3>5. ASSUME NEW d \in Devices, OnDataUpdate(d) PROVE UNCHANGED receivedTeam
        BY <2>3, <3>5 DEF OnDataUpdate
      <3>6. ASSUME NEW d \in Devices, OnPutAnswer(d) \/ OnListenAnswer(d) PROVE UNCHANGED receivedTeam
        BY <2>3, <3>6 DEF OnPutAnswer, OnListenAnswer, RunCompletions
      <3> QED
        BY <3>1, <3>2, <3>3, <3>4, <3>5, <3>6 DEF Next
    <2>5. ASSUME NEW d \in Devices, Relaunch(d) PROVE NothingReceived'
      <3>1. receivedTeam' = [receivedTeam EXCEPT ![d] = NoWrite]
        BY <2>5 DEF Relaunch
      <3> QED
        BY <3>1 DEF NothingReceived
    <2> QED
      BY <2>4, <2>5 DEF NothingReceived
  <1> QED
    BY <1>1, <1>2, PTL DEF Spec
-----------------------------------------------------------------------------
(* What a device shows of its own writes *)

\* The value v of a node is the write w, or a write the server applied after it.
Follows(v, w) == v = w \/ \E i, j \in DOMAIN applied : i < j /\ applied[i] = w /\ applied[j] = v

\* The tree on the server follows what was applied.
HistoryInv ==
  /\ applied \in Seq(Writes)
  /\ \A i \in DOMAIN applied : Follows(db[applied[i].team], applied[i])

IsApplied(w) == \E i \in DOMAIN applied : applied[i] = w

\* The writes of the device that were applied, and whose answer it has read.
ReadOk(d) == acked[d] \cup {putsToAck[d][k].write : k \in {l \in DOMAIN putsToAck[d] : putsToAck[d][l].ok}}

\* The message has nothing older than w on its node; neither has the cache.
Brings(m, w) ==
  /\ m.kind = "tree" => Follows(m.tree[w.team], w)
  /\ m.kind = "change" /\ m.write.team = w.team => Follows(m.write, w)
Holds(d, w) == serverCache[d] # NoData => Follows(serverCache[d][w.team], w)

\* The data that come behind an answer follow the write it answers.
BehindInv(d) ==
  /\ \A w \in ReadOk(d) : IsApplied(w) /\ \A l \in DOMAIN responses[d] : Brings(responses[d][l], w)
  /\ \A k : IsPutAnswer(d, k) /\ responses[d][k].ok =>
       /\ IsApplied(responses[d][k].write)
       /\ \A l \in DOMAIN responses[d] : k < l => Brings(responses[d][l], responses[d][k].write)

\* The tree comes with the answer to the listen.
AnsweredInv(d) == \A k : At(responses[d], k, "tree") => IsListenAnswer(d, k + 1)

\* A device with observers is told of changes, or its listen is on its way, or refused.
ObserversInv(d) ==
  /\ AnsweredInv(d)
  /\ observers[d] = 0 => serverCache[d] = NoData
  /\ conn[d] = "connected" /\ observers[d] > 0 =>
       d \in listening \/ (\E i : IsListen(d, i)) \/ HasRefusal(responses[d])

\* When a completion runs, the cache follows the write: the tree has come right before the
\* answer to the listen, or the change right before the answer to the put, unless the
\* completion will be held back.
CompletionInv(d) ==
  /\ \A w \in acked[d] : Holds(d, w)
  /\ \A k : IsListenAnswer(d, k) /\ responses[d][k].ok =>
       \/ k > 1 /\ responses[d][k - 1].kind = "tree"
       \/ k = 1 /\ \A w \in ReadOk(d) : Holds(d, w)
  /\ \A k : IsPutAnswer(d, k) /\ responses[d][k].ok =>
       \/ observers[d] = 0
       \/ \E i : IsListen(d, i)
       \/ \E l : IsListenAnswer(d, l) /\ (l > k \/ ~responses[d][l].ok)
       \/ k > 1 /\ responses[d][k - 1].kind = "change" /\ responses[d][k - 1].write = responses[d][k].write
       \/ k = 1 /\ Holds(d, responses[d][k].write)

HasNewest(S) == S = {} \/ \E w \in S : \A x \in S : x.n <= w.n
On(S, t) == {w \in S : w.team = t}

\* The pending writes are those under way, newer than the acknowledged ones.
PendingInv(d) ==
  /\ allWrites[d] = UnderWay(d)
  /\ \A w \in Read(d) : w.dev = d
  /\ \A w \in acked[d] : \A k \in DOMAIN putsToAck[d] : w.n < putsToAck[d][k].write.n
  /\ \A t \in Teams : HasNewest(On(allWrites[d], t)) /\ HasNewest(On(acked[d], t)) /\ HasNewest(On(ReadOk(d), t))

ShownInv(d) == BehindInv(d) /\ ObserversInv(d) /\ CompletionInv(d) /\ PendingInv(d)

ShowInv == HistoryInv /\ \A d \in Devices : ShownInv(d)

\* A write the server applies follows all that were applied before it.
LEMMA InHistory ==
  ASSUME NEW w \in Writes, HistoryInv, applied' = Append(applied, w)
  PROVE  /\ applied' \in Seq(Writes)
         /\ \A v, x : Follows(v, x) => Follows(v, x)'
         /\ \A x : IsApplied(x)' <=> IsApplied(x) \/ x = w
         /\ \A x : IsApplied(x) => Follows(w, x)'
         /\ \A m, x : Brings(m, x) => Brings(m, x)'
  <1> DEFINE last == Len(applied) + 1
  <1>1. /\ applied' \in Seq(Writes)
        /\ \A i : i \in DOMAIN applied' <=> i \in DOMAIN applied \/ i = last
        /\ \A i \in DOMAIN applied : applied'[i] = applied[i] /\ i \in Nat /\ i < last
        /\ applied'[last] = w
    BY AppendPositions DEF HistoryInv
  <1> HIDE DEF last
  <1>2. \A v, x : Follows(v, x) => Follows(v, x)'
    BY <1>1 DEF Follows
  <1>3. \A x : IsApplied(x)' <=> IsApplied(x) \/ x = w
    BY <1>1 DEF IsApplied
  <1>4. \A x : IsApplied(x) => Follows(w, x)'
    BY <1>1 DEF IsApplied, Follows
  <1>5. \A m, x : Brings(m, x) => Brings(m, x)'
    BY <1>2 DEF Brings
  <1> QED
    BY <1>1, <1>2, <1>3, <1>4, <1>5

\* What the server does not apply leaves the history as it was.
LEMMA SameHistory ==
  ASSUME applied' = applied
  PROVE  /\ \A v, x : Follows(v, x)' <=> Follows(v, x)
         /\ \A x : IsApplied(x)' <=> IsApplied(x)
         /\ \A m, x : Brings(m, x)' <=> Brings(m, x)
         /\ HistoryInv /\ db' = db => HistoryInv'
  BY DEF Follows, IsApplied, Brings, HistoryInv

\* A device of which nothing changes, but that it may be told of a change.
LEMMA OtherShows ==
  ASSUME Types, NEW e \in Devices, ShownInv(e),
         \A v, x : Follows(v, x) => Follows(v, x)',
         \A x : IsApplied(x) => IsApplied(x)',
         conn'[e] = conn[e], observers'[e] = observers[e], puts'[e] = puts[e],
         putsToAck'[e] = putsToAck[e], allWrites'[e] = allWrites[e], serverCache'[e] = serverCache[e],
         requests'[e] = requests[e], acked'[e] = acked[e], e \in listening' <=> e \in listening,
         \/ responses'[e] = responses[e]
         \/ \E w \in Writes : /\ responses'[e] = Append(responses[e], [kind |-> "change", write |-> w])
                              /\ \A x : IsApplied(x) => Follows(w, x)'
  PROVE  ShownInv(e)'
  <1> USE DEF ShownInv
  <1>1. /\ ReadOk(e)' = ReadOk(e) /\ Read(e)' = Read(e) /\ UnderWay(e)' = UnderWay(e)
        /\ \A i : IsListen(e, i)' <=> IsListen(e, i)
    BY DEF ReadOk, Read, UnderWay, IsListen
  <1>2. \A w : Holds(e, w) => Holds(e, w)'
    BY DEF Holds
  <1>3. \A m, x : Brings(m, x) => Brings(m, x)'
    BY DEF Brings
  <1>4. PendingInv(e)'
    BY <1>1 DEF PendingInv, On
  <1>5. CASE responses'[e] = responses[e]
    BY <1>1, <1>2, <1>3, <1>4, <1>5 DEF BehindInv, ObserversInv, AnsweredInv, CompletionInv, IsListenAnswer, IsPutAnswer
  <1>6. ASSUME NEW w \in Writes, responses'[e] = Append(responses[e], [kind |-> "change", write |-> w]),
               \A x : IsApplied(x) => Follows(w, x)'
        PROVE  BehindInv(e)' /\ ObserversInv(e)' /\ CompletionInv(e)'
    <2> DEFINE s == responses[e]
               m == [kind |-> "change", write |-> w]
               last == Len(s) + 1
    <2>1. s \in Seq(Messages) /\ m \in Messages /\ m.kind = "change" /\ m.write = w
      BY MessageKinds DEF Types
    <2> HIDE DEF m
    <2>2. /\ \A k : k \in DOMAIN responses'[e] <=> k \in DOMAIN s \/ k = last
          /\ \A k \in DOMAIN s : responses'[e][k] = s[k] /\ k \in Nat /\ k < last
          /\ responses'[e][last] = m /\ last \in Nat
      BY <1>6, <2>1, AppendPositions DEF m
    <2> HIDE DEF last
    <2>3. /\ \A k : IsListenAnswer(e, k)' <=> IsListenAnswer(e, k)
          /\ \A k : IsPutAnswer(e, k)' <=> IsPutAnswer(e, k)
      BY <2>1, <2>2 DEF IsListenAnswer, IsPutAnswer
    <2>4. \A x : IsApplied(x) => Brings(m, x)'
      BY <1>6, <2>1 DEF Brings
    <2>5. BehindInv(e)'
      <3>1. ASSUME NEW x, IsApplied(x), NEW l \in DOMAIN responses'[e],
                   l \in DOMAIN s => Brings(s[l], x)
            PROVE  Brings(responses[e][l], x)'
        <4>1. CASE l \in DOMAIN s
          BY <1>3, <2>2, <3>1, <4>1
        <4>2. CASE l = last
          BY <2>2, <2>4, <3>1, <4>2
        <4> QED
          BY <2>2, <3>1, <4>1, <4>2
      <3>2. \A x \in ReadOk(e) : IsApplied(x)' /\ \A l \in DOMAIN responses'[e] : Brings(responses[e][l], x)'
        BY <3>1 DEF BehindInv
      <3>3. ASSUME NEW k, IsPutAnswer(e, k), s[k].ok
            PROVE  /\ responses'[e][k] = s[k] /\ IsApplied(s[k].write)'
                   /\ \A l \in DOMAIN responses'[e] : k < l => Brings(responses[e][l], s[k].write)'
        <4>1. /\ IsApplied(s[k].write)
              /\ \A l \in DOMAIN s : k < l => Brings(s[l], s[k].write)
          BY <3>3 DEF BehindInv
        <4>2. k \in DOMAIN s
          BY <3>3 DEF IsPutAnswer
        <4> QED
          BY <2>2, <3>1, <4>1, <4>2
      <3>4. \A k : IsPutAnswer(e, k) => responses'[e][k] = s[k]
        BY <2>2 DEF IsPutAnswer
      <3> QED
        BY <1>1, <2>3, <3>2, <3>3, <3>4 DEF BehindInv
    <2>6. ObserversInv(e)'
      <3>1. HasRefusal(s) => HasRefusal(responses'[e])
        BY <2>2 DEF HasRefusal, At
      <3>2. \A k : At(responses'[e], k, "tree") => At(s, k, "tree")
        BY <2>1, <2>2 DEF At
      <3>3. AnsweredInv(e)'
        BY <2>3, <3>2 DEF ObserversInv, AnsweredInv
      <3> QED
        BY <1>1, <3>1, <3>3 DEF ObserversInv
    <2>7. CompletionInv(e)'
      <3>1. /\ \A k : IsListenAnswer(e, k) => k \in DOMAIN s /\ responses'[e][k] = s[k]
            /\ \A k : IsPutAnswer(e, k) => k \in DOMAIN s /\ responses'[e][k] = s[k]
            /\ \A k : k \in DOMAIN s /\ k > 1 => responses'[e][k - 1] = s[k - 1]
        <4>1. \A k : k \in DOMAIN s /\ k > 1 => k - 1 \in DOMAIN s
          BY <2>1
        <4> QED
          BY <2>2, <4>1 DEF IsListenAnswer, IsPutAnswer
      <3>2. \A w2 \in acked[e] : Holds(e, w2)'
        BY <1>2 DEF CompletionInv
      <3>3. ASSUME NEW k, IsListenAnswer(e, k), s[k].ok
            PROVE  \/ k > 1 /\ responses'[e][k - 1].kind = "tree"
                   \/ k = 1 /\ \A w2 \in ReadOk(e) : Holds(e, w2)'
        BY <1>2, <3>1, <3>3 DEF CompletionInv
      <3>4. ASSUME NEW k, IsPutAnswer(e, k), s[k].ok
            PROVE  \/ observers[e] = 0
                   \/ \E i : IsListen(e, i)
                   \/ \E l : IsListenAnswer(e, l) /\ (l > k \/ ~s[l].ok)
                   \/ /\ k > 1 /\ responses'[e][k - 1].kind = "change"
                      /\ responses'[e][k - 1].write = s[k].write
                   \/ k = 1 /\ Holds(e, s[k].write)'
        BY <1>2, <3>1, <3>4 DEF CompletionInv
      <3> QED
        BY <1>1, <2>3, <3>1, <3>2, <3>3, <3>4 DEF CompletionInv
    <2> QED
      BY <2>5, <2>6, <2>7
  <1> QED
    BY <1>4, <1>5, <1>6

\* Pending writes, with nothing sent or read.
LEMMA SamePending ==
  ASSUME NEW d \in Devices, PendingInv(d), allWrites'[d] = allWrites[d], UnderWay(d)' = UnderWay(d),
         putsToAck'[d] = putsToAck[d], acked'[d] = acked[d]
  PROVE  PendingInv(d)'
  <1>1. Read(d)' = Read(d) /\ ReadOk(d)' = ReadOk(d)
    BY DEF Read, ReadOk
  <1> QED
    BY <1>1 DEF PendingInv, On

\* The rest of what is said of a device that is sent nothing and reads nothing.
LEMMA NothingRead ==
  ASSUME NEW d \in Devices, ShownInv(d), responses'[d] = responses[d], acked'[d] = acked[d],
         putsToAck'[d] = putsToAck[d], serverCache'[d] = serverCache[d], applied' = applied,
         observers'[d] = observers[d] \/ (observers[d] = 0 /\ \A k : ~IsPutAnswer(d, k))
           \/ (observers[d] = 0 /\ \E i : IsListen(d, i)'),
         (\E i : IsListen(d, i)) => (\E i : IsListen(d, i)')
  PROVE  BehindInv(d)' /\ CompletionInv(d)'
  <1>1. /\ ReadOk(d)' = ReadOk(d)
        /\ \A k : IsListenAnswer(d, k)' <=> IsListenAnswer(d, k)
        /\ \A k : IsPutAnswer(d, k)' <=> IsPutAnswer(d, k)
    BY DEF ReadOk, IsListenAnswer, IsPutAnswer
  <1>2. /\ \A x : IsApplied(x)' <=> IsApplied(x)
        /\ \A m, x : Brings(m, x)' <=> Brings(m, x)
        /\ \A v, x : Follows(v, x)' <=> Follows(v, x)
    BY SameHistory
  <1>3. \A w : Holds(d, w)' <=> Holds(d, w)
    BY <1>2 DEF Holds
  <1>4. BehindInv(d)'
    BY <1>1, <1>2 DEF ShownInv, BehindInv
  <1>5. CompletionInv(d)'
    <2>1. CompletionInv(d)
      BY DEF ShownInv
    <2>2. CASE \A k : ~IsPutAnswer(d, k)
      BY <1>1, <1>3, <2>1, <2>2 DEF CompletionInv
    <2>3. CASE \E i : IsListen(d, i)'
      BY <1>1, <1>3, <2>1, <2>3 DEF CompletionInv
    <2>4. CASE observers'[d] = observers[d]
      BY <1>1, <1>3, <2>1, <2>4 DEF CompletionInv
    <2> QED
      BY <2>2, <2>3, <2>4
  <1> QED
    BY <1>4, <1>5

\* A new write is newer than all others.
LEMMA ShowsSetValue ==
  ASSUME IInv, ShowInv, NEW d \in Devices, NEW t \in Teams, SetValue(d, t)
  PROVE  ShowInv'
  <1> DEFINE w == [dev |-> d, n |-> issued[d] + 1, team |-> t]
  <1>0. Types /\ DeviceInv(d) /\ ShownInv(d) /\ HistoryInv
    BY DEF IInv, ShowInv
  <1>1. /\ requests' = requests \/ requests' = [requests EXCEPT ![d] = Append(@, Put(w))]
        /\ allWrites' = [allWrites EXCEPT ![d] = @ \cup {w}]
        /\ puts' = [puts EXCEPT ![d] = @ \cup {[write |-> w, sent |-> conn[d] = "connected"]}]
        /\ UNCHANGED <<conn, serverCache, responses, listening, observers, putsToAck, acked, applied, db>>
    BY DEF SetValue, serverVars
  <1>2. w \in Writes /\ w.n = issued[d] + 1 /\ w.dev = d /\ issued[d] \in Nat
    <2>1. issued[d] + 1 \in Nat /\ issued[d] \in Nat
      BY <1>0 DEF Types
    <2> QED
      BY <2>1, WriteFacts
  <1> HIDE DEF w
  <1>3. HistoryInv'
    BY <1>0, <1>1, SameHistory
  <1>4. ASSUME NEW e \in Devices, e # d PROVE ShownInv(e)'
    <2>1. /\ requests'[e] = requests[e] /\ puts'[e] = puts[e] /\ allWrites'[e] = allWrites[e]
      BY <1>0, <1>1, <1>4 DEF Types
    <2>2. ShownInv(e)
      BY DEF ShowInv
    <2> QED
      BY <1>0, <1>1, <2>1, <2>2, OtherShows, SameHistory
  <1>5. \A i : IsListen(d, i) => IsListen(d, i)'
    <2>1. CASE requests' = requests
      BY <2>1 DEF IsListen
    <2>2. CASE requests' = [requests EXCEPT ![d] = Append(@, Put(w))]
      BY <1>0, <1>2, <2>2, RequestFacts, RequestAppended
    <2> QED
      BY <1>1, <2>1, <2>2
  <1>6. BehindInv(d)' /\ CompletionInv(d)'
    BY <1>0, <1>1, <1>5, NothingRead
  <1>7. ObserversInv(d)'
    BY <1>0, <1>1, <1>5 DEF ShownInv, ObserversInv, AnsweredInv, IsListenAnswer
  <1>8. PendingInv(d)'
    <2>1. /\ allWrites'[d] = allWrites[d] \cup {w}
          /\ puts'[d] = puts[d] \cup {[write |-> w, sent |-> conn[d] = "connected"]}
      BY <1>0, <1>1 DEF Types
    <2>2. UnderWay(d)' = UnderWay(d) \cup {w}
      <3>1. PICK p : p = [write |-> w, sent |-> conn[d] = "connected"]
        OBVIOUS
      <3>2. p.write = w /\ puts'[d] = puts[d] \cup {p}
        BY <2>1, <3>1
      <3> QED
        BY <1>1, <3>2 DEF UnderWay
    <2>3. \A x \in UnderWay(d) : x.n \in Nat /\ x.n < w.n
      <3>1. \A x \in UnderWay(d) : x \in Read(d) \/ \E p \in puts[d] : x = p.write
        BY <1>0 DEF UnderWay, Read, ToSet, Types
      <3>2. \A x \in UnderWay(d) : x \in Writes /\ x.n <= issued[d]
        BY <1>0, <3>1, TypeFacts DEF DeviceInv, OwnInv
      <3> QED
        BY <1>2, <3>2, WriteFacts
    <2>4. PendingInv(d)
      BY <1>0 DEF ShownInv
    <2>5. \A t2 \in Teams : HasNewest(On(allWrites'[d], t2))
      <3> SUFFICES ASSUME NEW t2 \in Teams PROVE HasNewest(On(allWrites'[d], t2))
        OBVIOUS
      <3>1. CASE w.team = t2
        <4>1. w \in On(allWrites'[d], t2) /\ \A x \in On(allWrites'[d], t2) : x = w \/ x \in UnderWay(d)
          BY <2>1, <2>4, <3>1 DEF On, PendingInv
        <4>2. \A x \in On(allWrites'[d], t2) : x.n <= w.n
          BY <1>2, <2>3, <4>1
        <4> QED
          BY <4>1, <4>2 DEF HasNewest
      <3>2. CASE w.team # t2
        <4>1. On(allWrites'[d], t2) = On(allWrites[d], t2)
          BY <2>1, <3>2 DEF On
        <4> QED
          BY <2>4, <4>1 DEF PendingInv
      <3> QED
        BY <3>1, <3>2
    <2>6. Read(d)' = Read(d) /\ ReadOk(d)' = ReadOk(d)
      BY <1>1 DEF Read, ReadOk
    <2> QED
      BY <1>1, <2>1, <2>2, <2>4, <2>5, <2>6 DEF PendingInv, On
  <1> QED
    BY <1>3, <1>4, <1>6, <1>7, <1>8 DEF ShowInv, ShownInv

\* A first observer has its listen sent.
LEMMA ShowsFetchTeams ==
  ASSUME IInv, ShowInv, NEW d \in Devices, FetchTeams(d)
  PROVE  ShowInv'
  <1>0. Types /\ DeviceInv(d) /\ ShownInv(d) /\ HistoryInv
    BY DEF IInv, ShowInv
  <1>1. /\ observers' = [observers EXCEPT ![d] = @ + 1]
        /\ IF observers[d] = 0 /\ conn[d] = "connected"
             THEN requests' = [requests EXCEPT ![d] = Append(@, Listen)]
             ELSE requests' = requests
        /\ UNCHANGED <<conn, serverCache, responses, listening, puts, allWrites, putsToAck, acked, applied, db>>
    BY DEF FetchTeams, serverVars
  <1>2. HistoryInv'
    BY <1>0, <1>1, SameHistory
  <1>3. ASSUME NEW e \in Devices, e # d PROVE ShownInv(e)'
    <2>1. /\ requests'[e] = requests[e] /\ observers'[e] = observers[e]
      BY <1>0, <1>1, <1>3 DEF Types
    <2>2. ShownInv(e)
      BY DEF ShowInv
    <2> QED
      BY <1>0, <1>1, <2>1, <2>2, OtherShows, SameHistory
  <1>4. /\ (\E i : IsListen(d, i)) => (\E i : IsListen(d, i)')
        /\ observers[d] = 0 /\ conn[d] = "connected" => \E i : IsListen(d, i)'
    <2>1. CASE observers[d] = 0 /\ conn[d] = "connected"
      BY <1>0, <1>1, <2>1, RequestFacts, RequestAppended
    <2>2. CASE ~(observers[d] = 0 /\ conn[d] = "connected")
      BY <1>1, <2>2 DEF IsListen
    <2> QED
      BY <2>1, <2>2
  <1>5. observers[d] \in Nat /\ observers'[d] = observers[d] + 1
    BY <1>0, <1>1 DEF Types
  <1>6. BehindInv(d)' /\ CompletionInv(d)' /\ ObserversInv(d)'
    <2>1. CASE observers[d] = 0
      <3>1. (\A k : ~IsPutAnswer(d, k)) \/ \E i : IsListen(d, i)'
        BY <1>0, <1>4, <2>1 DEF DeviceInv, ListenInv, IsPutAnswer, Types
      <3>2. BehindInv(d)' /\ CompletionInv(d)'
        BY <1>0, <1>1, <1>4, <2>1, <3>1, NothingRead
      <3>3. ObserversInv(d)'
        BY <1>0, <1>1, <1>4, <1>5, <2>1 DEF ShownInv, ObserversInv, AnsweredInv, IsListenAnswer
      <3> QED
        BY <3>2, <3>3
    <2>2. CASE observers[d] # 0
      <3>1. \A k : IsPutAnswer(d, k)' <=> IsPutAnswer(d, k)
        BY <1>1 DEF IsPutAnswer
      <3>2. \A k : IsListenAnswer(d, k)' <=> IsListenAnswer(d, k)
        BY <1>1 DEF IsListenAnswer
      <3>3. \A i : IsListen(d, i)' <=> IsListen(d, i)
        BY <1>1, <2>2 DEF IsListen
      <3>4. observers'[d] # 0 /\ ReadOk(d)' = ReadOk(d)
        BY <1>1, <1>5 DEF ReadOk
      <3>5. \A w : Holds(d, w)' <=> Holds(d, w)
        BY <1>1, SameHistory DEF Holds
      <3>6. CompletionInv(d)'
        BY <1>0, <1>1, <2>2, <3>1, <3>2, <3>3, <3>4, <3>5 DEF ShownInv, CompletionInv
      <3>7. BehindInv(d)'
        BY <1>0, <1>1, <3>1, <3>4, SameHistory DEF ShownInv, BehindInv
      <3>8. ObserversInv(d)'
        BY <1>0, <1>1, <1>5, <2>2, <3>3, <3>4 DEF ShownInv, ObserversInv, AnsweredInv, IsListenAnswer
      <3> QED
        BY <3>6, <3>7, <3>8
    <2> QED
      BY <2>1, <2>2
  <1>7. PendingInv(d)'
    <2>1. UnderWay(d)' = UnderWay(d)
      BY <1>1 DEF UnderWay
    <2> QED
      BY <1>0, <1>1, <2>1, SamePending DEF ShownInv
  <1> QED
    BY <1>2, <1>3, <1>6, <1>7 DEF ShowInv, ShownInv

\* Reconnected, a device with observers has its listen sent; the pending writes stay.
LEMMA ShowsOnReady ==
  ASSUME IInv, ShowInv, NEW d \in Devices, OnReady(d)
  PROVE  ShowInv'
  <1>0. Types /\ DeviceInv(d) /\ ShownInv(d) /\ HistoryInv
    BY DEF IInv, ShowInv
  <1>1. PICK s \in RestoredPuts(d) :
          requests' = [requests EXCEPT ![d] = RestoredListens(d) \o [i \in DOMAIN s |-> Put(s[i].write)]]
    BY DEF OnReady
  <1>2. /\ conn[d] = "disconnected" /\ conn' = [conn EXCEPT ![d] = "connected"]
        /\ puts' = [puts EXCEPT ![d] = {[p EXCEPT !.sent = TRUE] : p \in @}]
        /\ UNCHANGED <<observers, putsToAck, allWrites, serverCache, responses, listening, db,
                       applied, acked>>
    BY DEF OnReady, appVars, serverVars
  <1>3. responses[d] = <<>> /\ responses'[d] = <<>>
    BY <1>0, <1>2 DEF DeviceInv, ListenInv
  <1>4. observers[d] > 0 => \E i : IsListen(d, i)'
    BY <1>0, <1>1, Restored
  <1>5. HistoryInv'
    BY <1>0, <1>2, SameHistory
  <1>6. ASSUME NEW e \in Devices, e # d PROVE ShownInv(e)'
    <2>1. requests'[e] = requests[e] /\ conn'[e] = conn[e] /\ puts'[e] = puts[e]
      BY <1>0, <1>1, <1>2, <1>6 DEF Types
    <2>2. ShownInv(e)
      BY DEF ShowInv
    <2> QED
      BY <1>0, <1>2, <2>1, <2>2, OtherShows, SameHistory
  <1>7. BehindInv(d)' /\ CompletionInv(d)'
    <2>1. ReadOk(d)' = ReadOk(d)
      BY <1>2 DEF ReadOk
    <2>2. \A w : IsApplied(w)' <=> IsApplied(w)
      BY <1>2, SameHistory
    <2>3. \A w : Holds(d, w)' <=> Holds(d, w)
      BY <1>2, SameHistory DEF Holds
    <2>4. (\A w \in ReadOk(d) : IsApplied(w))' /\ (\A w \in acked[d] : Holds(d, w))'
      BY <1>0, <1>2, <2>1, <2>2, <2>3 DEF ShownInv, BehindInv, CompletionInv
    <2> QED
      BY <1>3, <2>4 DEF BehindInv, CompletionInv, IsListenAnswer, IsPutAnswer
  <1>8. ObserversInv(d)'
    BY <1>0, <1>2, <1>4 DEF ShownInv, ObserversInv, AnsweredInv, At, IsListenAnswer
  <1>9. PendingInv(d)'
    <2>1. puts'[d] = {[p EXCEPT !.sent = TRUE] : p \in puts[d]}
      BY <1>0, <1>2 DEF Types
    <2>2. \A q \in puts[d] : [q EXCEPT !.sent = TRUE].write = q.write
      BY <1>0 DEF Types
    <2>3. UnderWay(d)' = UnderWay(d)
      <3>1. UnderWay(d) = {p.write : p \in puts[d]} \cup {p.write : p \in ToSet(putsToAck[d])}
        BY DEF UnderWay
      <3>2. UnderWay(d)' = {p.write : p \in puts'[d]} \cup {p.write : p \in ToSet(putsToAck[d])}
        BY <1>2 DEF UnderWay
      <3>3. \A x : (\E p \in puts'[d] : x = p.write) <=> (\E p \in puts[d] : x = p.write)
        BY <2>1, <2>2
      <3> QED
        BY <3>1, <3>2, <3>3
    <2> QED
      BY <1>0, <1>2, <2>3, SamePending DEF ShownInv
  <1> QED
    BY <1>5, <1>6, <1>7, <1>8, <1>9 DEF ShowInv, ShownInv

\* With the connection what was on its way is lost; a relaunch empties the cache.
LEMMA ShowsLoseConnection ==
  ASSUME IInv, Caches, ShowInv, NEW d \in Devices, OnDisconnect(d) \/ Relaunch(d)
  PROVE  ShowInv'
  <1>0. Types /\ DeviceInv(d) /\ ShownInv(d) /\ HistoryInv
    BY DEF IInv, ShowInv
  <1>1. /\ conn' = [conn EXCEPT ![d] = "disconnected"]
        /\ responses' = [responses EXCEPT ![d] = <<>>]
        /\ listening' = listening \ {d}
        /\ UNCHANGED <<requests, db, applied, acked>>
    BY DEF OnDisconnect, Relaunch, LoseConnection, appVars, serverVars
  <1>2. \/ UNCHANGED <<observers, puts, putsToAck, allWrites, serverCache>>
        \/ /\ observers' = [observers EXCEPT ![d] = 0]
           /\ puts' = [puts EXCEPT ![d] = {}]
           /\ putsToAck' = [putsToAck EXCEPT ![d] = <<>>]
           /\ allWrites' = [allWrites EXCEPT ![d] = {}]
           /\ serverCache' = [serverCache EXCEPT ![d] = NoData]
    BY DEF OnDisconnect, Relaunch, appVars
  <1>3. HistoryInv'
    BY <1>0, <1>1, SameHistory
  <1>4. ASSUME NEW e \in Devices, e # d PROVE ShownInv(e)'
    <2>1. /\ conn'[e] = conn[e] /\ responses'[e] = responses[e] /\ (e \in listening' <=> e \in listening)
          /\ observers'[e] = observers[e] /\ puts'[e] = puts[e] /\ putsToAck'[e] = putsToAck[e]
          /\ allWrites'[e] = allWrites[e] /\ serverCache'[e] = serverCache[e]
      BY <1>0, <1>1, <1>2, <1>4 DEF Types, Caches
    <2>2. ShownInv(e)
      BY DEF ShowInv
    <2> QED
      BY <1>0, <1>1, <2>1, <2>2, OtherShows, SameHistory
  <1>5. /\ conn'[d] = "disconnected" /\ responses'[d] = <<>>
        /\ \/ /\ observers'[d] = observers[d] /\ puts'[d] = puts[d] /\ putsToAck'[d] = putsToAck[d]
              /\ allWrites'[d] = allWrites[d] /\ serverCache'[d] = serverCache[d]
           \/ /\ puts'[d] = {} /\ putsToAck'[d] = <<>> /\ allWrites'[d] = {} /\ serverCache'[d] = NoData
    BY <1>0, <1>1, <1>2 DEF Types, Caches
  <1>6. ReadOk(d)' \subseteq ReadOk(d) /\ acked[d] \subseteq ReadOk(d)
    BY <1>1, <1>5 DEF ReadOk
  <1>7. BehindInv(d)' /\ CompletionInv(d)'
    <2>1. \A w : Holds(d, w) => Holds(d, w)'
      BY <1>1, <1>5, SameHistory DEF Holds
    <2>2. (\A w \in ReadOk(d) : IsApplied(w))' /\ (\A w \in acked[d] : Holds(d, w))'
      BY <1>0, <1>1, <1>6, <2>1, SameHistory DEF ShownInv, BehindInv, CompletionInv
    <2> QED
      BY <1>5, <2>2 DEF BehindInv, CompletionInv, IsListenAnswer, IsPutAnswer
  <1>8. ObserversInv(d)'
    BY <1>0, <1>5 DEF ShownInv, ObserversInv, AnsweredInv, At, IsListenAnswer
  <1>9. PendingInv(d)'
    <2>1. CASE puts'[d] = puts[d] /\ putsToAck'[d] = putsToAck[d] /\ allWrites'[d] = allWrites[d]
      <3>1. UnderWay(d)' = UnderWay(d)
        BY <2>1 DEF UnderWay
      <3> QED
        BY <1>0, <1>1, <2>1, <3>1, SamePending DEF ShownInv
    <2>2. CASE puts'[d] = {} /\ putsToAck'[d] = <<>> /\ allWrites'[d] = {}
      <3>1. UnderWay(d)' = {} /\ Read(d)' = acked[d] /\ ReadOk(d)' = acked[d]
        BY <1>1, <2>2 DEF UnderWay, Read, ReadOk, ToSet
      <3>2. PendingInv(d) /\ acked[d] \subseteq Read(d)
        BY <1>0 DEF ShownInv, Read
      <3>3. \A t \in Teams : HasNewest(On(allWrites'[d], t)) /\ HasNewest(On(acked[d], t))
        BY <2>2, <3>2 DEF PendingInv, HasNewest, On
      <3> QED
        BY <1>1, <2>2, <3>1, <3>2, <3>3 DEF PendingInv, On
    <2> QED
      BY <1>5, <2>1, <2>2
  <1> QED
    BY <1>3, <1>4, <1>7, <1>8, <1>9 DEF ShowInv, ShownInv

\* The server has put messages behind those it has sent device d.
Longer(d) ==
  \A k \in DOMAIN responses[d] :
    /\ k \in Nat /\ k >= 1 /\ (k > 1 => k - 1 \in DOMAIN responses[d])
    /\ k \in DOMAIN responses'[d] /\ responses'[d][k] = responses[d][k]
    /\ \A l \in DOMAIN responses'[d] \ DOMAIN responses[d] : k < l

\* One message, and two.
LEMMA Lengthened ==
  ASSUME Types, NEW d \in Devices, NEW a \in Messages, NEW b \in Messages
  PROVE  LET last == Len(responses[d]) + 1
         IN /\ last \in Nat /\ last >= 1 /\ last \notin DOMAIN responses[d]
            /\ last + 1 \notin DOMAIN responses[d]
            /\ responses'[d] = Append(responses[d], a) =>
                 /\ Longer(d) /\ responses'[d][last] = a
                 /\ \A l : l \in DOMAIN responses'[d] <=> l \in DOMAIN responses[d] \/ l = last
            /\ responses'[d] = Append(Append(responses[d], a), b) =>
                 /\ Longer(d) /\ responses'[d][last] = a /\ responses'[d][last + 1] = b
                 /\ \A l : l \in DOMAIN responses'[d] <=>
                             l \in DOMAIN responses[d] \/ l = last \/ l = last + 1
  <1> DEFINE s == responses[d]
             last == Len(s) + 1
  <1>1. s \in Seq(Messages) /\ last \in Nat /\ last >= 1
    BY DEF Types
  <1> HIDE DEF s
  <1>2. /\ DOMAIN s = 1 .. last - 1
        /\ \A k \in DOMAIN s : k \in Nat /\ k >= 1 /\ k < last /\ (k > 1 => k - 1 \in DOMAIN s)
    BY <1>1
  <1>3. /\ \A l : l \in DOMAIN Append(s, a) <=> l \in DOMAIN s \/ l = last
        /\ \A k \in DOMAIN s : Append(s, a)[k] = s[k]
        /\ Append(s, a)[last] = a /\ Append(s, a) \in Seq(Messages) /\ Len(Append(s, a)) = last
    BY <1>1, AppendPositions
  <1>4. /\ \A l : l \in DOMAIN Append(Append(s, a), b) <=> l \in DOMAIN s \/ l = last \/ l = last + 1
        /\ \A k \in DOMAIN s : Append(Append(s, a), b)[k] = s[k]
        /\ Append(Append(s, a), b)[last] = a /\ Append(Append(s, a), b)[last + 1] = b
    <2>1. /\ \A l : l \in DOMAIN Append(Append(s, a), b) <=> l \in DOMAIN Append(s, a) \/ l = last + 1
          /\ \A k \in DOMAIN Append(s, a) : Append(Append(s, a), b)[k] = Append(s, a)[k]
          /\ Append(Append(s, a), b)[last + 1] = b
      BY <1>3, AppendPositions
    <2> QED
      BY <1>3, <2>1
  <1> HIDE DEF last
  <1>5. last \notin DOMAIN s /\ last + 1 \notin DOMAIN s
    BY <1>1, <1>2
  <1>6. responses'[d] = Append(s, a) => Longer(d)
    BY <1>1, <1>2, <1>3 DEF Longer, s
  <1>7. responses'[d] = Append(Append(s, a), b) => Longer(d)
    BY <1>1, <1>2, <1>4 DEF Longer, s
  <1> QED
    BY <1>1, <1>3, <1>4, <1>5, <1>6, <1>7 DEF s, last

\* The data that are sent follow all that was applied, and with an answer ends what is sent.
LEMMA BehindMore ==
  ASSUME NEW d \in Devices, BehindInv(d), ReadOk(d)' = ReadOk(d), Longer(d),
         \A m, x : Brings(m, x) => Brings(m, x)',
         \A x : IsApplied(x) => IsApplied(x)',
         \A l \in DOMAIN responses'[d] \ DOMAIN responses[d] :
           /\ \A x : IsApplied(x) => Brings(responses[d][l], x)'
           /\ responses'[d][l].kind = "putAnswer" /\ responses'[d][l].ok =>
                /\ IsApplied(responses[d][l].write)'
                /\ \A j \in DOMAIN responses'[d] : ~(l < j)
  PROVE  BehindInv(d)'
  <1> DEFINE s == responses[d]
  <1>1. ASSUME NEW x, IsApplied(x), NEW l \in DOMAIN responses'[d], l \in DOMAIN s => Brings(s[l], x)
        PROVE  Brings(responses[d][l], x)'
    <2>1. CASE l \in DOMAIN s
      <3>1. responses'[d][l] = s[l] /\ Brings(s[l], x)
        BY <1>1, <2>1 DEF Longer
      <3> QED
        BY <3>1
    <2>2. CASE l \notin DOMAIN s
      BY <1>1, <2>2
    <2> QED
      BY <2>1, <2>2
  <1>2. \A x \in ReadOk(d) : IsApplied(x)' /\ \A l \in DOMAIN responses'[d] : Brings(responses[d][l], x)'
    BY <1>1 DEF BehindInv
  <1>3. ASSUME NEW k, IsPutAnswer(d, k)', responses'[d][k].ok
        PROVE  /\ IsApplied(responses[d][k].write)'
               /\ \A l \in DOMAIN responses'[d] : k < l => Brings(responses[d][l], responses[d][k].write)'
    <2>1. CASE k \in DOMAIN s
      <3>1. responses'[d][k] = s[k] /\ IsPutAnswer(d, k) /\ s[k].ok
        BY <1>3, <2>1 DEF Longer, IsPutAnswer
      <3>2. PICK x : x = s[k].write
        OBVIOUS
      <3>3. IsApplied(x) /\ \A l \in DOMAIN s : k < l => Brings(s[l], x)
        BY <3>1, <3>2 DEF BehindInv
      <3>4. IsApplied(x)' /\ \A l \in DOMAIN responses'[d] : k < l => Brings(responses[d][l], x)'
        BY <1>1, <3>3
      <3>5. responses'[d][k].write = x
        BY <3>1, <3>2
      <3> QED
        BY <3>4, <3>5
    <2>2. CASE k \notin DOMAIN s
      <3>1. k \in DOMAIN responses'[d] \ DOMAIN responses[d] /\ responses'[d][k].kind = "putAnswer"
        BY <1>3, <2>2 DEF IsPutAnswer
      <3> QED
        BY <1>3, <3>1
    <2> QED
      BY <2>1, <2>2
  <1> QED
    BY <1>2, <1>3 DEF BehindInv

\* A tree that is sent has its answer sent too.
LEMMA AnsweredMore ==
  ASSUME NEW d \in Devices, AnsweredInv(d), Longer(d),
         \A l \in DOMAIN responses'[d] \ DOMAIN responses[d] :
           responses'[d][l].kind = "tree" =>
             l + 1 \in DOMAIN responses'[d] /\ responses'[d][l + 1].kind = "listenAnswer"
  PROVE  AnsweredInv(d)'
  <1>1. ASSUME NEW k, At(responses'[d], k, "tree") PROVE IsListenAnswer(d, k + 1)'
    <2>1. CASE k \in DOMAIN responses[d]
      <3>1. IsListenAnswer(d, k + 1)
        BY <1>1, <2>1 DEF Longer, AnsweredInv, At
      <3> QED
        BY <3>1 DEF Longer, IsListenAnswer
    <2>2. CASE k \notin DOMAIN responses[d]
      BY <1>1, <2>2 DEF At, IsListenAnswer
    <2> QED
      BY <2>1, <2>2
  <1> QED
    BY <1>1 DEF AnsweredInv

\* The answers that are sent find the cache as they should, or what makes it so before them.
LEMMA CompletionMore ==
  ASSUME NEW d \in Devices, CompletionInv(d), ReadOk(d)' = ReadOk(d), acked'[d] = acked[d],
         observers'[d] = observers[d], Longer(d), \A w : Holds(d, w) => Holds(d, w)',
         \/ (\E i : IsListen(d, i)) => (\E i : IsListen(d, i)')
         \/ \E l \in DOMAIN responses'[d] \ DOMAIN responses[d] : responses'[d][l].kind = "listenAnswer",
         \A l \in DOMAIN responses'[d] \ DOMAIN responses[d] :
           /\ responses'[d][l].kind = "listenAnswer" /\ responses'[d][l].ok =>
                l > 1 /\ responses'[d][l - 1].kind = "tree"
           /\ responses'[d][l].kind = "putAnswer" /\ responses'[d][l].ok =>
                \/ observers[d] = 0
                \/ \E i : IsListen(d, i)'
                \/ HasRefusal(responses'[d])
                \/ /\ l > 1 /\ responses'[d][l - 1].kind = "change"
                   /\ responses'[d][l - 1].write = responses'[d][l].write
  PROVE  CompletionInv(d)'
  <1> DEFINE s == responses[d]
  <1>1. /\ \A k : k \in DOMAIN s => (IsListenAnswer(d, k)' <=> IsListenAnswer(d, k))
        /\ \A k : k \in DOMAIN s => (IsPutAnswer(d, k)' <=> IsPutAnswer(d, k))
        /\ \A k \in DOMAIN s : responses'[d][k] = s[k] /\ (k > 1 => responses'[d][k - 1] = s[k - 1])
    BY DEF Longer, IsListenAnswer, IsPutAnswer
  <1>2. \A w \in acked'[d] : Holds(d, w)'
    BY DEF CompletionInv
  <1>3. ASSUME NEW k, IsListenAnswer(d, k)', responses'[d][k].ok
        PROVE  \/ k > 1 /\ responses'[d][k - 1].kind = "tree"
               \/ k = 1 /\ \A w \in ReadOk(d) : Holds(d, w)'
    <2>1. CASE k \in DOMAIN s
      <3>1. IsListenAnswer(d, k) /\ s[k].ok /\ (k > 1 => responses'[d][k - 1] = s[k - 1])
        BY <1>1, <1>3, <2>1
      <3> QED
        BY <3>1 DEF CompletionInv
    <2>2. CASE k \notin DOMAIN s
      BY <1>3, <2>2 DEF IsListenAnswer
    <2> QED
      BY <2>1, <2>2
  <1>4. ASSUME NEW k, IsPutAnswer(d, k)', responses'[d][k].ok
        PROVE  \/ observers'[d] = 0
               \/ \E i : IsListen(d, i)'
               \/ \E l : IsListenAnswer(d, l)' /\ (l > k \/ ~responses'[d][l].ok)
               \/ /\ k > 1 /\ responses'[d][k - 1].kind = "change"
                  /\ responses'[d][k - 1].write = responses'[d][k].write
               \/ k = 1 /\ Holds(d, responses[d][k].write)'
    <2>1. CASE k \in DOMAIN s
      <3>1. IsPutAnswer(d, k) /\ s[k].ok /\ responses'[d][k] = s[k] /\ (k > 1 => responses'[d][k - 1] = s[k - 1])
        BY <1>1, <1>4, <2>1
      <3>2. CASE \E i : IsListen(d, i)
        <4>1. CASE \E i : IsListen(d, i)'
          BY <4>1
        <4>2. CASE \E l \in DOMAIN responses'[d] \ DOMAIN responses[d] : responses'[d][l].kind = "listenAnswer"
          <5>1. PICK l \in DOMAIN responses'[d] \ DOMAIN responses[d] : responses'[d][l].kind = "listenAnswer"
            BY <4>2
          <5>2. k < l /\ k \in Nat
            BY <2>1, <5>1 DEF Longer
          <5> QED
            BY <5>1, <5>2 DEF IsListenAnswer
        <4> QED
          BY <3>2, <4>1, <4>2
      <3>3. CASE \E l : IsListenAnswer(d, l) /\ (l > k \/ ~s[l].ok)
        <4>1. PICK l : IsListenAnswer(d, l) /\ (l > k \/ ~s[l].ok)
          BY <3>3
        <4>2. l \in DOMAIN s
          BY <4>1 DEF IsListenAnswer
        <4>3. IsListenAnswer(d, l)' /\ responses'[d][l] = s[l]
          BY <1>1, <4>1, <4>2
        <4> QED
          BY <4>1, <4>3
      <3>4. CASE k = 1 /\ Holds(d, s[k].write)
        <4>1. PICK x : x = s[k].write
          OBVIOUS
        <4>2. Holds(d, x)' /\ responses'[d][k].write = x
          BY <3>1, <3>4, <4>1
        <4> QED
          BY <3>4, <4>2
      <3> QED
        BY <3>1, <3>2, <3>3, <3>4 DEF CompletionInv
    <2>2. CASE k \notin DOMAIN s
      <3>1. k \in DOMAIN responses'[d] \ DOMAIN responses[d] /\ responses'[d][k].kind = "putAnswer"
        BY <1>4, <2>2 DEF IsPutAnswer
      <3>2. HasRefusal(responses'[d]) => \E l : IsListenAnswer(d, l)' /\ ~responses'[d][l].ok
        BY DEF HasRefusal, At, IsListenAnswer
      <3> QED
        BY <1>4, <3>1, <3>2
    <2> QED
      BY <2>1, <2>2
  <1> QED
    BY <1>2, <1>3, <1>4 DEF CompletionInv

\* A refusal stays where it is.
LEMMA RefusalStays ==
  ASSUME NEW d \in Devices, Longer(d)
  PROVE  HasRefusal(responses[d]) => HasRefusal(responses'[d])
  BY DEF Longer, HasRefusal, At

\* The requests of the others, and the first request of d, when the server takes it.
LEMMA OthersKept ==
  ASSUME Types, NEW d \in Devices, TakeRequest(d)
  PROVE  /\ \A e \in Devices : e # d => requests'[e] = requests[e]
         /\ requests[d] # <<>> /\ Head(requests[d]).kind # "listen" =>
              ((\E i : IsListen(d, i)) => (\E i : IsListen(d, i)'))
  <1>1. requests' = [requests EXCEPT ![d] = Tail(@)] /\ requests[d] \in Seq(Requests)
    BY DEF TakeRequest, Types
  <1>2. \A e \in Devices : e # d => requests'[e] = requests[e]
    BY <1>1
  <1>3. ASSUME requests[d] # <<>>, Head(requests[d]).kind # "listen", NEW i, IsListen(d, i)
        PROVE  IsListen(d, i - 1)'
    <2>1. requests'[d] = Tail(requests[d])
      BY <1>1 DEF Types
    <2>2. i # 1 /\ i \in DOMAIN requests[d]
      BY <1>1, <1>3, TailPositions DEF IsListen
    <2>3. i - 1 \in DOMAIN Tail(requests[d]) /\ Tail(requests[d])[i - 1] = requests[d][i]
      BY <1>1, <1>3, <2>2, TailPositions
    <2> QED
      BY <1>3, <2>1, <2>3 DEF IsListen
  <1> QED
    BY <1>2, <1>3

\* The tree the server sends follows all it has applied.
LEMMA ShowsServerListens ==
  ASSUME IInv, ShowInv, NEW d \in Devices, ServerListens(d)
  PROVE  ShowInv'
  <1> DEFINE tree == [kind |-> "tree", tree |-> db]
             answer == [kind |-> "listenAnswer", ok |-> TRUE]
  <1>0. Types /\ DeviceInv(d) /\ ShownInv(d) /\ HistoryInv
    BY DEF IInv, ShowInv
  <1>1. /\ requests[d] # <<>> /\ Head(requests[d]).kind = "listen" /\ TakeRequest(d)
        /\ listening' = IF conn[d] = "connected" THEN listening \cup {d} ELSE listening
        /\ responses' = [responses EXCEPT ![d] = IF conn[d] = "connected" THEN @ \o <<tree, answer>> ELSE @]
        /\ UNCHANGED <<conn, serverCache, observers, puts, putsToAck, allWrites, acked, applied, db>>
    BY DEF ServerListens, Respond, clientVars, serverVars
  <1>2. /\ responses[d] \in Seq(Messages) /\ tree \in Messages /\ answer \in Messages
        /\ tree.kind = "tree" /\ tree.tree = db /\ answer.kind = "listenAnswer"
    BY <1>0, MessageKinds DEF Types
  <1> HIDE DEF tree, answer
  <1>3. /\ conn[d] = "connected" => responses'[d] = Append(Append(responses[d], tree), answer)
        /\ conn[d] # "connected" => responses'[d] = responses[d]
        /\ \A e \in Devices : e # d => responses'[e] = responses[e]
    BY <1>0, <1>1, <1>2, MessagesSent DEF Types
  <1>4. HistoryInv'
    BY <1>0, <1>1, SameHistory
  <1>5. ASSUME NEW e \in Devices, e # d PROVE ShownInv(e)'
    <2>1. /\ responses'[e] = responses[e] /\ requests'[e] = requests[e]
          /\ (e \in listening' <=> e \in listening)
      BY <1>0, <1>1, <1>3, <1>5, OthersKept
    <2>2. ShownInv(e)
      BY DEF ShowInv
    <2> QED
      BY <1>0, <1>1, <2>1, <2>2, OtherShows, SameHistory
  <1>6. ReadOk(d)' = ReadOk(d) /\ (\A w : Holds(d, w)' <=> Holds(d, w))
    BY <1>1, SameHistory DEF ReadOk, Holds
  <1>7. PendingInv(d)'
    <2>1. UnderWay(d)' = UnderWay(d)
      BY <1>1 DEF UnderWay
    <2> QED
      BY <1>0, <1>1, <2>1, SamePending DEF ShownInv
  <1>8. CASE conn[d] = "connected"
    <2>1. PICK last \in Nat :
            /\ last >= 1 /\ Longer(d) /\ responses'[d][last] = tree /\ responses'[d][last + 1] = answer
            /\ \A l \in DOMAIN responses'[d] \ DOMAIN responses[d] : l = last \/ l = last + 1
            /\ last + 1 \in DOMAIN responses'[d] \ DOMAIN responses[d]
      BY <1>0, <1>2, <1>3, <1>8, Lengthened
    <2>2. /\ \A l \in DOMAIN responses'[d] \ DOMAIN responses[d] :
                responses'[d][l].kind \in {"tree", "listenAnswer"}
          /\ \A l \in DOMAIN responses'[d] \ DOMAIN responses[d] :
                responses'[d][l].kind = "tree" => responses'[d][l] = tree
          /\ \A l \in DOMAIN responses'[d] \ DOMAIN responses[d] :
                responses'[d][l].kind = "listenAnswer" => l = last + 1
      BY <1>2, <2>1
    <2>3. \A x : IsApplied(x) => Follows(db[x.team], x)'
      BY <1>0, <1>1, SameHistory DEF HistoryInv, IsApplied
    <2>4. ASSUME NEW l \in DOMAIN responses'[d] \ DOMAIN responses[d], NEW x, IsApplied(x)
          PROVE  Brings(responses[d][l], x)'
      <3>1. responses'[d][l].kind = "tree" => Follows(responses[d][l].tree[x.team], x)'
        <4>1. responses'[d][l].kind = "tree" => responses'[d][l].tree = db
          BY <1>2, <2>2
        <4> QED
          BY <1>1, <2>3, <2>4, <4>1
      <3> QED
        BY <2>2, <3>1 DEF Brings
    <2>5. BehindInv(d)'
      <3>1. BehindInv(d) /\ (\A m, x : Brings(m, x) => Brings(m, x)') /\ (\A x : IsApplied(x) => IsApplied(x)')
        BY <1>0, <1>1, SameHistory DEF ShownInv
      <3>2. \A l \in DOMAIN responses'[d] \ DOMAIN responses[d] : responses'[d][l].kind # "putAnswer"
        BY <2>2
      <3> QED
        BY <1>6, <2>1, <2>4, <3>1, <3>2, BehindMore
    <2>6. CompletionInv(d)'
      <3>1. \A l \in DOMAIN responses'[d] \ DOMAIN responses[d] :
              /\ responses'[d][l].kind = "listenAnswer" => l > 1 /\ responses'[d][l - 1].kind = "tree"
              /\ responses'[d][l].kind # "putAnswer"
        BY <1>2, <2>1, <2>2
      <3>2. \E l \in DOMAIN responses'[d] \ DOMAIN responses[d] : responses'[d][l].kind = "listenAnswer"
        BY <1>2, <2>1
      <3> QED
        BY <1>0, <1>1, <1>6, <2>1, <3>1, <3>2, CompletionMore DEF ShownInv
    <2>7. ObserversInv(d)'
      <3>1. ASSUME NEW l \in DOMAIN responses'[d] \ DOMAIN responses[d], responses'[d][l].kind = "tree"
            PROVE  l + 1 \in DOMAIN responses'[d] /\ responses'[d][l + 1].kind = "listenAnswer"
        <4>1. l # last + 1
          <5>1. answer.kind # "tree"
            BY <1>2
          <5> QED
            BY <2>1, <3>1, <5>1
        <4> QED
          BY <1>2, <2>1, <4>1
      <3>2. AnsweredInv(d)'
        BY <1>0, <2>1, <3>1, AnsweredMore DEF ShownInv, ObserversInv
      <3> QED
        BY <1>0, <1>1, <1>8, <3>2 DEF ShownInv, ObserversInv
    <2> QED
      BY <1>4, <1>5, <1>7, <2>5, <2>6, <2>7 DEF ShowInv, ShownInv
  <1>9. CASE conn[d] # "connected"
    <2>1. responses[d] = <<>> /\ responses'[d] = <<>>
      BY <1>0, <1>3, <1>9 DEF DeviceInv, ListenInv, Types
    <2>2. BehindInv(d)' /\ CompletionInv(d)'
      <3>1. (\A w \in ReadOk(d) : IsApplied(w))' /\ (\A w \in acked[d] : Holds(d, w))'
        BY <1>0, <1>1, <1>6, SameHistory DEF ShownInv, BehindInv, CompletionInv
      <3> QED
        BY <2>1, <3>1 DEF BehindInv, CompletionInv, IsListenAnswer, IsPutAnswer
    <2>3. ObserversInv(d)'
      BY <1>0, <1>1, <1>9, <2>1 DEF ShownInv, ObserversInv, AnsweredInv, At
    <2> QED
      BY <1>4, <1>5, <1>7, <2>2, <2>3 DEF ShowInv, ShownInv
  <1> QED
    BY <1>8, <1>9

\* A write the server applies follows all it applied before, and the change goes out first.
LEMMA ShowsServerApplies ==
  ASSUME IInv, ShowInv, NEW d \in Devices, ServerApplies(d)
  PROVE  ShowInv'
  <1>0. Types /\ DeviceInv(d) /\ ShownInv(d) /\ HistoryInv
    BY DEF IInv, ShowInv
  <1>1. PICK w : w = Head(requests[d]).write
    OBVIOUS
  <1> DEFINE change == [kind |-> "change", write |-> w]
             answer == [kind |-> "putAnswer", write |-> w, ok |-> TRUE]
             told(e) == IF e \in listening THEN Append(responses[e], change) ELSE responses[e]
  <1>2. /\ requests[d] # <<>> /\ Head(requests[d]).kind = "put" /\ TakeRequest(d)
        /\ responses' = IF conn[d] = "connected"
                          THEN [[e \in Devices |-> told(e)] EXCEPT ![d] = Append(@, answer)]
                          ELSE [e \in Devices |-> told(e)]
        /\ db' = [db EXCEPT ![w.team] = w] /\ applied' = Append(applied, w)
        /\ UNCHANGED <<conn, serverCache, observers, listening, puts, putsToAck, allWrites, acked>>
    BY <1>1 DEF ServerApplies, clientVars
  <1>3. w \in Writes /\ w.team \in Teams
    BY <1>0, <1>1, <1>2, RequestTaken, RequestFacts, WriteFacts
  <1>4. /\ change \in Messages /\ change.kind = "change" /\ change.write = w
        /\ answer \in Messages /\ answer.kind = "putAnswer" /\ answer.write = w
    BY <1>3, MessageKinds
  <1>5. /\ applied' \in Seq(Writes)
        /\ \A v, x : Follows(v, x) => Follows(v, x)'
        /\ \A x : IsApplied(x)' <=> IsApplied(x) \/ x = w
        /\ \A x : IsApplied(x) => Follows(w, x)'
        /\ \A m, x : Brings(m, x) => Brings(m, x)'
    BY <1>0, <1>2, <1>3, InHistory
  <1>6. HistoryInv'
    <2>1. \A x : IsApplied(x) => x \in Writes /\ x.team \in Teams /\ Follows(db[x.team], x)
      BY <1>0, WriteFacts DEF HistoryInv, IsApplied
    <2>2. \A t \in Teams : t # w.team => db'[t] = db[t]
      BY <1>0, <1>2 DEF Types, Trees
    <2>3. db'[w.team] = w
      BY <1>0, <1>2, <1>3 DEF Types, Trees
    <2>4. Follows(w, w)'
      BY DEF Follows
    <2>5. ASSUME NEW x, IsApplied(x) \/ x = w PROVE Follows(db[x.team], x)'
      <3>1. CASE IsApplied(x) /\ x.team # w.team
        BY <1>5, <2>1, <2>2, <3>1
      <3>2. CASE IsApplied(x) /\ x.team = w.team
        BY <1>5, <2>3, <3>2
      <3>3. CASE x = w
        BY <2>3, <2>4, <3>3
      <3> QED
        BY <2>5, <3>1, <3>2, <3>3
    <2>6. \A i \in DOMAIN applied' : IsApplied(applied[i])'
      BY DEF IsApplied
    <2> QED
      BY <1>5, <2>5, <2>6 DEF HistoryInv
  <1>7. ASSUME NEW e \in Devices, e # d PROVE ShownInv(e)'
    <2>1. requests'[e] = requests[e]
      BY <1>0, <1>2, <1>7, OthersKept
    <2>2. responses'[e] = responses[e] \/ responses'[e] = Append(responses[e], [kind |-> "change", write |-> w])
      BY <1>2, <1>7
    <2>3. ShownInv(e)
      BY DEF ShowInv
    <2> QED
      BY <1>0, <1>2, <1>3, <1>5, <2>1, <2>2, <2>3, OtherShows
  <1> HIDE DEF change, answer
  <1>8. ReadOk(d)' = ReadOk(d) /\ (\A x : Holds(d, x) => Holds(d, x)')
    BY <1>2, <1>5 DEF ReadOk, Holds
  <1>9. PendingInv(d)'
    <2>1. UnderWay(d)' = UnderWay(d)
      BY <1>2 DEF UnderWay
    <2> QED
      BY <1>0, <1>2, <2>1, SamePending DEF ShownInv
  <1>10. (\E i : IsListen(d, i)) => (\E i : IsListen(d, i)')
    BY <1>0, <1>2, OthersKept
  <1>11. CASE conn[d] = "connected"
    <2>1. PICK last \in Nat :
            /\ last >= 1 /\ Longer(d)
            /\ \/ /\ d \in listening
                  /\ responses'[d][last] = change /\ responses'[d][last + 1] = answer
                  /\ \A l : l \in DOMAIN responses'[d] <=> l \in DOMAIN responses[d] \/ l = last \/ l = last + 1
               \/ /\ d \notin listening /\ responses'[d][last] = answer
                  /\ \A l : l \in DOMAIN responses'[d] <=> l \in DOMAIN responses[d] \/ l = last
            /\ \A k \in DOMAIN responses[d] : k < last /\ k \in Nat
      <3>1. \/ d \in listening /\ responses'[d] = Append(Append(responses[d], change), answer)
            \/ d \notin listening /\ responses'[d] = Append(responses[d], answer)
        BY <1>2, <1>11
      <3>2. \A k \in DOMAIN responses[d] : k < Len(responses[d]) + 1 /\ k \in Nat
        BY <1>0 DEF Types
      <3> QED
        BY <1>0, <1>4, <3>1, <3>2, Lengthened
    <2>2. ASSUME NEW l \in DOMAIN responses'[d] \ DOMAIN responses[d]
          PROVE  /\ responses'[d][l] = answer \/ responses'[d][l] = change
                 /\ responses'[d][l] = answer => \A j \in DOMAIN responses'[d] : ~(l < j)
                 /\ responses'[d][l] = answer /\ d \in listening => l > 1 /\ responses'[d][l - 1] = change
      <3>1. answer # change
        BY <1>4
      <3>2. CASE d \in listening
        <4>1. l = last \/ l = last + 1
          BY <2>1, <3>2
        <4>2. \A j \in DOMAIN responses'[d] : ~(last + 1 < j)
          BY <2>1, <3>2
        <4>3. last + 1 > 1 /\ (last + 1) - 1 = last
          BY <2>1
        <4> QED
          BY <2>1, <3>1, <3>2, <4>1, <4>2, <4>3
      <3>3. CASE d \notin listening
        BY <2>1, <3>3
      <3> QED
        BY <3>2, <3>3
    <2>3. ASSUME NEW x, IsApplied(x), NEW l \in DOMAIN responses'[d] \ DOMAIN responses[d]
          PROVE  Brings(responses[d][l], x)'
      <3>1. responses'[d][l].kind # "tree" /\ (responses'[d][l].kind = "change" => responses'[d][l].write = w)
        BY <1>4, <2>2
      <3> QED
        BY <1>5, <2>3, <3>1 DEF Brings
    <2>4. BehindInv(d)'
      <3>1. ASSUME NEW l \in DOMAIN responses'[d] \ DOMAIN responses[d], responses'[d][l].kind = "putAnswer"
            PROVE  IsApplied(responses[d][l].write)' /\ \A j \in DOMAIN responses'[d] : ~(l < j)
        <4>1. responses'[d][l] = answer
          BY <1>4, <2>2, <3>1
        <4>2. responses'[d][l].write = w /\ IsApplied(w)'
          <5>1. IsApplied(w)'
            <6>1. \A x : x = w => IsApplied(x)'
              BY <1>5
            <6> QED
              BY <6>1
          <5> QED
            BY <1>4, <4>1, <5>1
        <4>3. IsApplied(responses[d][l].write)'
          BY <4>2 DEF IsApplied
        <4> QED
          BY <2>2, <4>1, <4>3
      <3>2. BehindInv(d) /\ (\A x : IsApplied(x) => IsApplied(x)')
        BY <1>0, <1>5 DEF ShownInv
      <3> QED
        BY <1>5, <1>8, <2>1, <2>3, <3>1, <3>2, BehindMore
    <2>5. CompletionInv(d)'
      <3>1. ASSUME NEW l \in DOMAIN responses'[d] \ DOMAIN responses[d]
            PROVE  /\ responses'[d][l].kind # "listenAnswer"
                   /\ responses'[d][l].kind = "putAnswer" =>
                        \/ observers[d] = 0
                        \/ \E i : IsListen(d, i)'
                        \/ HasRefusal(responses'[d])
                        \/ /\ l > 1 /\ responses'[d][l - 1].kind = "change"
                           /\ responses'[d][l - 1].write = responses'[d][l].write
        <4>1. responses'[d][l].kind # "listenAnswer"
          BY <1>4, <2>2
        <4>2. CASE d \in listening
          BY <1>4, <2>2, <4>1, <4>2
        <4>3. CASE d \notin listening
          <5>1. observers[d] = 0 \/ (\E i : IsListen(d, i)) \/ HasRefusal(responses[d])
            BY <1>0, <1>11, <4>3 DEF ShownInv, ObserversInv, DeviceInv, Types
          <5> QED
            BY <1>10, <2>1, <4>1, <5>1, RefusalStays
        <4> QED
          BY <4>2, <4>3
      <3>2. CompletionInv(d) /\ acked'[d] = acked[d] /\ observers'[d] = observers[d] /\ Longer(d)
        BY <1>0, <1>2, <2>1 DEF ShownInv
      <3> QED
        BY <1>8, <1>10, <3>1, <3>2, CompletionMore
    <2>6. ObserversInv(d)'
      <3>1. \A l \in DOMAIN responses'[d] \ DOMAIN responses[d] : responses'[d][l].kind # "tree"
        BY <1>4, <2>2
      <3>2. AnsweredInv(d)'
        BY <1>0, <2>1, <3>1, AnsweredMore DEF ShownInv, ObserversInv
      <3> QED
        BY <1>0, <1>2, <1>10, <2>1, <3>2, RefusalStays DEF ShownInv, ObserversInv
    <2> QED
      BY <1>6, <1>7, <1>9, <2>4, <2>5, <2>6 DEF ShowInv, ShownInv
  <1>12. CASE conn[d] # "connected"
    <2>1. responses'[d] = <<>>
      BY <1>0, <1>2, <1>12 DEF DeviceInv, ListenInv, Types
    <2>2. BehindInv(d)' /\ CompletionInv(d)'
      <3>1. (\A x \in ReadOk(d) : IsApplied(x))' /\ (\A x \in acked[d] : Holds(d, x))'
        BY <1>0, <1>2, <1>5, <1>8 DEF ShownInv, BehindInv, CompletionInv
      <3> QED
        BY <2>1, <3>1 DEF BehindInv, CompletionInv, IsListenAnswer, IsPutAnswer
    <2>3. ObserversInv(d)'
      BY <1>0, <1>2, <1>12, <2>1 DEF ShownInv, ObserversInv, AnsweredInv, At
    <2> QED
      BY <1>6, <1>7, <1>9, <2>2, <2>3 DEF ShowInv, ShownInv
  <1> QED
    BY <1>11, <1>12

\* A refusal answers without data, and is no answer that a completion acknowledges.
LEMMA ShowsServerRefuses ==
  ASSUME IInv, ShowInv, NEW d \in Devices, ServerRefuses(d)
  PROVE  ShowInv'
  <1>0. Types /\ DeviceInv(d) /\ ShownInv(d) /\ HistoryInv
    BY DEF IInv, ShowInv
  <1>1. PICK r : r = Head(requests[d])
    OBVIOUS
  <1> DEFINE answer == IF r.kind = "listen" THEN [kind |-> "listenAnswer", ok |-> FALSE]
                       ELSE [kind |-> "putAnswer", write |-> r.write, ok |-> FALSE]
  <1>2. /\ requests[d] # <<>> /\ TakeRequest(d)
        /\ responses' = [responses EXCEPT ![d] = IF conn[d] = "connected" THEN @ \o <<answer>> ELSE @]
        /\ UNCHANGED <<conn, serverCache, observers, listening, puts, putsToAck, allWrites, acked, applied, db>>
    BY <1>1 DEF ServerRefuses, Respond, clientVars
  <1>3. r \in Requests /\ r.kind \in {"listen", "put"} /\ (r.kind = "put" => r.write \in Writes)
    <2>1. r \in Requests
      BY <1>0, <1>1, <1>2, RequestTaken
    <2> QED
      BY <2>1, RequestFacts
  <1>4. /\ answer \in Messages /\ answer.kind \in {"listenAnswer", "putAnswer"} /\ ~answer.ok
        /\ r.kind = "listen" => answer.kind = "listenAnswer"
    BY <1>3, MessageKinds
  <1> HIDE DEF answer
  <1>5. /\ conn[d] = "connected" => responses'[d] = Append(responses[d], answer)
        /\ conn[d] # "connected" => responses'[d] = responses[d]
        /\ \A e \in Devices : e # d => responses'[e] = responses[e]
    <2>1. responses[d] \in Seq(Messages)
      BY <1>0 DEF Types
    <2>2. responses[d] \o <<answer>> = Append(responses[d], answer)
      BY <1>4, <2>1, MessagesSent
    <2> QED
      BY <1>0, <1>2, <2>1, <2>2 DEF Types
  <1>6. HistoryInv'
    BY <1>0, <1>2, SameHistory
  <1>7. ASSUME NEW e \in Devices, e # d PROVE ShownInv(e)'
    <2>1. responses'[e] = responses[e] /\ requests'[e] = requests[e]
      BY <1>0, <1>2, <1>5, <1>7, OthersKept
    <2>2. ShownInv(e)
      BY DEF ShowInv
    <2> QED
      BY <1>0, <1>2, <2>1, <2>2, OtherShows, SameHistory
  <1>8. ReadOk(d)' = ReadOk(d) /\ (\A w : Holds(d, w)' <=> Holds(d, w))
    BY <1>2, SameHistory DEF ReadOk, Holds
  <1>9. PendingInv(d)'
    <2>1. UnderWay(d)' = UnderWay(d)
      BY <1>2 DEF UnderWay
    <2> QED
      BY <1>0, <1>2, <2>1, SamePending DEF ShownInv
  <1>10. CASE conn[d] = "connected"
    <2>1. PICK last : /\ Longer(d) /\ responses'[d][last] = answer
                      /\ \A l : l \in DOMAIN responses'[d] <=> l \in DOMAIN responses[d] \/ l = last
                      /\ last \notin DOMAIN responses[d]
      BY <1>0, <1>4, <1>5, <1>10, Lengthened
    <2>2. \A l \in DOMAIN responses'[d] \ DOMAIN responses[d] : responses'[d][l] = answer
      BY <2>1
    <2>3. BehindInv(d)'
      <3>1. \A l \in DOMAIN responses'[d] \ DOMAIN responses[d] : \A x : Brings(responses[d][l], x)'
        BY <1>4, <2>2 DEF Brings
      <3>2. BehindInv(d) /\ (\A m, x : Brings(m, x) => Brings(m, x)') /\ (\A x : IsApplied(x) => IsApplied(x)')
        BY <1>0, <1>2, SameHistory DEF ShownInv
      <3> QED
        BY <1>4, <1>8, <2>1, <2>2, <3>1, <3>2, BehindMore
    <2>4. \/ (\E i : IsListen(d, i)) => (\E i : IsListen(d, i)')
          \/ \E l \in DOMAIN responses'[d] \ DOMAIN responses[d] : responses'[d][l].kind = "listenAnswer"
      <3>1. CASE r.kind = "listen"
        BY <1>4, <2>1, <3>1
      <3>2. CASE r.kind # "listen"
        BY <1>0, <1>1, <1>2, <3>2, OthersKept
      <3> QED
        BY <3>1, <3>2
    <2>5. CompletionInv(d)'
      <3>1. CompletionInv(d) /\ acked'[d] = acked[d] /\ observers'[d] = observers[d] /\ Longer(d)
        BY <1>0, <1>2, <2>1 DEF ShownInv
      <3>2. \A l \in DOMAIN responses'[d] \ DOMAIN responses[d] : ~responses'[d][l].ok
        BY <1>4, <2>2
      <3> QED
        BY <1>8, <2>4, <3>1, <3>2, CompletionMore
    <2>6. ObserversInv(d)'
      <3>1. \A l \in DOMAIN responses'[d] \ DOMAIN responses[d] : responses'[d][l].kind # "tree"
        BY <1>4, <2>2
      <3>2. AnsweredInv(d)'
        BY <1>0, <2>1, <3>1, AnsweredMore DEF ShownInv, ObserversInv
      <3>3. (\E i : IsListen(d, i)) => (\E i : IsListen(d, i)') \/ HasRefusal(responses'[d])
        <4>1. (\E l \in DOMAIN responses'[d] \ DOMAIN responses[d] : responses'[d][l].kind = "listenAnswer") =>
                HasRefusal(responses'[d])
          BY <1>4, <2>2 DEF HasRefusal, At
        <4> QED
          BY <2>4, <4>1
      <3> QED
        BY <1>0, <1>2, <2>1, <3>2, <3>3, RefusalStays DEF ShownInv, ObserversInv
    <2> QED
      BY <1>6, <1>7, <1>9, <2>3, <2>5, <2>6 DEF ShowInv, ShownInv
  <1>11. CASE conn[d] # "connected"
    <2>1. responses'[d] = <<>>
      BY <1>0, <1>5, <1>11 DEF DeviceInv, ListenInv, Types
    <2>2. BehindInv(d)' /\ CompletionInv(d)'
      <3>1. (\A x \in ReadOk(d) : IsApplied(x))' /\ (\A x \in acked[d] : Holds(d, x))'
        BY <1>0, <1>2, <1>8, SameHistory DEF ShownInv, BehindInv, CompletionInv
      <3> QED
        BY <2>1, <3>1 DEF BehindInv, CompletionInv, IsListenAnswer, IsPutAnswer
    <2>3. ObserversInv(d)'
      BY <1>0, <1>2, <1>11, <2>1 DEF ShownInv, ObserversInv, AnsweredInv, At
    <2> QED
      BY <1>6, <1>7, <1>9, <2>2, <2>3 DEF ShowInv, ShownInv
  <1> QED
    BY <1>10, <1>11

\* What is behind the first message, when the device has read that.
LEMMA BehindRead ==
  ASSUME Types, NEW d \in Devices, BehindInv(d), NEW kind, TakeResponse(d, kind), applied' = applied,
         \A w \in ReadOk(d)' : w \in ReadOk(d) \/ /\ kind = "putAnswer" /\ Head(responses[d]).ok
                                                  /\ w = Head(responses[d]).write
  PROVE  BehindInv(d)'
  <1> DEFINE s == responses[d]
  <1>1. /\ s[1] = Head(s) /\ Head(s).kind = kind
        /\ IsPutAnswer(d, 1) <=> kind = "putAnswer"
        /\ \A k : IsPutAnswer(d, k)' => k \in Nat /\ k >= 1 /\ IsPutAnswer(d, k + 1)
        /\ \A l \in DOMAIN responses'[d] : /\ l \in Nat /\ l >= 1 /\ l + 1 \in DOMAIN s
                                           /\ responses'[d][l] = s[l + 1]
    <2>1. s \in Seq(Messages) /\ s # <<>> /\ responses'[d] = Tail(s)
      BY DEF Types, TakeResponse
    <2> QED
      BY <2>1, ResponseTaken, TailPositions
  <1> HIDE DEF s
  <1>2. ASSUME NEW x, NEW l \in DOMAIN responses'[d], Brings(s[l + 1], x) PROVE Brings(responses[d][l], x)'
    <2>1. PICK m : m = s[l + 1]
      OBVIOUS
    <2>2. responses'[d][l] = m
      BY <1>1, <2>1
    <2>3. Brings(m, x)'
      BY <1>2, <2>1, SameHistory
    <2> QED
      BY <2>2, <2>3 DEF Brings
  <1>3. ASSUME NEW x \in ReadOk(d)'
        PROVE  IsApplied(x)' /\ \A l \in DOMAIN responses'[d] : Brings(responses[d][l], x)'
    <2>1. CASE x \in ReadOk(d)
      <3>1. IsApplied(x) /\ \A l \in DOMAIN s : Brings(s[l], x)
        BY <2>1 DEF BehindInv, s
      <3> QED
        BY <1>1, <1>2, <3>1, SameHistory
    <2>2. CASE kind = "putAnswer" /\ s[1].ok /\ x = s[1].write
      <3>1. IsApplied(x) /\ \A l \in DOMAIN s : 1 < l => Brings(s[l], x)
        BY <1>1, <2>2 DEF BehindInv, s
      <3>2. \A l \in DOMAIN responses'[d] : 1 < l + 1
        BY <1>1
      <3> QED
        BY <1>1, <1>2, <3>1, <3>2, SameHistory
    <2> QED
      BY <1>1, <2>1, <2>2 DEF s
  <1>4. ASSUME NEW k, IsPutAnswer(d, k)', responses'[d][k].ok
        PROVE  /\ IsApplied(responses[d][k].write)'
               /\ \A l \in DOMAIN responses'[d] : k < l => Brings(responses[d][l], responses[d][k].write)'
    <2>1. k \in Nat /\ IsPutAnswer(d, k + 1) /\ responses'[d][k] = s[k + 1] /\ s[k + 1].ok
      BY <1>1, <1>4 DEF IsPutAnswer
    <2>2. PICK x : x = s[k + 1].write
      OBVIOUS
    <2>3. IsApplied(x) /\ \A l \in DOMAIN s : k + 1 < l => Brings(s[l], x)
      BY <2>1, <2>2 DEF BehindInv, s
    <2>4. \A l \in DOMAIN responses'[d] : k < l => Brings(responses[d][l], x)'
      <3>1. \A l \in DOMAIN responses'[d] : k < l => k + 1 < l + 1
        BY <1>1, <2>1
      <3> QED
        BY <1>1, <1>2, <2>3, <3>1
    <2>5. IsApplied(x)' /\ responses'[d][k].write = x
      BY <2>1, <2>2, <2>3, SameHistory
    <2> QED
      BY <2>4, <2>5
  <1> QED
    BY <1>3, <1>4 DEF BehindInv

\* A tree, and the changes behind it, are read before the answers that rely on them.
LEMMA CompletionRead ==
  ASSUME Types, NEW d \in Devices, CompletionInv(d), NEW kind, TakeResponse(d, kind),
         requests' = requests,
         observers'[d] = observers[d] \/ observers'[d] = 0,
         kind = "listenAnswer" /\ ~Head(responses[d]).ok => observers'[d] = 0,
         \A w \in acked'[d] : Holds(d, w)',
         kind = "tree" => \A w \in ReadOk(d)' : Holds(d, w)',
         \A x : kind = "change" /\ x = Head(responses[d]).write => Holds(d, x)'
  PROVE  CompletionInv(d)'
  <1> DEFINE s == responses[d]
  <1>1. /\ s[1] = Head(s) /\ Head(s).kind = kind
        /\ \A k : IsPutAnswer(d, k)' => k \in Nat /\ k >= 1 /\ IsPutAnswer(d, k + 1) /\ responses'[d][k] = s[k + 1]
        /\ \A k : IsListenAnswer(d, k)' =>
             k \in Nat /\ k >= 1 /\ IsListenAnswer(d, k + 1) /\ responses'[d][k] = s[k + 1]
        /\ \A l : IsListenAnswer(d, l) =>
             l \in Nat /\ l >= 1 /\ (l # 1 => IsListenAnswer(d, l - 1)' /\ responses'[d][l - 1] = s[l])
        /\ \A k : k \in DOMAIN s /\ k > 1 => k - 1 \in DOMAIN responses'[d] /\ responses'[d][k - 1] = s[k]
        /\ \A k \in DOMAIN s : k \in Nat
    <2>1. s \in Seq(Messages) /\ s # <<>> /\ responses'[d] = Tail(s) /\ Head(s).kind = kind
      BY DEF Types, TakeResponse
    <2> HIDE DEF s
    <2>2. /\ s[1] = Head(s) /\ \A l \in DOMAIN s : l \in Nat /\ l >= 1
          /\ \A l \in DOMAIN s : l # 1 => l - 1 \in DOMAIN responses'[d] /\ responses'[d][l - 1] = s[l]
          /\ \A l \in DOMAIN responses'[d] : l \in Nat /\ l >= 1 /\ l + 1 \in DOMAIN s /\ responses'[d][l] = s[l + 1]
      BY <2>1, TailPositions
    <2>3. \A l : l > 1 => l # 1
      OBVIOUS
    <2> QED
      BY <2>1, <2>2, <2>3 DEF IsPutAnswer, IsListenAnswer, s
  <1>2. \A i : IsListen(d, i)' <=> IsListen(d, i)
    BY DEF IsListen
  <1> HIDE DEF s
  <1>3. ASSUME NEW k, IsListenAnswer(d, k)', responses'[d][k].ok
        PROVE  \/ k > 1 /\ responses'[d][k - 1].kind = "tree"
               \/ k = 1 /\ \A w \in ReadOk(d)' : Holds(d, w)'
    <2>1. k \in Nat /\ k >= 1 /\ IsListenAnswer(d, k + 1) /\ s[k + 1].ok
      BY <1>1, <1>3
    <2>2. k + 1 > 1 /\ (k + 1) - 1 = k /\ k + 1 # 1
      BY <2>1
    <2>3. s[k].kind = "tree"
      BY <2>1, <2>2 DEF CompletionInv, s
    <2>4. CASE k = 1
      BY <1>1, <2>3, <2>4
    <2>5. CASE k > 1
      <3>1. k \in DOMAIN s
        <4>1. k + 1 \in DOMAIN s /\ s \in Seq(Messages)
          BY <2>1 DEF IsListenAnswer, s, Types
        <4> QED
          BY <2>1, <4>1
      <3> QED
        BY <1>1, <2>3, <2>5, <3>1
    <2> QED
      BY <2>1, <2>4, <2>5
  <1>4. ASSUME NEW k, IsPutAnswer(d, k)', responses'[d][k].ok
        PROVE  \/ observers'[d] = 0
               \/ \E i : IsListen(d, i)'
               \/ \E l : IsListenAnswer(d, l)' /\ (l > k \/ ~responses'[d][l].ok)
               \/ /\ k > 1 /\ responses'[d][k - 1].kind = "change"
                  /\ responses'[d][k - 1].write = responses'[d][k].write
               \/ k = 1 /\ Holds(d, responses[d][k].write)'
    <2>1. /\ k \in Nat /\ k >= 1 /\ IsPutAnswer(d, k + 1) /\ s[k + 1].ok
          /\ responses'[d][k] = s[k + 1]
      BY <1>1, <1>4
    <2>2. k + 1 > 1 /\ (k + 1) - 1 = k /\ k + 1 # 1
      BY <2>1
    <2>3. \/ observers[d] = 0
          \/ \E i : IsListen(d, i)
          \/ \E l : IsListenAnswer(d, l) /\ (l > k + 1 \/ ~s[l].ok)
          \/ s[k].kind = "change" /\ s[k].write = s[k + 1].write
      BY <2>1, <2>2 DEF CompletionInv, s
    <2>4. CASE \E l : IsListenAnswer(d, l) /\ (l > k + 1 \/ ~s[l].ok)
      <3>1. PICK l : IsListenAnswer(d, l) /\ (l > k + 1 \/ ~s[l].ok)
        BY <2>4
      <3>2. CASE l = 1
        <4>1. ~s[1].ok /\ s[1].kind = "listenAnswer"
          BY <2>1, <3>1, <3>2 DEF IsListenAnswer, s
        <4> QED
          BY <1>1, <4>1 DEF s
      <3>3. CASE l # 1
        <4>1. IsListenAnswer(d, l - 1)' /\ responses'[d][l - 1] = s[l] /\ l \in Nat
          BY <1>1, <3>1, <3>3
        <4>2. l > k + 1 => l - 1 > k
          BY <2>1, <4>1
        <4> QED
          BY <3>1, <4>1, <4>2
      <3> QED
        BY <3>2, <3>3
    <2>5. CASE s[k].kind = "change" /\ s[k].write = s[k + 1].write
      <3>1. CASE k = 1
        <4>1. PICK x : x = s[1].write
          OBVIOUS
        <4>2. kind = "change" /\ Head(responses[d]).write = x /\ responses'[d][k].write = x
          BY <1>1, <2>1, <2>5, <3>1, <4>1 DEF s
        <4>3. Holds(d, x)'
          BY <4>2
        <4> QED
          BY <3>1, <4>2, <4>3 DEF Holds
      <3>2. CASE k > 1
        <4>1. k \in DOMAIN s
          <5>1. k + 1 \in DOMAIN s /\ s \in Seq(Messages)
            BY <2>1 DEF IsPutAnswer, s, Types
          <5> QED
            BY <2>1, <5>1
        <4> QED
          BY <1>1, <2>1, <2>5, <3>2, <4>1
      <3> QED
        BY <2>1, <3>1, <3>2
    <2> QED
      BY <1>2, <2>3, <2>4, <2>5
  <1> QED
    BY <1>3, <1>4 DEF CompletionInv

\* A device with observers is still told of changes when it has read a message, unless that
\* was the refusal of its listen, which takes the observers away.
LEMMA ObserversRead ==
  ASSUME Types, NEW d \in Devices, ObserversInv(d), NEW kind, TakeResponse(d, kind),
         requests' = requests, conn' = conn, listening' = listening,
         observers'[d] = observers[d] \/ observers'[d] = 0,
         kind = "listenAnswer" /\ ~Head(responses[d]).ok => observers'[d] = 0,
         observers'[d] = 0 => serverCache'[d] = NoData
  PROVE  ObserversInv(d)'
  <1> DEFINE s == responses[d]
  <1>1. /\ s \in Seq(Messages) /\ s # <<>> /\ responses'[d] = Tail(s) /\ Head(s).kind = kind
        /\ observers[d] \in Nat
    BY DEF Types, TakeResponse
  <1>2. \A i : IsListen(d, i)' <=> IsListen(d, i)
    BY DEF IsListen
  <1>3. /\ \A k : At(s, k, "tree") => IsListenAnswer(d, k + 1)
        /\ conn[d] = "connected" /\ observers[d] > 0 =>
             d \in listening \/ (\E i : IsListen(d, i)) \/ HasRefusal(s)
    BY DEF ObserversInv, AnsweredInv
  <1>4. \A k : IsListenAnswer(d, k) <=> At(s, k, "listenAnswer")
    BY DEF IsListenAnswer, At
  <1> HIDE DEF s
  <1>5. /\ Head(s) = s[1] /\ \A l \in DOMAIN s : l \in Nat /\ l >= 1
        /\ \A l \in DOMAIN s : l # 1 => l - 1 \in DOMAIN Tail(s) /\ Tail(s)[l - 1] = s[l]
        /\ \A l \in DOMAIN Tail(s) : l \in Nat /\ l >= 1 /\ l + 1 \in DOMAIN s /\ Tail(s)[l] = s[l + 1]
    BY <1>1, TailPositions
  <1>6. AnsweredInv(d)'
    <2> SUFFICES ASSUME NEW k, At(Tail(s), k, "tree") PROVE At(Tail(s), k + 1, "listenAnswer")
      BY <1>1 DEF AnsweredInv, IsListenAnswer, At
    <2>1. k \in Nat /\ k >= 1 /\ At(s, k + 1, "tree")
      BY <1>5 DEF At
    <2>2. At(s, (k + 1) + 1, "listenAnswer")
      BY <1>3, <1>4, <2>1
    <2>3. (k + 1) + 1 # 1 /\ ((k + 1) + 1) - 1 = k + 1
      BY <2>1
    <2>4. k + 1 \in DOMAIN Tail(s) /\ Tail(s)[k + 1] = s[(k + 1) + 1]
      BY <1>5, <2>2, <2>3 DEF At
    <2> QED
      BY <2>2, <2>4 DEF At
  <1>7. ASSUME HasRefusal(s), kind = "listenAnswer" => Head(s).ok PROVE HasRefusal(Tail(s))
    <2>1. PICK k : At(s, k, "listenAnswer") /\ ~s[k].ok
      BY <1>7 DEF HasRefusal
    <2>2. k # 1
      BY <1>1, <1>5, <1>7, <2>1 DEF At
    <2>3. k - 1 \in DOMAIN Tail(s) /\ Tail(s)[k - 1] = s[k]
      BY <1>5, <2>1, <2>2 DEF At
    <2> QED
      BY <2>1, <2>3 DEF HasRefusal, At
  <1>8. observers'[d] > 0 => observers'[d] = observers[d] /\ (kind = "listenAnswer" => Head(s).ok)
    BY <1>1 DEF s
  <1> QED
    BY <1>1, <1>2, <1>3, <1>6, <1>7, <1>8 DEF ObserversInv

\* The tree, or a change, that a device with a tree reads: its cache follows what it followed,
\* and all that the message brings.
LEMMA ShowsOnDataUpdate ==
  ASSUME IInv, Caches, ShowInv, NEW d \in Devices, OnDataUpdate(d)
  PROVE  ShowInv'
  <1>0. Types /\ DeviceInv(d) /\ ShownInv(d) /\ HistoryInv /\ CacheInv(d)
    BY DEF IInv, ShowInv, Caches
  <1>1. UNCHANGED <<conn, observers, puts, putsToAck, allWrites, requests, listening, applied, acked, db>>
    BY DEF OnDataUpdate, serverVars
  <1>2. PICK kind \in {"tree", "change"} :
          /\ TakeResponse(d, kind)
          /\ kind = "tree" => serverCache' = [serverCache EXCEPT ![d] = Head(responses[d]).tree]
          /\ kind = "change" => serverCache' = [serverCache EXCEPT ![d] =
                                  [@ EXCEPT ![Head(responses[d]).write.team] = Head(responses[d]).write]]
    <2>1. "tree" # "change"
      OBVIOUS
    <2> QED
      BY <2>1 DEF OnDataUpdate
  <1>3. PICK m : m = Head(responses[d])
    OBVIOUS
  <1>4. /\ m \in Messages /\ m.kind = kind /\ 1 \in DOMAIN responses[d] /\ responses[d][1] = m
        /\ responses[d] \in Seq(Messages) /\ responses[d] # <<>>
        /\ \A e \in Devices : e # d => responses'[e] = responses[e]
    <2>1. responses[d] \in Seq(Messages) /\ responses[d] # <<>>
      BY <1>0, <1>2 DEF Types, TakeResponse
    <2> QED
      BY <1>0, <1>2, <1>3, <2>1, ResponseTaken, TailPositions
  <1>5. HistoryInv'
    BY <1>0, <1>1, SameHistory
  <1>6. ASSUME NEW e \in Devices, e # d PROVE ShownInv(e)'
    <2>1. responses'[e] = responses[e] /\ serverCache'[e] = serverCache[e]
      BY <1>2, <1>4, <1>6 DEF Caches
    <2>2. ShownInv(e)
      BY DEF ShowInv
    <2> QED
      BY <1>0, <1>1, <2>1, <2>2, OtherShows, SameHistory
  <1>7. ReadOk(d)' = ReadOk(d)
    BY <1>1 DEF ReadOk
  <1>8. \A w \in ReadOk(d) : IsApplied(w) /\ Brings(m, w)
    BY <1>0, <1>4 DEF ShownInv, BehindInv
  <1>9. /\ kind = "tree" => \A w \in ReadOk(d) : Holds(d, w)'
        /\ kind = "change" => /\ \A w \in acked[d] : Holds(d, w)'
                              /\ \A x : x = m.write => Holds(d, x)'
                              /\ observers[d] > 0
    <2>1. CASE kind = "tree"
      <3>1. serverCache'[d] = m.tree
        BY <1>2, <1>3, <2>1 DEF Caches
      <3>2. "tree" # "change" /\ \A w \in ReadOk(d) : Follows(m.tree[w.team], w)'
        BY <1>1, <1>4, <1>8, <2>1, SameHistory DEF Brings
      <3> QED
        BY <2>1, <3>1, <3>2 DEF Holds
    <2>2. CASE kind = "change"
      <3>1. PICK w : w = m.write
        OBVIOUS
      <3>2. w \in Writes /\ w.team \in Teams
        BY <1>4, <2>2, <3>1, MessageFacts, WriteFacts
      <3>3. serverCache[d] # NoData /\ observers[d] > 0
        <4>1. HasChange(responses[d]) /\ ~TreeFirst(responses[d])
          BY <1>3, <1>4, <2>2, MessageGone
        <4> QED
          BY <1>0, <4>1 DEF CacheInv
      <3>4. serverCache[d] \in Trees
        BY <3>3 DEF Caches
      <3>5. serverCache'[d] = [serverCache[d] EXCEPT ![w.team] = w]
        BY <1>2, <1>3, <2>2, <3>1 DEF Caches
      <3>6. /\ serverCache'[d][w.team] = w
            /\ \A t : t # w.team => serverCache'[d][t] = serverCache[d][t]
        BY <3>2, <3>4, <3>5 DEF Trees
      <3>7. ASSUME NEW x \in acked[d] PROVE Holds(d, x)'
        <4>1. x \in ReadOk(d)
          BY DEF ReadOk
        <4>2. x.team = w.team => Follows(w, x)'
          BY <1>1, <1>4, <1>8, <2>2, <3>1, <4>1, SameHistory DEF Brings
        <4>3. Follows(serverCache[d][x.team], x)
          BY <1>0, <3>3 DEF ShownInv, CompletionInv, Holds
        <4>4. CASE x.team = w.team
          <5>1. serverCache'[d][x.team] = w
            BY <3>6, <4>4
          <5> QED
            BY <4>2, <4>4, <5>1 DEF Holds
        <4>5. CASE x.team # w.team
          <5>1. PICK v : v = serverCache[d][x.team]
            OBVIOUS
          <5>2. serverCache'[d][x.team] = v
            BY <3>6, <4>5, <5>1
          <5>3. Follows(v, x)'
            BY <1>1, <4>3, <5>1, SameHistory
          <5> QED
            BY <5>2, <5>3 DEF Holds
        <4> QED
          BY <4>4, <4>5
      <3>8. Holds(d, w)'
        BY <3>6 DEF Holds, Follows
      <3>9. \A x : x = m.write => Holds(d, x)'
        BY <3>1, <3>8
      <3> QED
        BY <2>2, <3>3, <3>7, <3>9
    <2> QED
      BY <2>1, <2>2
  <1>10. observers[d] > 0
    <2>1. CASE kind = "tree"
      <3>1. IsListenAnswer(d, 1 + 1)
        BY <1>0, <1>4, <2>1 DEF ShownInv, ObserversInv, AnsweredInv, At
      <3>2. conn[d] = "connected"
        BY <1>0, <1>4 DEF DeviceInv, ListenInv, Types
      <3> QED
        BY <1>0, <3>1, <3>2 DEF DeviceInv, ListenInv
    <2> QED
      BY <1>9, <2>1
  <1>11. /\ BehindInv(d) /\ CompletionInv(d) /\ ObserversInv(d) /\ PendingInv(d)
         /\ kind # "listenAnswer" /\ observers[d] # 0
    <2>1. kind # "listenAnswer"
      BY <1>2
    <2>2. observers[d] # 0
      BY <1>10
    <2> QED
      BY <1>0, <2>1, <2>2 DEF ShownInv
  <1>12. BehindInv(d)'
    BY <1>0, <1>1, <1>2, <1>7, <1>11, BehindRead
  <1>13. CompletionInv(d)'
    <2>1. \A x : kind = "change" /\ x = Head(responses[d]).write => Holds(d, x)'
      BY <1>3, <1>9
    <2>2. \A w \in acked'[d] : Holds(d, w)'
      <3>1. acked[d] \subseteq ReadOk(d)
        BY DEF ReadOk
      <3> QED
        BY <1>1, <1>9, <3>1
    <2>3. kind = "tree" => \A w \in ReadOk(d)' : Holds(d, w)'
      BY <1>7, <1>9
    <2> QED
      BY <1>0, <1>1, <1>2, <1>11, <2>1, <2>2, <2>3, CompletionRead
  <1>14. ObserversInv(d)'
    BY <1>0, <1>1, <1>2, <1>11, ObserversRead
  <1>15. PendingInv(d)'
    <2>1. UnderWay(d)' = UnderWay(d)
      BY <1>1 DEF UnderWay
    <2> QED
      BY <1>0, <1>1, <1>11, <2>1, SamePending
  <1> QED
    BY <1>5, <1>6, <1>12, <1>13, <1>14, <1>15 DEF ShowInv, ShownInv

-----------------------------------------------------------------------------
(* What is requested of a connection, or answered, is outstanding. *)

OutstandingInv(d) ==
  conn[d] = "connected" =>
    /\ \A i : IsPut(d, i) => \E p \in puts[d] : p.write = requests[d][i].write
    /\ \A k : IsPutAnswer(d, k) => \E p \in puts[d] : p.write = responses[d][k].write

Outstanding == \A d \in Devices : OutstandingInv(d)

\* The puts stay, and nothing is requested or answered that was not before.
LEMMA OutstandingKept ==
  ASSUME NEW d \in Devices, OutstandingInv(d), conn'[d] = conn[d], puts[d] \subseteq puts'[d],
         \A i : IsPut(d, i)' =>
           \/ \E j : IsPut(d, j) /\ requests'[d][i].write = requests[d][j].write
           \/ \E p \in puts'[d] : p.write = requests'[d][i].write,
         \A k : IsPutAnswer(d, k)' =>
           \/ \E l : IsPutAnswer(d, l) /\ responses'[d][k].write = responses[d][l].write
           \/ \E j : IsPut(d, j) /\ responses'[d][k].write = requests[d][j].write
  PROVE  OutstandingInv(d)'
  <1> SUFFICES ASSUME conn[d] = "connected" PROVE OutstandingInv(d)'
    BY DEF OutstandingInv
  <1>1. /\ \A i : IsPut(d, i) => \E p \in puts'[d] : p.write = requests[d][i].write
        /\ \A k : IsPutAnswer(d, k) => \E p \in puts'[d] : p.write = responses[d][k].write
    BY DEF OutstandingInv
  <1>2. \A i : IsPut(d, i)' => \E p \in puts'[d] : p.write = requests'[d][i].write
    BY <1>1
  <1>3. \A k : IsPutAnswer(d, k)' => \E p \in puts'[d] : p.write = responses'[d][k].write
    BY <1>1
  <1> QED
    BY <1>2, <1>3 DEF OutstandingInv

\* The wires of a device that nothing happens to.
LEMMA OutstandingSame ==
  ASSUME NEW d \in Devices, OutstandingInv(d), conn'[d] = conn[d], puts'[d] = puts[d],
         requests'[d] = requests[d], responses'[d] = responses[d]
  PROVE  OutstandingInv(d)'
  BY DEF OutstandingInv, IsPut, IsPutAnswer

\* A write adds its put.
LEMMA OutstandingSetValue ==
  ASSUME IInv, Outstanding, NEW d \in Devices, NEW t \in Teams, SetValue(d, t)
  PROVE  Outstanding'
  <1> DEFINE w == [dev |-> d, n |-> issued[d] + 1, team |-> t]
  <1>0. Types
    BY DEF IInv
  <1>1. /\ requests' = requests \/ requests' = [requests EXCEPT ![d] = Append(@, Put(w))]
        /\ puts' = [puts EXCEPT ![d] = @ \cup {[write |-> w, sent |-> conn[d] = "connected"]}]
        /\ UNCHANGED <<conn, responses>>
    BY DEF SetValue
  <1>2. w \in Writes
    <2>1. issued[d] + 1 \in Nat
      BY <1>0 DEF Types
    <2> QED
      BY <2>1, WriteFacts
  <1> HIDE DEF w
  <1>3. ASSUME NEW e \in Devices, e # d PROVE OutstandingInv(e)'
    <2>1. requests'[e] = requests[e] /\ puts'[e] = puts[e]
      BY <1>0, <1>1, <1>3 DEF Types
    <2> QED
      BY <1>1, <2>1, OutstandingSame DEF Outstanding
  <1>4. OutstandingInv(d)'
    <2>1. PICK q : q = [write |-> w, sent |-> conn[d] = "connected"]
      OBVIOUS
    <2>2. q.write = w /\ q \in puts'[d] /\ puts[d] \subseteq puts'[d]
      BY <1>0, <1>1, <2>1 DEF Types
    <2>3. \A i : IsPut(d, i)' => \/ IsPut(d, i) /\ requests'[d][i].write = requests[d][i].write
                                 \/ requests'[d][i].write = w
      <3>1. CASE requests' = requests
        BY <3>1 DEF IsPut
      <3>2. CASE requests' = [requests EXCEPT ![d] = Append(@, Put(w))]
        <4>1. PICK r \in Requests : r = Put(w)
          BY <1>2, RequestFacts
        <4>2. /\ \A i : IsPut(d, i)' <=> IsPut(d, i) \/ (i = Len(requests[d]) + 1 /\ r.kind = "put")
              /\ \A i \in DOMAIN requests[d] : requests'[d][i] = requests[d][i]
              /\ requests'[d][Len(requests[d]) + 1] = r
          BY <1>0, <3>2, <4>1, RequestAppended
        <4>3. r.write = w
          BY <1>2, <4>1, RequestFacts
        <4> QED
          BY <4>2, <4>3 DEF IsPut
      <3> QED
        BY <1>1, <3>1, <3>2
    <2>4. \A k : IsPutAnswer(d, k)' => IsPutAnswer(d, k) /\ responses'[d][k].write = responses[d][k].write
      BY <1>1 DEF IsPutAnswer
    <2> QED
      BY <1>1, <2>2, <2>3, <2>4, OutstandingKept DEF Outstanding
  <1> QED
    BY <1>3, <1>4 DEF Outstanding

\* A listen is no put.
LEMMA OutstandingFetchTeams ==
  ASSUME IInv, Outstanding, NEW d \in Devices, FetchTeams(d)
  PROVE  Outstanding'
  <1>0. Types
    BY DEF IInv
  <1>1. /\ requests' = requests \/ requests' = [requests EXCEPT ![d] = Append(@, Listen)]
        /\ UNCHANGED <<conn, puts, responses>>
    BY DEF FetchTeams
  <1>2. ASSUME NEW e \in Devices, e # d PROVE OutstandingInv(e)'
    <2>1. requests'[e] = requests[e]
      BY <1>0, <1>1, <1>2 DEF Types
    <2> QED
      BY <1>1, <2>1, OutstandingSame DEF Outstanding
  <1>3. OutstandingInv(d)'
    <2>1. \A i : IsPut(d, i)' => IsPut(d, i) /\ requests'[d][i].write = requests[d][i].write
      <3>1. CASE requests' = requests
        BY <3>1 DEF IsPut
      <3>2. CASE requests' = [requests EXCEPT ![d] = Append(@, Listen)]
        <4>1. Listen \in Requests /\ Listen.kind # "put"
          BY RequestFacts
        <4>2. /\ \A i : IsPut(d, i)' <=> IsPut(d, i) \/ (i = Len(requests[d]) + 1 /\ Listen.kind = "put")
              /\ \A i \in DOMAIN requests[d] : requests'[d][i] = requests[d][i]
          BY <1>0, <3>2, <4>1, RequestAppended
        <4> QED
          BY <4>1, <4>2 DEF IsPut
      <3> QED
        BY <1>1, <3>1, <3>2
    <2>2. \A k : IsPutAnswer(d, k)' => IsPutAnswer(d, k) /\ responses'[d][k].write = responses[d][k].write
      BY <1>1 DEF IsPutAnswer
    <2>3. OutstandingInv(d) /\ conn'[d] = conn[d] /\ puts[d] \subseteq puts'[d]
      BY <1>1 DEF Outstanding
    <2> QED
      BY <2>1, <2>2, <2>3, OutstandingKept
  <1> QED
    BY <1>2, <1>3 DEF Outstanding

\* The puts that are sent again are outstanding; without a connection there is nothing to say.
LEMMA OutstandingConnection ==
  ASSUME IInv, Outstanding, NEW d \in Devices, OnReady(d) \/ OnDisconnect(d) \/ Relaunch(d)
  PROVE  Outstanding'
  <1>0. Types /\ DeviceInv(d)
    BY DEF IInv
  <1>1. ASSUME NEW e \in Devices, e # d PROVE OutstandingInv(e)'
    <2>1. /\ conn'[e] = conn[e] /\ puts'[e] = puts[e] /\ requests'[e] = requests[e]
          /\ responses'[e] = responses[e]
      BY <1>0, <1>1 DEF Types, OnReady, OnDisconnect, Relaunch, LoseConnection
    <2> QED
      BY <2>1, OutstandingSame DEF Outstanding
  <1>2. ASSUME OnReady(d) PROVE OutstandingInv(d)'
    <2>1. PICK s \in RestoredPuts(d) :
            requests' = [requests EXCEPT ![d] = RestoredListens(d) \o [i \in DOMAIN s |-> Put(s[i].write)]]
      BY <1>2 DEF OnReady
    <2>2. /\ conn[d] = "disconnected" /\ puts' = [puts EXCEPT ![d] = {[p EXCEPT !.sent = TRUE] : p \in @}]
          /\ responses' = responses
      BY <1>2 DEF OnReady
    <2>3. responses'[d] = <<>>
      BY <1>0, <2>2 DEF DeviceInv, ListenInv
    <2>4. /\ puts'[d] = {[p EXCEPT !.sent = TRUE] : p \in puts[d]}
          /\ \A p \in puts[d] : [p EXCEPT !.sent = TRUE].write = p.write
      BY <1>0, <2>2 DEF Types
    <2>5. \A p \in puts[d] : \E q \in puts'[d] : q.write = p.write
      BY <2>4
    <2>6. \A i : IsPut(d, i)' => \E p \in puts[d] : requests'[d][i].write = p.write
      <3> DEFINE k == Len(RestoredListens(d))
      <3>1. \A i : IsPut(d, i)' => /\ i \in Nat /\ i - k \in DOMAIN s /\ s[i - k] \in puts[d]
                                   /\ requests'[d][i].write = s[i - k].write
        BY <1>0, <2>1, Restored
      <3> HIDE DEF k
      <3> QED
        BY <3>1
    <2> QED
      BY <2>3, <2>5, <2>6 DEF OutstandingInv, IsPutAnswer
  <1>3. ASSUME OnDisconnect(d) \/ Relaunch(d) PROVE OutstandingInv(d)'
    <2>1. conn'[d] = "disconnected"
      BY <1>0, <1>3 DEF Types, OnDisconnect, Relaunch, LoseConnection
    <2> QED
      BY <2>1 DEF OutstandingInv
  <1> QED
    BY <1>1, <1>2, <1>3 DEF Outstanding

\* A put that the server takes is answered, or not.
LEMMA OutstandingServer ==
  ASSUME Types, Outstanding, NEW d \in Devices, requests[d] # <<>>, TakeRequest(d),
         conn' = conn, puts' = puts,
         \A e \in Devices : \A k : IsPutAnswer(e, k)' =>
           \/ IsPutAnswer(e, k) /\ responses'[e][k] = responses[e][k]
           \/ e = d /\ Head(requests[d]).kind = "put" /\ responses'[e][k].write = Head(requests[d]).write
  PROVE  Outstanding'
  <1>1. /\ IsPut(d, 1) <=> Head(requests[d]).kind = "put"
        /\ requests[d][1] = Head(requests[d])
        /\ \A i : IsPut(d, i)' => IsPut(d, i + 1) /\ requests'[d][i] = requests[d][i + 1]
    BY RequestTaken
  <1>2. \A e \in Devices : e # d => requests'[e] = requests[e]
    BY OthersKept
  <1>3. ASSUME NEW e \in Devices PROVE OutstandingInv(e)'
    <2>1. OutstandingInv(e) /\ conn'[e] = conn[e] /\ puts[e] \subseteq puts'[e]
      BY DEF Outstanding
    <2>2. \A i : IsPut(e, i)' => \E j : IsPut(e, j) /\ requests'[e][i].write = requests[e][j].write
      <3>1. CASE e = d
        BY <1>1, <3>1
      <3>2. CASE e # d
        BY <1>2, <3>2 DEF IsPut
      <3> QED
        BY <3>1, <3>2
    <2>3. \A k : IsPutAnswer(e, k)' =>
            \/ \E l : IsPutAnswer(e, l) /\ responses'[e][k].write = responses[e][l].write
            \/ \E j : IsPut(e, j) /\ responses'[e][k].write = requests[e][j].write
      BY <1>1
    <2> QED
      BY <2>1, <2>2, <2>3, OutstandingKept
  <1> QED
    BY <1>3 DEF Outstanding

\* The server reads a request.
LEMMA OutstandingRequest ==
  ASSUME IInv, Outstanding, NEW d \in Devices, ServerListens(d) \/ ServerApplies(d) \/ ServerRefuses(d)
  PROVE  Outstanding'
  <1>0. Types
    BY DEF IInv
  <1>1. requests[d] # <<>> /\ TakeRequest(d) /\ conn' = conn /\ puts' = puts
    BY DEF ServerListens, ServerApplies, ServerRefuses, clientVars
  <1>2. /\ Head(requests[d]).kind = "put" => Head(requests[d]).write \in Writes
        /\ Head(requests[d]).kind \in {"listen", "put"}
    <2>1. Head(requests[d]) \in Requests
      BY <1>0, <1>1, RequestTaken
    <2> QED
      BY <2>1, RequestFacts
  <1> DEFINE Sent(e, s, m) == s \in Seq(Messages) /\ SameAnswers(e, s) /\ responses'[e] = Append(s, m)
             Old(e, k) == IsPutAnswer(e, k) /\ responses'[e][k] = responses[e][k]
             New(e, k) == /\ e = d /\ Head(requests[d]).kind = "put"
                          /\ responses'[e][k].write = Head(requests[d]).write
  <1>3. \A e \in Devices : responses'[e] = responses[e] => \A k : IsPutAnswer(e, k)' => Old(e, k)
    BY DEF IsPutAnswer
  <1>4. ASSUME NEW e \in Devices, NEW s \in Seq(Messages), SameAnswers(e, s), responses'[e] = s, NEW k, IsPutAnswer(e, k)'
        PROVE  Old(e, k)
    BY <1>4 DEF SameAnswers, IsPutAnswer
  <1>5. ASSUME NEW e \in Devices, NEW s, NEW m \in Messages, Sent(e, s, m), NEW k, IsPutAnswer(e, k)'
        PROVE  Old(e, k) \/ (m.kind = "putAnswer" /\ responses'[e][k] = m)
    <2>1. s \in Seq(Messages) /\ SameAnswers(e, s) /\ responses'[e] = Append(s, m)
      BY <1>5
    <2>2. /\ \A j : IsPutAnswer(e, j)' <=> IsPutAnswer(e, j) \/ (j = Len(s) + 1 /\ m.kind = "putAnswer")
          /\ \A j : IsPutAnswer(e, j) => responses'[e][j] = responses[e][j]
          /\ responses'[e][Len(s) + 1] = m
      BY <2>1, AnswerSent, SMTT(90) DEF SameAnswers
    <2> QED
      BY <1>5, <2>2
  <1>6. CASE ServerListens(d)
    <2> DEFINE tree == [kind |-> "tree", tree |-> db]
               answer == [kind |-> "listenAnswer", ok |-> TRUE]
    <2>1. responses' = [responses EXCEPT ![d] = IF conn[d] = "connected" THEN @ \o <<tree, answer>> ELSE @]
      BY <1>6 DEF ServerListens, Respond
    <2>2. /\ tree \in Messages /\ answer \in Messages /\ tree.kind = "tree" /\ answer.kind = "listenAnswer"
      BY <1>0, MessageKinds DEF Types
    <2> HIDE DEF tree, answer
    <2>3. Append(responses[d], tree) \in Seq(Messages) /\ SameAnswers(d, Append(responses[d], tree))
      <3>1. tree.kind \notin {"listenAnswer", "putAnswer"}
        BY <2>2
      <3> QED
        BY <1>0, <2>2, <3>1, DataSent
    <2>4. /\ conn[d] = "connected" => responses'[d] = Append(Append(responses[d], tree), answer)
          /\ conn[d] # "connected" => responses'[d] = responses[d]
          /\ \A e \in Devices : e # d => responses'[e] = responses[e]
      BY <1>0, <2>1, <2>2, MessagesSent DEF Types
    <2>5. \A k : IsPutAnswer(d, k)' => Old(d, k)
      <3>1. answer.kind # "putAnswer"
        BY <2>2
      <3>2. CASE conn[d] = "connected"
        <4>1. Sent(d, Append(responses[d], tree), answer)
          BY <2>3, <2>4, <3>2
        <4> HIDE DEF Sent, Old
        <4> QED
          BY <1>5, <2>2, <3>1, <4>1
      <3> QED
        BY <1>3, <2>4, <3>2
    <2>6. \A e \in Devices : \A k : IsPutAnswer(e, k)' => Old(e, k)
      BY <1>3, <2>4, <2>5
    <2> QED
      BY <1>0, <1>1, <2>6, OutstandingServer
  <1>7. CASE ServerRefuses(d)
    <2>1. PICK r : r = Head(requests[d])
      OBVIOUS
    <2> DEFINE answer == IF r.kind = "listen" THEN [kind |-> "listenAnswer", ok |-> FALSE]
                         ELSE [kind |-> "putAnswer", write |-> r.write, ok |-> FALSE]
    <2>2. responses' = [responses EXCEPT ![d] = IF conn[d] = "connected" THEN @ \o <<answer>> ELSE @]
      BY <1>7, <2>1 DEF ServerRefuses, Respond
    <2>3. /\ answer \in Messages
          /\ answer.kind = "putAnswer" => answer.write = r.write /\ r.kind = "put"
      BY <1>2, <2>1, MessageKinds
    <2> HIDE DEF answer
    <2>4. responses[d] \in Seq(Messages) /\ SameAnswers(d, responses[d])
      BY <1>0, DataSent
    <2>5. /\ conn[d] = "connected" => responses'[d] = Append(responses[d], answer)
          /\ conn[d] # "connected" => responses'[d] = responses[d]
          /\ \A e \in Devices : e # d => responses'[e] = responses[e]
      <3>1. responses[d] \o <<answer>> = Append(responses[d], answer)
        BY <2>3, <2>4, MessagesSent
      <3> QED
        BY <1>0, <2>2, <3>1 DEF Types
    <2>6. \A k : IsPutAnswer(d, k)' => Old(d, k) \/ New(d, k)
      <3>1. CASE conn[d] = "connected"
        <4>1. Sent(d, responses[d], answer)
          BY <2>4, <2>5, <3>1
        <4> HIDE DEF Sent, Old
        <4>2. \A k : IsPutAnswer(d, k)' => Old(d, k) \/ (answer.kind = "putAnswer" /\ responses'[d][k] = answer)
          BY <1>5, <2>3, <4>1
        <4> QED
          BY <2>1, <2>3, <4>2
      <3> QED
        BY <1>3, <2>5, <3>1
    <2>7. \A e \in Devices : \A k : IsPutAnswer(e, k)' => Old(e, k) \/ New(e, k)
      BY <1>3, <2>5, <2>6
    <2> QED
      BY <1>0, <1>1, <2>7, OutstandingServer
  <1>8. CASE ServerApplies(d)
    <2>1. PICK w : w = Head(requests[d]).write
      OBVIOUS
    <2> DEFINE change == [kind |-> "change", write |-> w]
               answer == [kind |-> "putAnswer", write |-> w, ok |-> TRUE]
               told(e) == IF e \in listening THEN Append(responses[e], change) ELSE responses[e]
    <2>2. /\ Head(requests[d]).kind = "put"
          /\ responses' = IF conn[d] = "connected"
                            THEN [[e \in Devices |-> told(e)] EXCEPT ![d] = Append(@, answer)]
                            ELSE [e \in Devices |-> told(e)]
      BY <1>8, <2>1 DEF ServerApplies
    <2>3. /\ change \in Messages /\ answer \in Messages /\ answer.write = w
          /\ change.kind \notin {"listenAnswer", "putAnswer"}
      BY <1>2, <2>1, <2>2, MessageKinds
    <2> HIDE DEF change, answer
    <2>4. \A e \in Devices : told(e) \in Seq(Messages) /\ SameAnswers(e, told(e))
      BY <1>0, <2>3, DataSent
    <2> HIDE DEF told
    <2>5. /\ \A e \in Devices : e # d \/ conn[d] # "connected" => responses'[e] = told(e)
          /\ conn[d] = "connected" => responses'[d] = Append(told(d), answer)
      BY <2>2
    <2>6. ASSUME NEW e \in Devices, e # d \/ conn[d] # "connected", NEW k, IsPutAnswer(e, k)' PROVE Old(e, k)
      BY <1>4, <2>4, <2>5, <2>6
    <2>7. ASSUME conn[d] = "connected", NEW k, IsPutAnswer(d, k)' PROVE Old(d, k) \/ New(d, k)
      <3>1. Sent(d, told(d), answer)
        BY <2>4, <2>5, <2>7
      <3> HIDE DEF Sent, Old
      <3>2. Old(d, k) \/ (answer.kind = "putAnswer" /\ responses'[d][k] = answer)
        BY <1>5, <2>3, <2>7, <3>1
      <3> QED
        BY <2>1, <2>2, <2>3, <3>2
    <2>8. \A e \in Devices : \A k : IsPutAnswer(e, k)' => Old(e, k) \/ New(e, k)
      BY <2>6, <2>7
    <2> QED
      BY <1>0, <1>1, <2>8, OutstandingServer
  <1> QED
    BY <1>6, <1>7, <1>8

\* The answer that is read takes its put along; the others are newer.
LEMMA OutstandingRead ==
  ASSUME IInv, Outstanding, NEW d \in Devices, OnDataUpdate(d) \/ OnPutAnswer(d) \/ OnListenAnswer(d)
  PROVE  Outstanding'
  <1>0. Types /\ DeviceInv(d)
    BY DEF IInv
  <1>1. PICK kind : TakeResponse(d, kind)
    BY DEF OnDataUpdate, OnPutAnswer, OnListenAnswer
  <1>2. PICK w : w = Head(responses[d]).write
    OBVIOUS
  <1>3. /\ requests' = requests /\ conn' = conn
        /\ \/ puts' = puts
           \/ kind = "putAnswer" /\ puts' = [puts EXCEPT ![d] = {p \in @ : p.write # w}]
    BY <1>1, <1>2 DEF OnDataUpdate, OnPutAnswer, OnListenAnswer, TakeResponse
  <1>4. /\ responses[d][1] = Head(responses[d])
        /\ IsPutAnswer(d, 1) <=> kind = "putAnswer"
        /\ \A k : IsPutAnswer(d, k)' => /\ k \in Nat /\ k >= 1 /\ IsPutAnswer(d, k + 1)
                                        /\ responses'[d][k] = responses[d][k + 1]
        /\ \A e \in Devices : e # d => responses'[e] = responses[e]
    BY <1>0, <1>1, ResponseTaken
  <1>5. ASSUME NEW e \in Devices, e # d PROVE OutstandingInv(e)'
    <2>1. puts'[e] = puts[e]
      BY <1>0, <1>3, <1>5 DEF Types
    <2> QED
      BY <1>3, <1>4, <1>5, <2>1, OutstandingSame DEF Outstanding
  <1>6. OutstandingInv(d)'
    <2> SUFFICES ASSUME conn[d] = "connected" PROVE OutstandingInv(d)'
      BY <1>3 DEF OutstandingInv
    <2>1. \A p \in puts[d] : p.write # w \/ kind # "putAnswer" => p \in puts'[d]
      BY <1>0, <1>3 DEF Types
    <2>2. ASSUME kind = "putAnswer"
          PROVE  /\ \A i : IsPut(d, i) => requests[d][i].write # w
                 /\ \A k : IsPutAnswer(d, k)' => responses'[d][k].write # w
      <3>1. IsPutAnswer(d, 1) /\ responses[d][1].write = w
        BY <1>2, <1>4, <2>2
      <3>2. w \in Writes /\ w.n \in Nat
        BY <1>0, <3>1, TypeFacts, WriteFacts
      <3>3. \A i : IsPut(d, i) => w.n < requests[d][i].write.n
        BY <1>0, <3>1 DEF DeviceInv, OrderInv
      <3>4. \A k : IsPutAnswer(d, k)' => w.n < responses'[d][k].write.n
        <4> SUFFICES ASSUME NEW k, IsPutAnswer(d, k)' PROVE w.n < responses'[d][k].write.n
          OBVIOUS
        <4>1. IsPutAnswer(d, k + 1) /\ 1 < k + 1 /\ responses'[d][k] = responses[d][k + 1]
          BY <1>4
        <4> QED
          BY <1>0, <3>1, <4>1 DEF DeviceInv, OrderInv
      <3>5. ~(w.n < w.n)
        BY <3>2
      <3> QED
        BY <3>3, <3>4, <3>5
    <2>3. \A i : IsPut(d, i)' => IsPut(d, i) /\ requests'[d][i] = requests[d][i]
      BY <1>3 DEF IsPut
    <2>4. /\ \A i : IsPut(d, i) => \E p \in puts[d] : p.write = requests[d][i].write
          /\ \A k : IsPutAnswer(d, k) => \E p \in puts[d] : p.write = responses[d][k].write
      BY DEF Outstanding, OutstandingInv
    <2>5. \A i : IsPut(d, i)' => \E p \in puts'[d] : p.write = requests'[d][i].write
      BY <2>1, <2>2, <2>3, <2>4
    <2>6. \A k : IsPutAnswer(d, k)' => \E p \in puts'[d] : p.write = responses'[d][k].write
      BY <1>4, <2>1, <2>2, <2>4
    <2> QED
      BY <2>5, <2>6 DEF OutstandingInv
  <1> QED
    BY <1>5, <1>6 DEF Outstanding

\* No request and no answer of a connection is one of an earlier launch.
LEMMA OutstandingStep == IInv /\ Outstanding /\ [Next]_vars => Outstanding'
  <1> SUFFICES ASSUME IInv, Outstanding, [Next]_vars PROVE Outstanding'
    OBVIOUS
  <1>1. CASE UNCHANGED vars
    BY <1>1, OutstandingSame DEF Outstanding, vars, clientVars, wireVars
  <1>2. ASSUME NEW d \in Devices, NEW t \in Teams, CreateTeam(d, t) \/ AddPlayerToFirebase(d, t)
        PROVE  Outstanding'
    BY <1>2, OutstandingSetValue DEF CreateTeam, AddPlayerToFirebase
  <1>3. ASSUME NEW d \in Devices,
               \/ FetchTeams(d) \/ OnReady(d) \/ OnDisconnect(d) \/ Relaunch(d)
               \/ ServerListens(d) \/ ServerApplies(d) \/ ServerRefuses(d)
               \/ OnDataUpdate(d) \/ OnPutAnswer(d) \/ OnListenAnswer(d)
        PROVE  Outstanding'
    BY <1>3, OutstandingFetchTeams, OutstandingConnection, OutstandingRequest, OutstandingRead
  <1> QED
    BY <1>1, <1>2, <1>3 DEF Next

-----------------------------------------------------------------------------
\* The newest of some writes stays, if only older ones go.
LEMMA NewestLeft ==
  ASSUME NEW S \in SUBSET Writes, NEW T \in SUBSET S, HasNewest(S),
         \A x \in S \ T, y \in T : x.n < y.n
  PROVE  HasNewest(T)
  <1> SUFFICES ASSUME NEW y \in T PROVE \E w \in T : \A x \in T : x.n <= w.n
    BY DEF HasNewest
  <1>1. PICK w \in S : \A x \in S : x.n <= w.n
    BY DEF HasNewest
  <1>2. w.n \in Nat /\ y.n \in Nat
    BY WriteFacts
  <1>3. w \in T
    <2> SUFFICES ASSUME w \notin T PROVE FALSE
      OBVIOUS
    <2>1. w.n < y.n /\ y.n <= w.n
      BY <1>1
    <2> QED
      BY <1>2, <2>1
  <1> QED
    BY <1>1, <1>3

\* A write newer than the others is the newest.
LEMMA NewestMore ==
  ASSUME NEW S \in SUBSET Writes, HasNewest(S), NEW w \in Writes, \A x \in S : x.n < w.n
  PROVE  HasNewest(S \cup {w})
  <1>1. \A x \in S \cup {w} : x.n \in Nat
    BY WriteFacts
  <1>2. \A x \in S \cup {w} : x.n <= w.n
    BY <1>1
  <1> QED
    BY <1>2 DEF HasNewest

\* What the completions of some answers leave pending, and acknowledge.
LEMMA CompletionsTaken ==
  ASSUME Types, NEW d \in Devices, NEW answers \in Seq(Answers), RunCompletions(d, answers)
  PROVE  /\ \A x : x \in allWrites'[d] <=> x \in allWrites[d] /\ \A i \in DOMAIN answers : answers[i].write # x
         /\ \A x : x \in acked'[d] <=>
              x \in acked[d] \/ \E i \in DOMAIN answers : answers[i].ok /\ x = answers[i].write
         /\ \A e \in Devices : e # d => allWrites'[e] = allWrites[e] /\ acked'[e] = acked[e]
  <1> DEFINE left == AckWrites(allWrites[d], answers)
             new == {a.write : a \in {x \in ToSet(answers) : x.ok}}
  <1>1. /\ allWrites' = [allWrites EXCEPT ![d] = left]
        /\ acked' = [acked EXCEPT ![d] = @ \cup new]
    BY DEF RunCompletions
  <1>2. \A x : x \in left <=> x \in allWrites[d] /\ \A i \in DOMAIN answers : answers[i].write # x
    BY DEF AckWrites
  <1>3. \A x : x \in new <=> \E i \in DOMAIN answers : answers[i].ok /\ x = answers[i].write
    BY DEF ToSet
  <1> HIDE DEF left, new
  <1>4. /\ allWrites'[d] = left /\ acked'[d] = acked[d] \cup new
        /\ \A e \in Devices : e # d => allWrites'[e] = allWrites[e] /\ acked'[e] = acked[e]
    BY <1>1 DEF Types
  <1> QED
    BY <1>2, <1>3, <1>4

\* The writes under way, and those whose answer was read, by their places.
LEMMA WaysRead ==
  ASSUME Types, NEW d \in Devices
  PROVE  /\ \A x : x \in UnderWay(d) <=> \/ \E p \in puts[d] : x = p.write
                                         \/ \E k \in DOMAIN putsToAck[d] : x = putsToAck[d][k].write
         /\ \A x : x \in Read(d) <=> x \in acked[d] \/ \E k \in DOMAIN putsToAck[d] : x = putsToAck[d][k].write
         /\ \A x : x \in ReadOk(d) <=>
              x \in acked[d] \/ \E k \in DOMAIN putsToAck[d] : putsToAck[d][k].ok /\ x = putsToAck[d][k].write
         /\ acked[d] \subseteq ReadOk(d) /\ ReadOk(d) \subseteq Read(d) /\ Read(d) \subseteq Writes
  <1>1. putsToAck[d] \in Seq(Answers)
    BY DEF Types
  <1>2. \A x : x \in UnderWay(d) <=> \/ \E p \in puts[d] : x = p.write
                                     \/ \E k \in DOMAIN putsToAck[d] : x = putsToAck[d][k].write
    BY DEF UnderWay, ToSet
  <1>3. Read(d) \subseteq Writes
    BY TypeFacts
  <1> QED
    BY <1>2, <1>3 DEF Read, ReadOk

\* The answer to a put: the oldest write under way is read.
LEMMA AnswerIsOldest ==
  ASSUME IInv, Outstanding, NEW d \in Devices, OnPutAnswer(d), NEW w, w = Head(responses[d]).write
  PROVE  /\ w \in Writes /\ w.dev = d
         /\ \A x \in Read(d) : x.n < w.n
         /\ \E p \in puts[d] : p.write = w
         /\ \A p : p \in puts'[d] <=> p \in puts[d] /\ p.write # w
         /\ \A p \in puts'[d] : w.n < p.write.n
  <1>0. Types /\ DeviceInv(d)
    BY DEF IInv
  <1>1. IsPutAnswer(d, 1) /\ responses[d][1].write = w /\ responses[d] # <<>>
    <2>1. TakeResponse(d, "putAnswer")
      BY DEF OnPutAnswer
    <2> QED
      BY <1>0, <2>1, ResponseTaken
  <1>2. w \in Writes /\ w.dev = d /\ (\A x \in Read(d) : x.n < w.n)
    BY <1>0, <1>1, TypeFacts DEF DeviceInv, OwnInv, OrderInv
  <1>3. conn[d] = "connected"
    BY <1>0, <1>1 DEF DeviceInv, ListenInv, Types
  <1>4. \E p \in puts[d] : p.write = w
    BY <1>1, <1>3 DEF Outstanding, OutstandingInv
  <1>5. \A p : p \in puts'[d] <=> p \in puts[d] /\ p.write # w
    <2>1. puts' = [puts EXCEPT ![d] = {p \in @ : p.write # w}]
      BY DEF OnPutAnswer
    <2> QED
      BY <1>0, <2>1 DEF Types
  <1>6. ASSUME NEW p \in puts'[d] PROVE w.n < p.write.n
    <2>1. p \in puts[d] /\ p.write # w
      BY <1>5
    <2>2. CASE \E i : IsPut(d, i) /\ requests[d][i].write = p.write
      BY <1>0, <1>1, <2>2 DEF DeviceInv, OrderInv
    <2>3. CASE \E k : IsPutAnswer(d, k) /\ responses[d][k].write = p.write
      <3>1. PICK k : IsPutAnswer(d, k) /\ responses[d][k].write = p.write
        BY <2>3
      <3>2. k # 1 /\ k \in Nat /\ k >= 1
        <4>1. responses[d] \in Seq(Messages)
          BY <1>0 DEF Types
        <4> QED
          BY <1>1, <2>1, <3>1, <4>1 DEF IsPutAnswer
      <3>3. 1 < k
        BY <3>2
      <3> QED
        BY <1>0, <1>1, <3>1, <3>3 DEF DeviceInv, OrderInv
    <2> QED
      BY <1>0, <1>3, <2>1, <2>2, <2>3 DEF DeviceInv, CoverInv
  <1> QED
    BY <1>2, <1>4, <1>5, <1>6

\* The completion of the answer m runs, or m is held back.
CompletionRuns(d, m) ==
  /\ unacked[d] = 0 /\ putsToAck[d] = <<>> /\ putsToAck'[d] = <<>>
  /\ \A x : x \in allWrites'[d] <=> x \in allWrites[d] /\ x # m.write
  /\ \A x : x \in acked'[d] <=> x \in acked[d] \/ (m.ok /\ x = m.write)

HeldBack(d, m) ==
  /\ unacked[d] # 0 /\ allWrites'[d] = allWrites[d] /\ acked'[d] = acked[d]
  /\ \A x : (\E k \in DOMAIN putsToAck'[d] : x = putsToAck'[d][k].write) <=>
              (\E k \in DOMAIN putsToAck[d] : x = putsToAck[d][k].write) \/ x = m.write
  /\ \A x : (\E k \in DOMAIN putsToAck'[d] : putsToAck'[d][k].ok /\ x = putsToAck'[d][k].write) <=>
              \/ \E k \in DOMAIN putsToAck[d] : putsToAck[d][k].ok /\ x = putsToAck[d][k].write
              \/ m.ok /\ x = m.write

\* The answer to a put: its completion runs, or is held back.
LEMMA PutAnswered ==
  ASSUME IInv, NEW d \in Devices, OnPutAnswer(d), NEW m, m = Head(responses[d])
  PROVE  /\ \A e \in Devices : e # d =>
              /\ puts'[e] = puts[e] /\ putsToAck'[e] = putsToAck[e] /\ allWrites'[e] = allWrites[e]
              /\ acked'[e] = acked[e] /\ responses'[e] = responses[e]
         /\ CompletionRuns(d, m) \/ HeldBack(d, m)
  <1>0. Types /\ DeviceInv(d)
    BY DEF IInv
  <1> DEFINE answer == [write |-> m.write, ok |-> m.ok]
  <1>1. /\ TakeResponse(d, "putAnswer")
        /\ puts' = [puts EXCEPT ![d] = {p \in @ : p.write # m.write}]
        /\ unacked[d] = 0 => RunCompletions(d, <<answer>>) /\ UNCHANGED putsToAck
        /\ unacked[d] # 0 => /\ putsToAck' = [putsToAck EXCEPT ![d] = Append(@, answer)]
                             /\ UNCHANGED <<allWrites, acked>>
    BY DEF OnPutAnswer
  <1>2. /\ m \in Messages /\ m.kind = "putAnswer" /\ responses[d] # <<>>
        /\ \A e \in Devices : e # d => responses'[e] = responses[e]
    BY <1>0, <1>1, ResponseTaken
  <1>3. answer \in Answers /\ answer.write = m.write /\ answer.ok = m.ok
    <2>1. m.write \in Writes /\ m.ok \in BOOLEAN
      BY <1>2, MessageFacts
    <2> QED
      BY <2>1 DEF Answers
  <1> HIDE DEF answer
  <1>4. \A e \in Devices : e # d => puts'[e] = puts[e]
    BY <1>0, <1>1 DEF Types
  <1>5. CASE unacked[d] = 0
    <2>1. PICK s \in Seq(Answers) : s = <<answer>>
      <3>1. <<answer>> \in Seq(Answers)
        BY <1>3
      <3> QED
        BY <3>1
    <2>2. \A i : i \in DOMAIN s <=> i = 1
      BY <2>1
    <2>3. s[1] = answer
      BY <2>1
    <2>4. RunCompletions(d, s) /\ putsToAck' = putsToAck
      BY <1>1, <1>5, <2>1
    <2>5. conn[d] = "connected"
      BY <1>0, <1>2 DEF DeviceInv, ListenInv, Types
    <2>6. putsToAck[d] = <<>>
      BY <1>0, <1>5, <2>5 DEF DeviceInv, ListenInv
    <2>7. /\ \A x : x \in allWrites'[d] <=> x \in allWrites[d] /\ \A i \in DOMAIN s : s[i].write # x
          /\ \A x : x \in acked'[d] <=> x \in acked[d] \/ \E i \in DOMAIN s : s[i].ok /\ x = s[i].write
          /\ \A e \in Devices : e # d => allWrites'[e] = allWrites[e] /\ acked'[e] = acked[e]
      BY <1>0, <2>4, CompletionsTaken
    <2>8. /\ \A x : x \in allWrites'[d] <=> x \in allWrites[d] /\ x # m.write
          /\ \A x : x \in acked'[d] <=> x \in acked[d] \/ (m.ok /\ x = m.write)
      BY <1>3, <2>2, <2>3, <2>7
    <2>9. CompletionRuns(d, m)
      BY <1>5, <2>4, <2>6, <2>8 DEF CompletionRuns
    <2> QED
      BY <1>2, <1>4, <2>4, <2>7, <2>9
  <1>6. CASE unacked[d] # 0
    <2>1. /\ putsToAck[d] \in Seq(Answers) /\ putsToAck'[d] = Append(putsToAck[d], answer)
          /\ \A e \in Devices : e # d => putsToAck'[e] = putsToAck[e]
      BY <1>0, <1>1, <1>6 DEF Types
    <2>2. /\ \A i : i \in DOMAIN putsToAck'[d] <=> i \in DOMAIN putsToAck[d] \/ i = Len(putsToAck[d]) + 1
          /\ \A i \in DOMAIN putsToAck[d] : putsToAck'[d][i] = putsToAck[d][i]
          /\ putsToAck'[d][Len(putsToAck[d]) + 1] = answer
      BY <1>3, <2>1, AppendPositions
    <2>3. \A x : (\E k \in DOMAIN putsToAck'[d] : x = putsToAck'[d][k].write) <=>
                   (\E k \in DOMAIN putsToAck[d] : x = putsToAck[d][k].write) \/ x = m.write
      BY <1>3, <2>2
    <2>4. \A x : (\E k \in DOMAIN putsToAck'[d] : putsToAck'[d][k].ok /\ x = putsToAck'[d][k].write) <=>
                   \/ \E k \in DOMAIN putsToAck[d] : putsToAck[d][k].ok /\ x = putsToAck[d][k].write
                   \/ m.ok /\ x = m.write
      BY <1>3, <2>2
    <2>5. /\ allWrites' = allWrites /\ acked' = acked
      BY <1>1, <1>6
    <2>6. HeldBack(d, m)
      BY <1>6, <2>3, <2>4, <2>5 DEF HeldBack
    <2> QED
      BY <1>2, <1>4, <2>1, <2>5, <2>6
  <1> QED
    BY <1>5, <1>6

\* The pending writes after that.
LEMMA PendingAnswered ==
  ASSUME IInv, IInv', Outstanding, NEW d \in Devices, PendingInv(d), OnPutAnswer(d), NEW m, m = Head(responses[d])
  PROVE  /\ PendingInv(d)'
         /\ \A w \in ReadOk(d)' : w \in ReadOk(d) \/ (m.ok /\ w = m.write)
         /\ \A w \in acked'[d] : w \in acked[d] \/ (unacked[d] = 0 /\ m.ok /\ w = m.write)
  <1>0. Types /\ Types'
    BY DEF IInv
  <1>1. PICK w : w = m.write
    OBVIOUS
  <1>2. /\ w \in Writes /\ w.dev = d
        /\ \A x \in Read(d) : x.n < w.n
        /\ \E p \in puts[d] : p.write = w
        /\ \A p : p \in puts'[d] <=> p \in puts[d] /\ p.write # w
        /\ \A p \in puts'[d] : w.n < p.write.n
    BY <1>1, AnswerIsOldest
  <1>3. /\ \A x : x \in UnderWay(d) <=> \/ \E p \in puts[d] : x = p.write
                                        \/ \E k \in DOMAIN putsToAck[d] : x = putsToAck[d][k].write
        /\ \A x : x \in Read(d) <=> x \in acked[d] \/ \E k \in DOMAIN putsToAck[d] : x = putsToAck[d][k].write
        /\ \A x : x \in ReadOk(d) <=>
             x \in acked[d] \/ \E k \in DOMAIN putsToAck[d] : putsToAck[d][k].ok /\ x = putsToAck[d][k].write
        /\ acked[d] \subseteq ReadOk(d) /\ ReadOk(d) \subseteq Read(d) /\ Read(d) \subseteq Writes
        /\ allWrites[d] \subseteq Writes
    BY <1>0, WaysRead DEF Types
  <1>4. /\ \A x : x \in UnderWay(d)' <=> \/ \E p \in puts'[d] : x = p.write
                                         \/ \E k \in DOMAIN putsToAck'[d] : x = putsToAck'[d][k].write
        /\ \A x : x \in Read(d)' <=> x \in acked'[d] \/ \E k \in DOMAIN putsToAck'[d] : x = putsToAck'[d][k].write
        /\ \A x : x \in ReadOk(d)' <=>
             x \in acked'[d] \/ \E k \in DOMAIN putsToAck'[d] : putsToAck'[d][k].ok /\ x = putsToAck'[d][k].write
    BY <1>0 DEF UnderWay, Read, ReadOk, ToSet
  <1>5. /\ allWrites[d] = UnderWay(d) /\ \A x \in Read(d) : x.dev = d
        /\ \A x \in acked[d] : \A k \in DOMAIN putsToAck[d] : x.n < putsToAck[d][k].write.n
        /\ \A t \in Teams : HasNewest(On(allWrites[d], t)) /\ HasNewest(On(acked[d], t)) /\ HasNewest(On(ReadOk(d), t))
    BY DEF PendingInv
  <1>6. ASSUME NEW S \in SUBSET Read(d), NEW t \in Teams, HasNewest(On(S, t)), NEW T,
               T = S \/ \A x : x \in T <=> x \in S \/ x = w
        PROVE  HasNewest(On(T, t))
    <2>1. On(S, t) \in SUBSET Writes /\ \A x \in On(S, t) : x.n < w.n
      BY <1>2, <1>3 DEF On
    <2>2. On(T, t) = On(S, t) \/ On(T, t) = On(S, t) \cup {w}
      BY <1>6 DEF On
    <2> QED
      BY <1>2, <1>6, <2>1, <2>2, NewestMore
  <1>7. CASE CompletionRuns(d, m)
    <2>0. /\ DOMAIN putsToAck[d] = {} /\ DOMAIN putsToAck'[d] = {} /\ unacked[d] = 0
          /\ \A x : x \in allWrites'[d] <=> x \in allWrites[d] /\ x # w
          /\ \A x : x \in acked'[d] <=> x \in acked[d] \/ (m.ok /\ x = w)
      BY <1>1, <1>7 DEF CompletionRuns
    <2>1. /\ Read(d)' = acked'[d] /\ ReadOk(d)' = acked'[d] /\ ReadOk(d) = acked[d] /\ Read(d) = acked[d]
          /\ \A x : x \in UnderWay(d)' <=> \E p \in puts'[d] : x = p.write
          /\ \A x : x \in UnderWay(d) <=> \E p \in puts[d] : x = p.write
      <3>1. DOMAIN putsToAck[d] = {} /\ DOMAIN putsToAck'[d] = {}
        BY <2>0
      <3>2. \A x : x \in UnderWay(d) <=> \E p \in puts[d] : x = p.write
        BY <1>3, <3>1
      <3>3. \A x : x \in UnderWay(d)' <=> \E p \in puts'[d] : x = p.write
        BY <1>4, <3>1
      <3>4. Read(d) = acked[d] /\ ReadOk(d) = acked[d]
        BY <3>1 DEF Read, ReadOk
      <3>5. Read(d)' = acked'[d] /\ ReadOk(d)' = acked'[d]
        BY <3>1 DEF Read, ReadOk
      <3> QED
        BY <3>2, <3>3, <3>4, <3>5
    <2>2. allWrites'[d] = UnderWay(d)'
      <3>1. \A x : x \in allWrites'[d] <=> x \in UnderWay(d)'
        BY <1>2, <1>5, <2>0, <2>1
      <3> QED
        BY <3>1
    <2>3. acked'[d] = acked[d] \/ \A x : x \in acked'[d] <=> x \in acked[d] \/ x = w
      <3>1. CASE m.ok
        BY <2>0, <3>1
      <3>2. CASE ~m.ok
        <4>1. \A x : x \in acked'[d] <=> x \in acked[d]
          BY <2>0, <3>2
        <4> QED
          BY <4>1
      <3> QED
        BY <3>1, <3>2
    <2>4. ASSUME NEW t \in Teams PROVE HasNewest(On(allWrites'[d], t))
      <3>1. /\ On(allWrites[d], t) \in SUBSET Writes
            /\ On(allWrites'[d], t) \in SUBSET On(allWrites[d], t)
        BY <1>3, <2>0 DEF On
      <3>2. \A x \in On(allWrites[d], t) \ On(allWrites'[d], t) : x = w
        BY <2>0 DEF On
      <3>3. \A y \in On(allWrites'[d], t) : w.n < y.n
        BY <1>2, <2>1, <2>2 DEF On
      <3> QED
        BY <1>5, <3>1, <3>2, <3>3, NewestLeft
    <2>5. ASSUME NEW t \in Teams PROVE HasNewest(On(acked'[d], t))
      BY <1>3, <1>5, <1>6, <2>1, <2>3
    <2>6. \A x \in Read(d)' : x.dev = d
      BY <1>2, <1>5, <2>0, <2>1
    <2>8. PendingInv(d)'
      BY <2>1, <2>2, <2>4, <2>5, <2>6, <2>0 DEF PendingInv, On
    <2> QED
      BY <1>1, <2>0, <2>1, <2>8
  <1>8. CASE HeldBack(d, m)
    <2>0. /\ unacked[d] # 0 /\ allWrites'[d] = allWrites[d] /\ acked'[d] = acked[d]
          /\ \A x : (\E k \in DOMAIN putsToAck'[d] : x = putsToAck'[d][k].write) <=>
                      (\E k \in DOMAIN putsToAck[d] : x = putsToAck[d][k].write) \/ x = w
          /\ \A x : (\E k \in DOMAIN putsToAck'[d] : putsToAck'[d][k].ok /\ x = putsToAck'[d][k].write) <=>
                      \/ \E k \in DOMAIN putsToAck[d] : putsToAck[d][k].ok /\ x = putsToAck[d][k].write
                      \/ m.ok /\ x = w
      BY <1>1, <1>8 DEF HeldBack
    <2>1. \A x : x \in Read(d)' <=> x \in Read(d) \/ x = w
      BY <1>3, <1>4, <2>0
    <2>2. \A x : x \in ReadOk(d)' <=> x \in ReadOk(d) \/ (m.ok /\ x = w)
      BY <1>3, <1>4, <2>0
    <2>3. allWrites'[d] = UnderWay(d)'
      <3>1. \A x : (\E p \in puts[d] : x = p.write) <=> (\E p \in puts'[d] : x = p.write) \/ x = w
        BY <1>2
      <3>2. \A x : x \in allWrites'[d] <=> x \in UnderWay(d)
        BY <1>5, <2>0
      <3>3. \A x : x \in UnderWay(d)' <=> \/ \E p \in puts'[d] : x = p.write
                                          \/ (\E k \in DOMAIN putsToAck[d] : x = putsToAck[d][k].write) \/ x = w
        BY <1>4, <2>0
      <3>4. \A x : x \in allWrites'[d] <=> x \in UnderWay(d)'
        BY <1>3, <3>1, <3>2, <3>3
      <3> QED
        BY <3>4
    <2>4. ReadOk(d)' = ReadOk(d) \/ \A x : x \in ReadOk(d)' <=> x \in ReadOk(d) \/ x = w
      <3>1. CASE m.ok
        BY <2>2, <3>1
      <3>2. CASE ~m.ok
        <4>1. \A x : x \in ReadOk(d)' <=> x \in ReadOk(d)
          BY <2>2, <3>2
        <4> QED
          BY <4>1
      <3> QED
        BY <3>1, <3>2
    <2>5. \A t \in Teams : HasNewest(On(ReadOk(d)', t))
      BY <1>3, <1>5, <1>6, <2>4
    <2>6. ASSUME NEW x \in acked[d], NEW k \in DOMAIN putsToAck'[d] PROVE x.n < putsToAck'[d][k].write.n
      <3>1. PICK y : y = putsToAck'[d][k].write
        OBVIOUS
      <3>2. (\E l \in DOMAIN putsToAck[d] : y = putsToAck[d][l].write) \/ y = w
        BY <2>0, <3>1
      <3>3. x \in Read(d)
        BY <1>3
      <3> QED
        BY <1>2, <1>5, <3>1, <3>2, <3>3
    <2>7. \A x \in Read(d)' : x.dev = d
      BY <1>2, <1>5, <2>1
    <2>8. PendingInv(d)'
      BY <1>5, <2>0, <2>3, <2>5, <2>6, <2>7 DEF PendingInv, On
    <2> QED
      BY <1>1, <2>0, <2>2, <2>8
  <1> QED
    BY <1>7, <1>8, PutAnswered

\* The completion of a put finds in the cache what was written, or what came after it.
LEMMA ShowsOnPutAnswer ==
  ASSUME IInv, IInv', Outstanding, ShowInv, NEW d \in Devices, OnPutAnswer(d)
  PROVE  ShowInv'
  <1>0. Types /\ DeviceInv(d) /\ ShownInv(d) /\ HistoryInv
    BY DEF IInv, ShowInv
  <1>1. PICK m : m = Head(responses[d])
    OBVIOUS
  <1>2. /\ TakeResponse(d, "putAnswer")
        /\ UNCHANGED <<conn, observers, serverCache, requests, listening, applied, db>>
    BY DEF OnPutAnswer, serverVars
  <1>3. \A e \in Devices : e # d =>
          /\ puts'[e] = puts[e] /\ putsToAck'[e] = putsToAck[e] /\ allWrites'[e] = allWrites[e]
          /\ acked'[e] = acked[e] /\ responses'[e] = responses[e]
    BY <1>1, PutAnswered
  <1>4. HistoryInv'
    BY <1>0, <1>2, SameHistory
  <1>5. ASSUME NEW e \in Devices, e # d PROVE ShownInv(e)'
    <2>1. ShownInv(e)
      BY DEF ShowInv
    <2> QED
      BY <1>0, <1>2, <1>3, <1>5, <2>1, OtherShows, SameHistory
  <1>6. BehindInv(d) /\ ObserversInv(d) /\ CompletionInv(d) /\ PendingInv(d)
    BY <1>0 DEF ShownInv
  <1>7. /\ PendingInv(d)'
        /\ \A w \in ReadOk(d)' : w \in ReadOk(d) \/ (m.ok /\ w = m.write)
        /\ \A w \in acked'[d] : w \in acked[d] \/ (unacked[d] = 0 /\ m.ok /\ w = m.write)
    BY <1>1, <1>6, PendingAnswered
  <1>8. BehindInv(d)'
    <2>1. \A w \in ReadOk(d)' : w \in ReadOk(d) \/ /\ "putAnswer" = "putAnswer" /\ Head(responses[d]).ok
                                                   /\ w = Head(responses[d]).write
      BY <1>1, <1>7
    <2> QED
      BY <1>0, <1>2, <1>6, <2>1, BehindRead
  <1>9. ObserversInv(d)'
    <2>1. observers'[d] = 0 => serverCache'[d] = NoData
      BY <1>2, <1>6 DEF ObserversInv
    <2> QED
      BY <1>0, <1>2, <1>6, <2>1, ObserversRead
  <1>10. \A w : Holds(d, w)' <=> Holds(d, w)
    BY <1>2, SameHistory DEF Holds
  <1>11. CompletionInv(d)'
    <2>1. ASSUME unacked[d] = 0, m.ok, NEW w, w = m.write PROVE Holds(d, w)
      <3>1. IsPutAnswer(d, 1) /\ responses[d][1] = m /\ responses[d] # <<>>
        BY <1>0, <1>1, <1>2, ResponseTaken
      <3>2. conn[d] = "connected"
        BY <1>0, <3>1 DEF DeviceInv, ListenInv, Types
      <3>3. \A i : ~IsListen(d, i) /\ ~IsListenAnswer(d, i)
        BY <1>0, <2>1, <3>2 DEF DeviceInv, ListenInv
      <3>4. observers[d] = 0 \/ Holds(d, responses[d][1].write)
        <4>1. \/ observers[d] = 0
              \/ 1 > 1
              \/ 1 = 1 /\ Holds(d, responses[d][1].write)
          BY <1>6, <2>1, <3>1, <3>3 DEF CompletionInv
        <4> QED
          BY <4>1
      <3> QED
        BY <1>6, <2>1, <3>1, <3>4 DEF ObserversInv, Holds
    <2>2. \A w \in acked'[d] : Holds(d, w)'
      BY <1>6, <1>7, <1>10, <2>1 DEF CompletionInv
    <2>3. "putAnswer" # "tree" /\ "putAnswer" # "change" /\ "putAnswer" # "listenAnswer"
      OBVIOUS
    <2> QED
      BY <1>0, <1>2, <1>6, <2>2, <2>3, CompletionRead
  <1> QED
    BY <1>4, <1>5, <1>7, <1>8, <1>9, <1>11 DEF ShowInv, ShownInv

\* With the answer to the listen the completions held back run.
LEMMA PendingListened ==
  ASSUME IInv, IInv', NEW d \in Devices, PendingInv(d), OnListenAnswer(d)
  PROVE  /\ PendingInv(d)'
         /\ acked'[d] = ReadOk(d) /\ ReadOk(d)' = ReadOk(d)
         /\ \A e \in Devices : e # d =>
              putsToAck'[e] = putsToAck[e] /\ allWrites'[e] = allWrites[e] /\ acked'[e] = acked[e]
  <1>0. Types /\ DeviceInv(d) /\ Types'
    BY DEF IInv
  <1>1. IsListenAnswer(d, 1) /\ responses[d] # <<>>
    <2>1. TakeResponse(d, "listenAnswer")
      BY DEF OnListenAnswer
    <2> QED
      BY <1>0, <2>1, ResponseTaken
  <1>2. unacked'[d] = 0
    <2>1. conn[d] = "connected"
      BY <1>0, <1>1 DEF DeviceInv, ListenInv, Types
    <2>2. unacked[d] = 1
      BY <1>0, <1>1, <2>1 DEF DeviceInv, ListenInv
    <2>3. unacked' = [unacked EXCEPT ![d] = @ - 1]
      BY DEF OnListenAnswer
    <2> QED
      BY <1>0, <2>2, <2>3 DEF Types
  <1>3. /\ RunCompletions(d, putsToAck[d]) /\ putsToAck[d] \in Seq(Answers)
        /\ putsToAck' = [putsToAck EXCEPT ![d] = <<>>] /\ puts' = puts
    BY <1>0, <1>2 DEF OnListenAnswer, Types
  <1>4. /\ putsToAck'[d] = <<>> /\ DOMAIN putsToAck'[d] = {}
        /\ \A e \in Devices : e # d => putsToAck'[e] = putsToAck[e]
    BY <1>0, <1>3 DEF Types
  <1>5. /\ \A x : x \in allWrites'[d] <=>
             x \in allWrites[d] /\ \A i \in DOMAIN putsToAck[d] : putsToAck[d][i].write # x
        /\ \A x : x \in acked'[d] <=>
             x \in acked[d] \/ \E i \in DOMAIN putsToAck[d] : putsToAck[d][i].ok /\ x = putsToAck[d][i].write
        /\ \A e \in Devices : e # d => allWrites'[e] = allWrites[e] /\ acked'[e] = acked[e]
    BY <1>0, <1>3, CompletionsTaken
  <1>6. /\ \A x : x \in UnderWay(d) <=> \/ \E p \in puts[d] : x = p.write
                                        \/ \E k \in DOMAIN putsToAck[d] : x = putsToAck[d][k].write
        /\ \A x : x \in Read(d) <=> x \in acked[d] \/ \E k \in DOMAIN putsToAck[d] : x = putsToAck[d][k].write
        /\ \A x : x \in ReadOk(d) <=>
             x \in acked[d] \/ \E k \in DOMAIN putsToAck[d] : putsToAck[d][k].ok /\ x = putsToAck[d][k].write
        /\ ReadOk(d) \subseteq Read(d) /\ Read(d) \subseteq Writes /\ allWrites[d] \subseteq Writes
    BY <1>0, WaysRead DEF Types
  <1>7. acked'[d] = ReadOk(d)
    <2>1. \A x : x \in acked'[d] <=> x \in ReadOk(d)
      BY <1>5, <1>6
    <2> QED
      BY <2>1
  <1>8. ReadOk(d)' = acked'[d] /\ Read(d)' = acked'[d]
    BY <1>4 DEF ReadOk, Read
  <1>9. \A x : x \in UnderWay(d)' <=> \E p \in puts[d] : x = p.write
    BY <1>0, <1>3, <1>4 DEF UnderWay, ToSet
  <1>10. \A w \in Read(d) : \A p \in puts[d] : w.n < p.write.n /\ w # p.write
    <2>1. ASSUME NEW w \in Read(d), NEW p \in puts[d] PROVE w.n < p.write.n /\ w # p.write
      <3>1. w.n < p.write.n /\ w.n \in Nat
        BY <1>0, <1>6, WriteFacts DEF DeviceInv, OrderInv
      <3> QED
        BY <3>1
    <2> QED
      BY <2>1
  <1>11. /\ allWrites[d] = UnderWay(d) /\ \A x \in Read(d) : x.dev = d
         /\ \A t \in Teams : HasNewest(On(allWrites[d], t)) /\ HasNewest(On(ReadOk(d), t))
    BY DEF PendingInv
  <1>12. allWrites'[d] = UnderWay(d)'
    <2>1. \A x : x \in allWrites'[d] <=> x \in UnderWay(d)'
      BY <1>5, <1>6, <1>9, <1>10, <1>11
    <2> QED
      BY <2>1
  <1>13. ASSUME NEW t \in Teams PROVE HasNewest(On(allWrites'[d], t))
    <2>1. /\ On(allWrites[d], t) \in SUBSET Writes
          /\ On(allWrites'[d], t) \in SUBSET On(allWrites[d], t)
      BY <1>5, <1>6 DEF On
    <2>2. \A x \in On(allWrites[d], t) \ On(allWrites'[d], t) : x \in Read(d)
      BY <1>5, <1>6 DEF On
    <2>3. \A y \in On(allWrites'[d], t) : \E p \in puts[d] : y = p.write
      BY <1>9, <1>12 DEF On
    <2> QED
      BY <1>10, <1>11, <2>1, <2>2, <2>3, NewestLeft
  <1>14. PendingInv(d)'
    <2>1. \A t \in Teams : HasNewest(On(acked'[d], t)) /\ HasNewest(On(ReadOk(d)', t))
      BY <1>7, <1>8, <1>11
    <2>2. \A x \in Read(d)' : x.dev = d
      BY <1>6, <1>7, <1>8, <1>11
    <2> QED
      BY <1>4, <1>12, <1>13, <2>1, <2>2 DEF PendingInv, On
  <1> QED
    BY <1>4, <1>5, <1>7, <1>8, <1>14

\* The tree has come before the answer to the listen, or there is none when it is refused.
LEMMA ShowsOnListenAnswer ==
  ASSUME IInv, IInv', Caches, ShowInv, NEW d \in Devices, OnListenAnswer(d)
  PROVE  ShowInv'
  <1>0. Types /\ DeviceInv(d) /\ ShownInv(d) /\ HistoryInv
    BY DEF IInv, ShowInv
  <1>1. PICK m : m = Head(responses[d])
    OBVIOUS
  <1>2. /\ TakeResponse(d, "listenAnswer")
        /\ UNCHANGED <<conn, puts, requests, listening, applied, db>>
        /\ m.ok => UNCHANGED <<observers, serverCache>>
        /\ ~m.ok => /\ observers' = [observers EXCEPT ![d] = 0]
                    /\ serverCache' = [serverCache EXCEPT ![d] = NoData]
    BY <1>1 DEF OnListenAnswer, serverVars
  <1>3. /\ IsListenAnswer(d, 1) /\ responses[d][1] = m
        /\ \A e \in Devices : e # d => responses'[e] = responses[e]
    BY <1>0, <1>1, <1>2, ResponseTaken
  <1>4. BehindInv(d) /\ ObserversInv(d) /\ CompletionInv(d) /\ PendingInv(d)
    BY <1>0 DEF ShownInv
  <1>5. /\ PendingInv(d)'
        /\ acked'[d] = ReadOk(d) /\ ReadOk(d)' = ReadOk(d)
        /\ \A e \in Devices : e # d =>
             putsToAck'[e] = putsToAck[e] /\ allWrites'[e] = allWrites[e] /\ acked'[e] = acked[e]
    BY <1>4, PendingListened
  <1>6. HistoryInv'
    BY <1>0, <1>2, SameHistory
  <1>7. ASSUME NEW e \in Devices, e # d PROVE ShownInv(e)'
    <2>1. ShownInv(e) /\ observers'[e] = observers[e] /\ serverCache'[e] = serverCache[e]
      BY <1>0, <1>2, <1>7 DEF ShowInv, Types, Caches
    <2> QED
      BY <1>0, <1>2, <1>3, <1>5, <1>7, <2>1, OtherShows, SameHistory
  <1>8. BehindInv(d)'
    BY <1>0, <1>2, <1>4, <1>5, BehindRead
  <1>9. /\ observers'[d] = observers[d] \/ observers'[d] = 0
        /\ ~m.ok => observers'[d] = 0 /\ serverCache'[d] = NoData
    BY <1>0, <1>2 DEF Types, Caches
  <1>10. ObserversInv(d)'
    <2>1. observers'[d] = 0 => serverCache'[d] = NoData
      BY <1>2, <1>4, <1>9 DEF ObserversInv
    <2> QED
      BY <1>0, <1>1, <1>2, <1>4, <1>9, <2>1, ObserversRead
  <1>11. CompletionInv(d)'
    <2>1. \A w \in acked'[d] : Holds(d, w)'
      <3>1. CASE m.ok
        <4>1. \A w \in ReadOk(d) : Holds(d, w)
          <5>1. \/ 1 > 1
                \/ \A w \in ReadOk(d) : Holds(d, w)
            BY <1>3, <1>4, <3>1 DEF CompletionInv
          <5> QED
            BY <5>1
        <4>2. \A w : Holds(d, w)' <=> Holds(d, w)
          BY <1>2, <3>1, SameHistory DEF Holds
        <4> QED
          BY <1>5, <4>1, <4>2
      <3>2. CASE ~m.ok
        BY <1>9, <3>2 DEF Holds
      <3> QED
        BY <3>1, <3>2
    <2>2. "listenAnswer" # "tree" /\ "listenAnswer" # "change"
      OBVIOUS
    <2> QED
      BY <1>0, <1>1, <1>2, <1>4, <1>9, <2>1, <2>2, CompletionRead
  <1> QED
    BY <1>5, <1>6, <1>7, <1>8, <1>10, <1>11 DEF ShowInv, ShownInv

\* Every step keeps it.
LEMMA ShowStep == IInv /\ Caches /\ Outstanding /\ ShowInv /\ [Next]_vars => ShowInv'
  <1> SUFFICES ASSUME IInv, Caches, Outstanding, ShowInv, [Next]_vars PROVE ShowInv'
    OBVIOUS
  <1>0. IInv'
    BY IInvStep
  <1>1. CASE UNCHANGED vars
    <2>1. UNCHANGED <<conn, observers, puts, putsToAck, allWrites, serverCache, requests, responses,
                      listening, db, applied, acked>>
      BY <1>1 DEF vars, clientVars, wireVars, serverVars
    <2>2. Types /\ HistoryInv
      BY DEF IInv, ShowInv
    <2>3. ASSUME NEW e \in Devices PROVE ShownInv(e)'
      <3>1. ShownInv(e)
        BY DEF ShowInv
      <3> QED
        BY <2>1, <2>2, <3>1, OtherShows, SameHistory
    <2> QED
      BY <2>1, <2>2, <2>3, SameHistory DEF ShowInv
  <1>2. ASSUME NEW d \in Devices, NEW t \in Teams, CreateTeam(d, t) \/ AddPlayerToFirebase(d, t)
        PROVE  ShowInv'
    BY <1>2, ShowsSetValue DEF CreateTeam, AddPlayerToFirebase
  <1>3. ASSUME NEW d \in Devices,
               \/ FetchTeams(d) \/ OnReady(d) \/ OnDisconnect(d) \/ Relaunch(d)
               \/ ServerListens(d) \/ ServerApplies(d) \/ ServerRefuses(d)
               \/ OnDataUpdate(d) \/ OnPutAnswer(d) \/ OnListenAnswer(d)
        PROVE  ShowInv'
    BY <1>0, <1>3, ShowsFetchTeams, ShowsOnReady, ShowsLoseConnection, ShowsServerListens, ShowsServerApplies,
       ShowsServerRefuses, ShowsOnDataUpdate, ShowsOnPutAnswer, ShowsOnListenAnswer
  <1> QED
    BY <1>1, <1>2, <1>3 DEF Next

\* At first there is nothing to show, and nothing pending.
LEMMA InitShow == Init => ShowInv /\ Outstanding
  <1> SUFFICES ASSUME Init PROVE ShowInv /\ Outstanding
    OBVIOUS
  <1>1. /\ applied = <<>> /\ DOMAIN applied = {} /\ applied \in Seq(Writes)
        /\ \A d \in Devices :
             /\ conn[d] = "disconnected" /\ observers[d] = 0 /\ puts[d] = {} /\ putsToAck[d] = <<>>
             /\ DOMAIN putsToAck[d] = {} /\ allWrites[d] = {} /\ serverCache[d] = NoData
             /\ DOMAIN responses[d] = {} /\ acked[d] = {}
    BY DEF Init
  <1>2. HistoryInv
    BY <1>1 DEF HistoryInv
  <1>3. ASSUME NEW d \in Devices PROVE ShownInv(d) /\ OutstandingInv(d)
    <2>1. /\ \A k : ~IsListenAnswer(d, k) /\ ~IsPutAnswer(d, k) /\ ~At(responses[d], k, "tree")
          /\ conn[d] # "connected"
      BY <1>1 DEF IsListenAnswer, IsPutAnswer, At
    <2>2. Read(d) = {} /\ ReadOk(d) = {} /\ UnderWay(d) = {}
      BY <1>1 DEF Read, ReadOk, UnderWay, ToSet
    <2>3. BehindInv(d) /\ CompletionInv(d)
      BY <1>1, <2>1, <2>2 DEF BehindInv, CompletionInv
    <2>4. ObserversInv(d) /\ OutstandingInv(d)
      BY <1>1, <2>1 DEF ObserversInv, AnsweredInv, OutstandingInv
    <2>5. PendingInv(d)
      <3>1. \A t \in Teams : HasNewest(On({}, t))
        BY DEF HasNewest, On
      <3> QED
        BY <1>1, <2>2, <3>1 DEF PendingInv
    <2> QED
      BY <2>3, <2>4, <2>5 DEF ShownInv
  <1> QED
    BY <1>2, <1>3 DEF ShowInv, Outstanding

\* The greatest number of a set is its Max.
LEMMA MaxOf ==
  ASSUME NEW S \in SUBSET Int, NEW m \in S, \A y \in S : y <= m
  PROVE  Max(S) = m
  <1>1. \E x \in S : \A y \in S : x >= y
    <2>1. \A y \in S : m >= y
      OBVIOUS
    <2> QED
      BY <2>1
  <1>2. Max(S) \in S /\ \A y \in S : Max(S) >= y
    BY <1>1 DEF Max
  <1>3. PICK x : x = Max(S)
    OBVIOUS
  <1>4. x \in Int /\ m \in Int /\ x >= m /\ x <= m
    BY <1>2, <1>3
  <1> QED
    BY <1>3, <1>4

\* Of a device that shows teams, its newest write on a team's node is what shows there, or
\* has been followed by what shows.
LEMMA ShowsNewest ==
  ASSUME IInv, Caches, ShowInv, NEW d \in Devices, NEW t \in Teams, Shown(d) # NoData, Newest(d, t) > 0
  PROVE  \/ IsMine(Shown(d)[t], d, Newest(d, t))
         \/ \E i, j \in DOMAIN applied :
              i < j /\ IsMine(applied[i], d, Newest(d, t)) /\ applied[j] = Shown(d)[t]
  <1> DEFINE mine == {x \in acked[d] \cup UnderWay(d) : x.team = t}
             onTeam == On(allWrites[d], t)
  <1>0. Types /\ DeviceInv(d) /\ PendingInv(d) /\ CompletionInv(d)
    BY DEF IInv, ShowInv, ShownInv
  <1>1. /\ allWrites[d] = UnderWay(d) /\ \A x \in Read(d) : x.dev = d
        /\ \A x \in acked[d] : \A k \in DOMAIN putsToAck[d] : x.n < putsToAck[d][k].write.n
        /\ HasNewest(onTeam) /\ HasNewest(On(acked[d], t))
    BY <1>0 DEF PendingInv
  <1>2. /\ \A x : x \in UnderWay(d) <=> \/ \E p \in puts[d] : x = p.write
                                        \/ \E k \in DOMAIN putsToAck[d] : x = putsToAck[d][k].write
        /\ \A x : x \in Read(d) <=> x \in acked[d] \/ \E k \in DOMAIN putsToAck[d] : x = putsToAck[d][k].write
        /\ Read(d) \subseteq Writes /\ allWrites[d] \subseteq Writes
    BY <1>0, WaysRead DEF Types
  <1>3. \A x \in UnderWay(d) : x.dev = d /\ \A y \in acked[d] : y.n < x.n
    <2> SUFFICES ASSUME NEW x \in UnderWay(d) PROVE x.dev = d /\ \A y \in acked[d] : y.n < x.n
      OBVIOUS
    <2>1. CASE \E p \in puts[d] : x = p.write
      BY <1>0, <1>2, <2>1 DEF DeviceInv, OwnInv, OrderInv
    <2>2. CASE \E k \in DOMAIN putsToAck[d] : x = putsToAck[d][k].write
      BY <1>1, <1>2, <2>2
    <2> QED
      BY <1>2, <2>1, <2>2
  <1>4. serverCache[d] # NoData /\ Shown(d) = Overlay(serverCache[d], allWrites[d])
    BY DEF Shown, View
  <1>5. Shown(d)[t] = IF onTeam = {} THEN serverCache[d][t]
                      ELSE CHOOSE w \in onTeam : \A x \in onTeam : x.n <= w.n
    BY <1>4 DEF Overlay, On
  <1>6. \A x \in mine : x \in Writes /\ x.n \in Nat
    BY <1>1, <1>2, WriteFacts
  <1>7. ASSUME NEW w \in mine, \A x \in mine : x.n <= w.n PROVE Newest(d, t) = w.n
    <2> DEFINE S == {0} \cup {x.n : x \in mine}
    <2>1. S \in SUBSET Int /\ w.n \in S /\ \A y \in S : y <= w.n
      BY <1>6, <1>7
    <2>2. Newest(d, t) = Max(S)
      BY DEF Newest
    <2> HIDE DEF S
    <2> QED
      BY <2>1, <2>2, MaxOf
  <1>8. CASE onTeam # {}
    <2>1. PICK w \in onTeam : \A x \in onTeam : x.n <= w.n
      BY <1>1, <1>8 DEF HasNewest
    <2>2. w \in UnderWay(d) /\ w \in mine /\ w.n \in Nat
      BY <1>1, <1>6, <2>1 DEF On
    <2>3. \A x \in mine : x.n <= w.n
      <3> SUFFICES ASSUME NEW x \in mine PROVE x.n <= w.n
        OBVIOUS
      <3>1. CASE x \in UnderWay(d)
        BY <1>1, <2>1, <3>1 DEF On
      <3>2. CASE x \in acked[d]
        <4>1. x.n < w.n /\ x.n \in Nat
          BY <1>3, <1>6, <2>2, <3>2
        <4> QED
          BY <2>2, <4>1
      <3> QED
        BY <3>1, <3>2
    <2>4. PICK v : v = CHOOSE x \in onTeam : \A y \in onTeam : y.n <= x.n
      OBVIOUS
    <2>5. v \in onTeam /\ \A y \in onTeam : y.n <= v.n
      BY <2>1, <2>4
    <2>6. v \in UnderWay(d) /\ v \in mine
      BY <1>1, <2>5 DEF On
    <2>7. v.n = w.n
      <3>1. v.n \in Nat /\ w.n \in Nat /\ v.n <= w.n /\ w.n <= v.n
        BY <1>6, <2>1, <2>2, <2>5, <2>6
      <3> QED
        BY <3>1
    <2>8. v # NoWrite /\ v.dev = d
      BY <1>3, <1>6, <2>6, WriteFacts
    <2> QED
      BY <1>5, <1>7, <1>8, <2>2, <2>3, <2>4, <2>7, <2>8 DEF IsMine
  <1>9. CASE onTeam = {}
    <2>1. mine = On(acked[d], t)
      BY <1>1, <1>9 DEF On
    <2>2. mine # {}
      <3> SUFFICES ASSUME mine = {} PROVE FALSE
        OBVIOUS
      <3>1. Newest(d, t) = Max({0})
        <4>1. {0} \cup {x.n : x \in mine} = {0}
          OBVIOUS
        <4> QED
          BY <4>1 DEF Newest
      <3>2. Max({0}) = 0
        <4>1. \A y \in {0} : y <= 0
          OBVIOUS
        <4> QED
          BY <4>1, MaxOf
      <3> QED
        BY <3>1, <3>2
    <2>3. PICK w \in mine : \A x \in mine : x.n <= w.n
      BY <1>1, <2>1, <2>2 DEF HasNewest
    <2>4. w \in acked[d] /\ w.team = t
      BY <2>1, <2>3 DEF On
    <2>5. w # NoWrite /\ w.dev = d /\ Newest(d, t) = w.n
      BY <1>1, <1>2, <1>6, <1>7, <2>3, <2>4, WriteFacts
    <2>6. Follows(serverCache[d][t], w)
      BY <1>0, <1>4, <2>4 DEF CompletionInv, Holds
    <2>7. Shown(d)[t] = serverCache[d][t]
      BY <1>5, <1>9
    <2> QED
      BY <2>5, <2>6, <2>7 DEF Follows, IsMine
  <1> QED
    BY <1>8, <1>9

\* A device that shows teams shows of each its own newest write, or one the server applied
\* after that: while the write is pending, when its completion is held back until the listen
\* is answered, and when it was acknowledged (FWriteTree's overlay; onDataUpdate, sendPut's
\* and sendListen's callbacks, ackPuts).
THEOREM OwnWritesAreRead == Spec => []ReadYourWrites
  <1>1. IInv /\ Caches /\ ShowInv => ReadYourWrites
    BY ShowsNewest DEF ReadYourWrites
  <1> QED
    BY <1>1, InitShow, OutstandingStep, ShowStep, Invariant, CachesHoldTrees, PTL DEF Spec
===============================================================================
