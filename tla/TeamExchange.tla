---------------------------- MODULE TeamExchange ----------------------------
(***************************************************************************)
(* Exchanging teams over the Firebase Realtime Database: createTeam,       *)
(* addPlayerToFirebase and fetchTeams of FantasyIQController on several    *)
(* devices, over the Firebase client of Pods/FirebaseDatabase (the pending *)
(* writes of FWriteTree laid over the server's data, and the puts and      *)
(* listens of FPersistentConnection, which are sent again after every      *)
(* reconnection).  The server is external: it reads the requests of a      *)
(* connection in order, tells the listeners of a change before it answers  *)
(* the put that made it, and may refuse a request.  Persistence is off in  *)
(* the app, so a restart forgets all of the client's state.                *)
(***************************************************************************)
EXTENDS Integers, Sequences, FiniteSets, FiniteSetsExt, SequencesExt

CONSTANTS
  Devices,      \* installations of the app
  Teams,        \* the identifiers (UUIDs) of the teams that may be created
  MaxWrites,    \* bound: setValue calls of each device
  MaxDrops,     \* bound: lost connections and restarts of each device
  MaxObservers, \* bound: fetchTeams calls of one launch
  MaxRefusals,  \* bound: requests of each device the server refuses
  NoWrite,      \* a node without a value; no team
  NoData        \* a server cache that is not complete

ASSUME BoundsAssumption ==
  /\ MaxWrites \in [Devices -> Nat]
  /\ MaxDrops \in [Devices -> Nat]
  /\ MaxObservers \in Nat
  /\ MaxRefusals \in [Devices -> Nat]

\* One setValue: the n-th of device dev, on the players node of a team.  What the app
\* writes there (the team with its players, or one player) no property tells apart.
Writes == [dev : Devices, n : Nat, team : Teams]

ASSUME NoWriteAssumption == NoWrite \notin Writes \cup Teams
ASSUME NoDataAssumption == NoData \notin [Teams -> Writes \cup {NoWrite}]

Trees == [Teams -> Writes \cup {NoWrite}]

VARIABLES
  \* of a device
  conn,        \* connectionState
  observers,   \* registrations at "Team": one per fetchTeams call, never removed
  unacked,     \* unackedListensCount
  puts,        \* outstandingPuts, with "sent"; their indices order them as their numbers do
  putsToAck,   \* putsToAck: answers held back until the listens are answered
  allWrites,   \* FWriteTree.allWrites; its order is that of the writes' numbers
  serverCache, \* what the server told about "Team", or NoData
  receivedTeam,\* receviedTeam and receivedPlayers of the controller
  \* of a connection and of the server
  requests,    \* requests of a device the server has not read
  responses,   \* what the server sent a device and the device has not read
  listening,   \* the devices the server sends changes to
  db,          \* the tree below "Team" on the server
  \* history
  issued,      \* how many writes each device issued
  created,     \* the teams createTeam was called for
  applied,     \* the writes in the order the server applied them
  acked,       \* acked[d]: the writes of d completed without an error
  drops, refusals

appVars == <<issued, created, receivedTeam>>
clientVars == <<conn, observers, unacked, puts, putsToAck, allWrites, serverCache>>
wireVars == <<requests, responses, listening>>
serverVars == <<db, applied, refusals>>
vars == <<appVars, clientVars, wireVars, serverVars, acked, drops>>

-----------------------------------------------------------------------------
(* The data a device shows, and what its observers make of it. *)

\* The pending writes of the device laid over the server's data, later writes over
\* earlier ones: all of them are on the players node of a team.
Overlay(cache, writes) ==
  [t \in Teams |->
     LET onTeam == {w \in writes : w.team = t}
     IN IF onTeam = {} THEN cache[t]
        ELSE CHOOSE w \in onTeam : \A x \in onTeam : x.n <= w.n]

\* The complete event cache of the view at "Team", NoData while the server has not
\* answered the listen: pending writes cover only parts of "Team".
View(cache, writes) ==
  IF cache = NoData THEN NoData ELSE Overlay(cache, writes)

\* The event cache of that view.  It is changed step by step, by server data
\* (generateEventCacheAfterServerEvent), by the device's own writes (applyUserOverwriteTo)
\* and when one is answered (ackUserWriteOn, revertUserWriteOn), always to this.
Shown(d) == View(serverCache[d], allWrites[d])

\* The keys of the node Team/<t>: createTeam puts the team, with its keys "identifier" and
\* "players", at the child "players".
NodeKeys(tree, t) == IF tree[t] = NoWrite THEN {} ELSE {"players"}

\* MUTANT: the key that createTeam writes is the one that is read.
Readable_PlayersKey(keys) == "players" \in keys

\* Team.init?(snapshot:) reads the keys "identifier" and "team" of the node.
Readable(keys) == {"identifier", "team"} \subseteq keys

\* fetchTeams' handler: the last readable child wins.
Receive(d, view) ==
  LET readable == {t \in Teams : Readable(NodeKeys(view, t))}
  IN IF view = NoData \/ readable = {}
       THEN UNCHANGED receivedTeam
       ELSE \E t \in readable : receivedTeam' = [receivedTeam EXCEPT ![d] = t]

\* A value event is raised when the view changed; with observers, their handlers run.
RaiseEvents(d, cache, writes) ==
  IF observers[d] > 0 /\ View(cache, writes) # Shown(d)
    THEN Receive(d, View(cache, writes))
    ELSE UNCHANGED receivedTeam

-----------------------------------------------------------------------------
(* Requests. *)

Listen == [kind |-> "listen"]
Put(w) == [kind |-> "put", write |-> w]

Init ==
  /\ conn = [d \in Devices |-> "disconnected"]
  /\ observers = [d \in Devices |-> 0]
  /\ unacked = [d \in Devices |-> 0]
  /\ puts = [d \in Devices |-> {}]
  /\ putsToAck = [d \in Devices |-> <<>>]
  /\ allWrites = [d \in Devices |-> {}]
  /\ serverCache = [d \in Devices |-> NoData]
  /\ receivedTeam = [d \in Devices |-> NoWrite]
  /\ requests = [d \in Devices |-> <<>>]
  /\ responses = [d \in Devices |-> <<>>]
  /\ listening = {}
  /\ db = [t \in Teams |-> NoWrite]
  /\ issued = [d \in Devices |-> 0]
  /\ created = {}
  /\ applied = <<>>
  /\ acked = [d \in Devices |-> {}]
  /\ drops = [d \in Devices |-> 0]
  /\ refusals = [d \in Devices |-> 0]

\* FRepo set: the write is pending and visible at once; the put is sent if the
\* connection is up and stays outstanding otherwise (putInternal).
SetValue(d, t) ==
  LET w == [dev |-> d, n |-> issued[d] + 1, team |-> t]
      up == conn[d] = "connected"
      pending == allWrites[d] \cup {w}
  IN /\ issued[d] < MaxWrites[d]
     /\ issued' = [issued EXCEPT ![d] = @ + 1]
     /\ allWrites' = [allWrites EXCEPT ![d] = pending]
     /\ RaiseEvents(d, serverCache[d], pending)
     /\ puts' = [puts EXCEPT ![d] = @ \cup {[write |-> w, sent |-> up]}]
     /\ requests' = IF up THEN [requests EXCEPT ![d] = Append(@, Put(w))] ELSE requests
     /\ UNCHANGED <<conn, observers, unacked, putsToAck, serverCache,
                    responses, listening, serverVars, acked, drops>>

CreateTeam(d, t) ==
  /\ t \notin created
  /\ created' = created \cup {t}
  /\ SetValue(d, t)

\* The team is one whose identifier the caller has got hold of.
AddPlayerToFirebase(d, t) ==
  /\ t \in created
  /\ SetValue(d, t)
  /\ UNCHANGED created

\* The first observer sets up the listen; a further one is served from the view.
FetchTeams(d) ==
  /\ observers[d] < MaxObservers
  /\ observers' = [observers EXCEPT ![d] = @ + 1]
  /\ IF observers[d] = 0 /\ conn[d] = "connected"
       THEN /\ requests' = [requests EXCEPT ![d] = Append(@, Listen)]
            /\ unacked' = [unacked EXCEPT ![d] = @ + 1]
       ELSE UNCHANGED <<requests, unacked>>
  /\ IF observers[d] > 0 THEN Receive(d, Shown(d)) ELSE UNCHANGED receivedTeam
  /\ UNCHANGED <<conn, puts, putsToAck, allWrites, serverCache, responses, listening,
                 serverVars, issued, created, acked, drops>>

-----------------------------------------------------------------------------
(* The connection. *)

\* MUTANT: the listens are not sent again.
RestoredListens_None(d) == <<>>

\* restoreState sends the listens first: there is one if there are observers.
RestoredListens(d) == IF observers[d] > 0 THEN <<Listen>> ELSE <<>>

\* MUTANT: the puts are sent again newest first.
InOrder_NewestFirst(S) ==
  {s \in [1 .. Cardinality(S) -> S] :
     /\ \A p \in S : \E i \in DOMAIN s : s[i] = p
     /\ \A i, j \in DOMAIN s : i < j => s[i].write.n > s[j].write.n}

\* A set of puts, listed in the order of the indices.
InOrder(S) ==
  {s \in [1 .. Cardinality(S) -> S] :
     /\ \A p \in S : \E i \in DOMAIN s : s[i] = p
     /\ \A i, j \in DOMAIN s : i < j => s[i].write.n < s[j].write.n}

\* MUTANT: a put that was sent before the connection was lost is taken for done.
RestoredPuts_OnlyUnsent(d) == InOrder({p \in puts[d] : ~p.sent})

\* Then every outstanding put.
RestoredPuts(d) == InOrder(puts[d])

\* From tryScheduleReconnect to onReady: a connection is opened and, without a credential
\* (the app never signs in), connected at once, and the state is restored.  While the
\* connection is being opened nothing is sent, as before.  The server reads no more
\* requests of an earlier connection.
OnReady(d) ==
  /\ conn[d] = "disconnected"
  /\ conn' = [conn EXCEPT ![d] = "connected"]
  /\ \E s \in RestoredPuts(d) :
       requests' = [requests EXCEPT ![d] =
                      RestoredListens(d) \o [i \in DOMAIN s |-> Put(s[i].write)]]
  /\ unacked' = [unacked EXCEPT ![d] = @ + Len(RestoredListens(d))]
  /\ puts' = [puts EXCEPT ![d] = {[p EXCEPT !.sent = TRUE] : p \in @}]
  /\ UNCHANGED <<observers, putsToAck, allWrites, serverCache, appVars, responses,
                 listening, serverVars, acked, drops>>

\* MUTANT: the listens not yet answered stay counted.
LoseConnection_KeepsCount(d) ==
  /\ drops[d] < MaxDrops[d]
  /\ drops' = [drops EXCEPT ![d] = @ + 1]
  /\ conn' = [conn EXCEPT ![d] = "disconnected"]
  /\ responses' = [responses EXCEPT ![d] = <<>>]
  /\ listening' = listening \ {d}
  /\ UNCHANGED unacked

\* What the server has sent is lost; what the device has sent the server may still read.
LoseConnection(d) ==
  /\ drops[d] < MaxDrops[d]
  /\ drops' = [drops EXCEPT ![d] = @ + 1]
  /\ conn' = [conn EXCEPT ![d] = "disconnected"]
  /\ unacked' = [unacked EXCEPT ![d] = 0]
  /\ responses' = [responses EXCEPT ![d] = <<>>]
  /\ listening' = listening \ {d}

\* onDisconnect: the callbacks of the requests are dropped, the puts stay outstanding
\* and so do the answers held back.
OnDisconnect(d) ==
  /\ conn[d] # "disconnected"
  /\ LoseConnection(d)
  /\ UNCHANGED <<observers, puts, putsToAck, allWrites, serverCache, appVars, requests,
                 serverVars, acked>>

\* The app dies and is launched again.
Relaunch(d) ==
  /\ LoseConnection(d)
  /\ observers' = [observers EXCEPT ![d] = 0]
  /\ puts' = [puts EXCEPT ![d] = {}]
  /\ putsToAck' = [putsToAck EXCEPT ![d] = <<>>]
  /\ allWrites' = [allWrites EXCEPT ![d] = {}]
  /\ serverCache' = [serverCache EXCEPT ![d] = NoData]
  /\ receivedTeam' = [receivedTeam EXCEPT ![d] = NoWrite]
  /\ UNCHANGED <<issued, created, requests, serverVars, acked>>

-----------------------------------------------------------------------------
(* The server: external. *)

\* A device whose connection is gone gets no answer.
Respond(d, messages) ==
  [responses EXCEPT ![d] = IF conn[d] = "connected" THEN @ \o messages ELSE @]

TakeRequest(d) == requests' = [requests EXCEPT ![d] = Tail(@)]

ServerListens(d) ==
  /\ requests[d] # <<>> /\ Head(requests[d]).kind = "listen"
  /\ TakeRequest(d)
  /\ listening' = IF conn[d] = "connected" THEN listening \cup {d} ELSE listening
  /\ responses' = Respond(d, <<[kind |-> "tree", tree |-> db],
                               [kind |-> "listenAnswer", ok |-> TRUE]>>)
  /\ UNCHANGED <<clientVars, appVars, serverVars, acked, drops>>

ServerApplies(d) ==
  /\ requests[d] # <<>> /\ Head(requests[d]).kind = "put"
  /\ LET w == Head(requests[d]).write
         told == [e \in Devices |->
                    IF e \in listening
                      THEN Append(responses[e], [kind |-> "change", write |-> w])
                      ELSE responses[e]]
     IN /\ TakeRequest(d)
        /\ db' = [db EXCEPT ![w.team] = w]
        /\ applied' = Append(applied, w)
        /\ responses' = IF conn[d] = "connected"
                          THEN [told EXCEPT ![d] = Append(@,
                                  [kind |-> "putAnswer", write |-> w, ok |-> TRUE])]
                          ELSE told
  /\ UNCHANGED <<clientVars, appVars, listening, refusals, acked, drops>>

ServerRefuses(d) ==
  /\ requests[d] # <<>>
  /\ refusals[d] < MaxRefusals[d]
  /\ refusals' = [refusals EXCEPT ![d] = @ + 1]
  /\ TakeRequest(d)
  /\ LET r == Head(requests[d])
     IN responses' = Respond(d,
          IF r.kind = "listen" THEN <<[kind |-> "listenAnswer", ok |-> FALSE]>>
          ELSE <<[kind |-> "putAnswer", write |-> r.write, ok |-> FALSE]>>)
  /\ UNCHANGED <<clientVars, appVars, listening, db, applied, acked, drops>>

-----------------------------------------------------------------------------
(* What a device does with a message of the server. *)

TakeResponse(d, kind) ==
  /\ responses[d] # <<>>
  /\ Head(responses[d]).kind = kind
  /\ responses' = [responses EXCEPT ![d] = Tail(@)]

\* onDataUpdate: server data for a view there is.
OnDataUpdate(d) ==
  /\ \/ /\ TakeResponse(d, "tree")
        /\ serverCache' = [serverCache EXCEPT ![d] = Head(responses[d]).tree]
     \/ /\ TakeResponse(d, "change")
        /\ LET w == Head(responses[d]).write
           IN serverCache' = [serverCache EXCEPT ![d] = [@ EXCEPT ![w.team] = w]]
  /\ RaiseEvents(d, serverCache'[d], allWrites[d])
  /\ UNCHANGED <<conn, observers, unacked, puts, putsToAck, allWrites, issued, created,
                 requests, listening, serverVars, acked, drops>>

\* MUTANT: an answer clears every pending write of the node.
AckWrites_WholeNode(writes, answers) ==
  {w \in writes : \A i \in DOMAIN answers : answers[i].write.team # w.team}

\* ackWrite, ackUserWriteWithWriteId, removeWriteId: the pending write goes, whether it
\* was applied or is reverted, and what is under it shows.
AckWrites(writes, answers) == {w \in writes : \A i \in DOMAIN answers : answers[i].write # w}

\* The completion blocks of answered puts run: acknowledge, then call the app's
\* completion handler, whose error argument the app ignores.
RunCompletions(d, answers) ==
  LET left == AckWrites(allWrites[d], answers)
  IN /\ allWrites' = [allWrites EXCEPT ![d] = left]
     /\ acked' = [acked EXCEPT ![d] = @ \cup {a.write : a \in {x \in ToSet(answers) : x.ok}}]
     /\ RaiseEvents(d, serverCache[d], left)

\* sendPut's callback.
OnPutAnswer(d) ==
  /\ TakeResponse(d, "putAnswer")
  /\ LET m == Head(responses[d])
         answer == [write |-> m.write, ok |-> m.ok]
     IN /\ puts' = [puts EXCEPT ![d] = {p \in @ : p.write # m.write}]
        /\ IF unacked[d] = 0
             THEN RunCompletions(d, <<answer>>) /\ UNCHANGED putsToAck
             ELSE /\ putsToAck' = [putsToAck EXCEPT ![d] = Append(@, answer)]
                  /\ UNCHANGED <<allWrites, acked, receivedTeam>>
  /\ UNCHANGED <<conn, observers, unacked, serverCache, issued, created, requests,
                 listening, serverVars, drops>>

\* sendListen's callback: a refused listen takes its observers with it; with the last
\* listen answered the completions held back run (ackPuts).
OnListenAnswer(d) ==
  /\ TakeResponse(d, "listenAnswer")
  /\ unacked' = [unacked EXCEPT ![d] = @ - 1]
  /\ IF Head(responses[d]).ok
       THEN UNCHANGED <<observers, serverCache>>
       ELSE /\ observers' = [observers EXCEPT ![d] = 0]
            /\ serverCache' = [serverCache EXCEPT ![d] = NoData]
  /\ IF unacked'[d] = 0
       THEN /\ RunCompletions(d, putsToAck[d])
            /\ putsToAck' = [putsToAck EXCEPT ![d] = <<>>]
       ELSE UNCHANGED <<allWrites, acked, receivedTeam, putsToAck>>
  /\ UNCHANGED <<conn, puts, issued, created, requests, listening, serverVars, drops>>

-----------------------------------------------------------------------------
Server(d) == ServerListens(d) \/ ServerApplies(d) \/ ServerRefuses(d)
Client(d) == OnDataUpdate(d) \/ OnPutAnswer(d) \/ OnListenAnswer(d)

Next ==
  \E d \in Devices :
    \/ \E t \in Teams : CreateTeam(d, t)
    \/ \E t \in Teams : AddPlayerToFirebase(d, t)
    \/ FetchTeams(d)
    \/ OnReady(d)
    \/ OnDisconnect(d)
    \/ Relaunch(d)
    \/ ServerListens(d)
    \/ ServerApplies(d)
    \/ ServerRefuses(d)
    \/ OnDataUpdate(d)
    \/ OnPutAnswer(d)
    \/ OnListenAnswer(d)

\* A reconnection is always scheduled and some attempt succeeds; the server reads what it
\* is sent and the client what it gets.  Nothing makes the user, a refusal or a loss happen.
Fairness ==
  \A d \in Devices :
    /\ WF_vars(OnReady(d))
    /\ WF_vars(Server(d))
    /\ WF_vars(Client(d))

Spec == Init /\ [][Next]_vars /\ Fairness

-----------------------------------------------------------------------------
\* Every variable holds what its declaration says, and the listens not yet answered never
\* outnumber the observers' one listen (sendListen asserts that the count is not negative).
TypeOK ==
  /\ conn \in [Devices -> {"disconnected", "connected"}]
  /\ observers \in [Devices -> 0 .. MaxObservers]
  /\ unacked \in [Devices -> 0 .. 1]
  /\ \A d \in Devices :
       /\ puts[d] \subseteq [write : Writes, sent : BOOLEAN]
       /\ putsToAck[d] \in Seq([write : Writes, ok : BOOLEAN])
       /\ allWrites[d] \subseteq Writes
       /\ acked[d] \subseteq Writes
       /\ serverCache[d] \in Trees \cup {NoData}
  /\ db \in Trees
  /\ receivedTeam \in [Devices -> Teams \cup {NoWrite}]

\* The device's own writes that are on their way: outstanding or with the answer held back.
UnderWay(d) == {p.write : p \in puts[d] \cup ToSet(putsToAck[d])}

\* The number of the newest of its writes on a team's node that is under way or was
\* acknowledged as applied.
Newest(d, t) == Max({0} \cup {w.n : w \in {x \in acked[d] \cup UnderWay(d) : x.team = t}})

IsMine(w, d, n) == w # NoWrite /\ w.dev = d /\ w.n = n

\* Once a device shows the teams it shows, of every team it wrote to, its own newest write
\* or one the server applied after it: never an older one of its own, and never the state
\* from before the write - not while puts are sent again and the server goes through the
\* old writes once more, and not in the gap between an answer and the data (the client's
\* overlay and the held back answers).
ReadYourWrites ==
  \A d \in Devices, t \in Teams :
    (Shown(d) # NoData /\ Newest(d, t) > 0) =>
      \/ IsMine(Shown(d)[t], d, Newest(d, t))
      \/ \E i, j \in DOMAIN applied :
           i < j /\ IsMine(applied[i], d, Newest(d, t)) /\ applied[j] = Shown(d)[t]

\* The server never holds a device's write that is older than one it has acknowledged to
\* that device: sending the outstanding puts again cannot undo what was acknowledged
\* (restoreState sorts them by index).
AckedNotUndone ==
  \A d \in Devices : \A w \in acked[d] :
    (db[w.team] # NoWrite /\ db[w.team].dev = d) => db[w.team].n >= w.n

\* No device ever receives a team, whatever is created: createTeam writes the keys
\* "identifier" and "players" below players, Team.init?(snapshot:) wants "identifier" and
\* "team" at the team's node.
NothingReceived == \A d \in Devices : receivedTeam[d] = NoWrite

\* The devices that show teams come to agree with the server, and so with each other, on
\* which of several additions to a team has survived.
Converges ==
  <>[](\A d \in Devices : Shown(d) # NoData => Shown(d) = db)

\* Every setValue has its completion handler called, refused or not, held back or sent
\* again, unless the app dies first.
EveryWriteAnswered ==
  \A d \in Devices : (allWrites[d] # {}) ~> (allWrites[d] = {})
=============================================================================
