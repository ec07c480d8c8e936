------------------------- MODULE NotificationsProofs -------------------------
(***************************************************************************)
(* Proofs about Notifications, for any clients, processes and tokens.      *)
(***************************************************************************)
EXTENDS Notifications, TLAPS

\* A socket that is closed belongs to no process, and one that is open has
\* answered since the last tick of the heartbeat or has a ping to answer.
SocketOK(r) ==
    /\ r.state = "closed" => r.at = None
    /\ r.state = "open" => r.isAlive \/ r.pinged

NotifyInv ==
    /\ NotifyTypeOK
    /\ \A c \in Client : SocketOK(conn[c])
    /\ ClientsMatchSockets

LEMMA ClosedOK == Closed \in Connection /\ SocketOK(Closed) /\ Closed.at = None /\ Closed.state = "closed"
BY DEF Closed, Connection, SocketOK

LEMMA OpenedOK ==
    ASSUME NEW p \in Api
    PROVE  Opened(p) \in Connection /\ SocketOK(Opened(p)) /\ Opened(p).at = p
BY DEF Opened, Connection, SocketOK

LEMMA NotifyInitInv == NotifyInit => NotifyInv
<1> SUFFICES ASSUME NotifyInit PROVE NotifyInv
  OBVIOUS
<1>1. \A c \in Client : conn[c] = Closed
  BY DEF NotifyInit
<1>2. NotifyTypeOK
  <2>1. phase \in [Process -> Phase] /\ \A p \in Standalone : phase[p] \in {"down", "queues"}
    BY DEF NotifyInit, Phase, Process
  <2>2. conn \in [Client -> Connection]
    BY ClosedOK DEF NotifyInit
  <2>3. stage \in [Token -> Stage] /\ clients \in [Process -> SUBSET Client]
    BY DEF NotifyInit, Stage
  <2> QED
    BY <2>1, <2>2, <2>3 DEF NotifyInit, NotifyTypeOK
<1>3. ClientsMatchSockets
  <2>1. \A p \in Process : clients[p] = {}
    BY DEF NotifyInit
  <2>2. \A c \in Client : conn[c].state # "open"
    BY <1>1, ClosedOK
  <2> QED
    BY <2>1, <2>2 DEF ClientsMatchSockets, At
<1> QED
  BY <1>1, <1>2, <1>3, ClosedOK DEF NotifyInv

------------------------------------------------------------------------------
\* Steps that leave the sockets alone: the progress of tokens and its news.

LEMMA NewsType ==
    ASSUME NotifyInv, NEW p \in Process, NEW t \in Token, NEW key,
           NEW type \in {"lock", "proof_generated", "root_submitted", "unlock"},
           BroadcastEvent(p, type, t, key)
    PROVE  news' \in News
BY DEF BroadcastEvent, News, NotifyInv, NotifyTypeOK

\* Only the processes of Api serve clients and handle events.
LEMMA ListensInApi ==
    ASSUME NotifyInv, NEW p \in Process, phase[p] \in {"serving", "running"}
    PROVE  p \in Api
BY DEF NotifyInv, NotifyTypeOK, Process

LEMMA SocketsKept ==
    ASSUME NotifyInv, UNCHANGED socketVars, NotifyTypeOK'
    PROVE  NotifyInv'
BY DEF NotifyInv, socketVars, ClientsMatchSockets, At

LEMMA BridgeStepInv ==
    ASSUME NotifyInv, NEW p \in Process, NEW t \in Token,
           \/ HandleLockEvent(p, t) \/ GenerateProof(p, t) \/ SubmitBlockRoot(p, t)
           \/ UnlockNFT(p, t) \/ RelayerNews(p, t) \/ HandleUnlockEvent(p, t)
    PROVE  NotifyInv'
<1>1. UNCHANGED <<phase, socketVars>>
  BY DEF HandleLockEvent, GenerateProof, SubmitBlockRoot, UnlockNFT, RelayerNews, HandleUnlockEvent
<1>2. news' \in News \cup {NoNews}
  BY NewsType DEF HandleLockEvent, GenerateProof, SubmitBlockRoot, UnlockNFT, RelayerNews,
     HandleUnlockEvent, NotifyInv, NotifyTypeOK
<1>3. stage' \in [Token -> Stage]
  BY DEF HandleLockEvent, GenerateProof, SubmitBlockRoot, UnlockNFT, RelayerNews,
     HandleUnlockEvent, NotifyInv, NotifyTypeOK, Stage
<1>4. seen' \subseteq Api \X Token
  BY ListensInApi DEF HandleLockEvent, GenerateProof, SubmitBlockRoot, UnlockNFT, RelayerNews,
     HandleUnlockEvent, NotifyInv, NotifyTypeOK, Listens
<1>5. awaiting' \subseteq Process \X Token
  BY DEF HandleLockEvent, GenerateProof, SubmitBlockRoot, UnlockNFT, RelayerNews,
     HandleUnlockEvent, NotifyInv, NotifyTypeOK
<1>6. NotifyTypeOK'
  BY <1>1, <1>2, <1>3, <1>4, <1>5 DEF NotifyInv, NotifyTypeOK, socketVars
<1> QED
  BY <1>1, <1>6, SocketsKept

LEMMA StartInv ==
    ASSUME NotifyInv, NEW p \in Process,
           StartProcess(p) \/ StartWebSocketServer(p) \/ StartAllListeners(p)
    PROVE  NotifyInv'
<1>1. UNCHANGED <<stage, awaiting, news, socketVars>>
  BY DEF StartProcess, StartWebSocketServer, StartAllListeners, bridgeVars
<1>2. phase' \in [Process -> Phase] /\ \A q \in Standalone : phase'[q] \in {"down", "queues"}
  <2>1. phase \in [Process -> Phase] /\ \A q \in Standalone : phase[q] \in {"down", "queues"}
    BY DEF NotifyInv, NotifyTypeOK
  <2>2. CASE StartProcess(p)
    BY <2>1, <2>2 DEF StartProcess, Phase, Process
  <2>3. CASE StartWebSocketServer(p)
    BY <2>1, <2>3, NotificationsAssumption DEF StartWebSocketServer, Phase, Process
  <2>4. CASE StartAllListeners(p)
    <3>1. p \in Api
      BY <2>4, ListensInApi DEF StartAllListeners
    <3> QED
      BY <2>1, <2>4, <3>1, NotificationsAssumption DEF StartAllListeners, Phase, Process
  <2> QED
    BY <2>2, <2>3, <2>4
<1>3. seen' \subseteq Api \X Token
  <2>1. CASE StartAllListeners(p)
    <3>1. p \in Api
      BY <2>1, ListensInApi DEF StartAllListeners
    <3> QED
      BY <2>1, <3>1 DEF StartAllListeners, NotifyInv, NotifyTypeOK
  <2> QED
    BY <2>1 DEF StartProcess, StartWebSocketServer, bridgeVars, NotifyInv, NotifyTypeOK
<1>4. NotifyTypeOK'
  BY <1>1, <1>2, <1>3 DEF NotifyInv, NotifyTypeOK, socketVars
<1> QED
  BY <1>1, <1>4, SocketsKept

------------------------------------------------------------------------------
\* Steps of the sockets.

\* A step that changes connections keeps the invariant if it keeps what it says
\* of each: a client stays in the set of its process while its socket is open.
LEMMA SocketStep ==
    ASSUME NotifyInv, UNCHANGED <<phase, bridgeVars>>,
           conn' \in [Client -> Connection], clients' \in [Process -> SUBSET Client],
           \A c \in Client : SocketOK(conn'[c]),
           \A q \in Process, c \in Client :
              /\ c \in clients'[q] => conn'[c].at = q
              /\ conn'[c].at = q /\ conn'[c].state = "open" => c \in clients'[q]
    PROVE  NotifyInv'
BY DEF NotifyInv, NotifyTypeOK, bridgeVars, ClientsMatchSockets, At

\* What the invariant says of one client.
LEMMA ClientFacts ==
    ASSUME NotifyInv
    PROVE  /\ conn \in [Client -> Connection] /\ clients \in [Process -> SUBSET Client]
           /\ \A c \in Client : SocketOK(conn[c])
           /\ \A q \in Process, c \in Client :
                /\ c \in clients[q] => conn[c].at = q
                /\ conn[c].at = q /\ conn[c].state = "open" => c \in clients[q]
BY DEF NotifyInv, NotifyTypeOK, ClientsMatchSockets, At

\* One connection changes and stays at its process, or is closed.
LEMMA ConnStep ==
    ASSUME NotifyInv, UNCHANGED <<phase, bridgeVars>>, NEW c \in Client, NEW r \in Connection,
           conn' = [conn EXCEPT ![c] = r], SocketOK(r),
           \/ clients' = Forget(c) /\ r.state # "open"
           \/ clients' = clients /\ r.at = conn[c].at /\ (r.state = "open" => conn[c].state = "open")
    PROVE  NotifyInv'
<1>1. conn' \in [Client -> Connection] /\ clients' \in [Process -> SUBSET Client]
  BY ClientFacts DEF Forget
<1>2. \A d \in Client : conn'[d] = IF d = c THEN r ELSE conn[d]
  BY ClientFacts
<1>3. \A q \in Process : clients'[q] \subseteq clients[q] /\ clients[q] \ {c} \subseteq clients'[q]
  BY DEF Forget
<1>4. CASE clients' = Forget(c) /\ r.state # "open"
  <2>1. \A q \in Process : clients'[q] = clients[q] \ {c}
    BY <1>4 DEF Forget
  <2> QED
    BY <1>1, <1>2, <1>4, <2>1, ClientFacts, SocketStep
<1>5. CASE clients' = clients /\ r.at = conn[c].at /\ (r.state = "open" => conn[c].state = "open")
  BY <1>1, <1>2, <1>5, ClientFacts, SocketStep
<1> QED
  BY <1>4, <1>5

LEMMA ConnectInv ==
    ASSUME NotifyInv, NEW c \in Client, NEW p \in Api, Connect(c, p)
    PROVE  NotifyInv'
<1>1. p \in Process /\ p # None
  BY NotificationsAssumption DEF Process
<1>2. conn[c].at = None
  BY ClientFacts DEF SocketOK, Connect
<1>3. /\ conn' \in [Client -> Connection]
      /\ \A d \in Client : conn'[d] = IF d = c THEN Opened(p) ELSE conn[d]
  BY ClientFacts, OpenedOK DEF Connect
<1>4. /\ clients' \in [Process -> SUBSET Client]
      /\ \A q \in Process : clients'[q] = IF q = p THEN clients[q] \cup {c} ELSE clients[q]
  BY <1>1, ClientFacts DEF Connect
<1>5. \A q \in Process : c \notin clients[q]
  BY <1>2, ClientFacts, NotificationsAssumption DEF Process
<1> QED
  BY <1>1, <1>3, <1>4, <1>5, ClientFacts, OpenedOK, SocketStep DEF Connect

\* One field of a connection.
LEMMA LinkField ==
    ASSUME NEW r \in Connection, NEW link \in BOOLEAN
    PROVE  /\ [r EXCEPT !.link = link] \in Connection
           /\ [r EXCEPT !.link = link].state = r.state /\ [r EXCEPT !.link = link].at = r.at
           /\ SocketOK(r) => SocketOK([r EXCEPT !.link = link])
BY DEF Connection, SocketOK

LEMMA StateField ==
    ASSUME NEW r \in Connection, NEW state \in {"open", "closing", "closed"}
    PROVE  /\ [r EXCEPT !.state = state] \in Connection
           /\ [r EXCEPT !.state = state].state = state /\ [r EXCEPT !.state = state].at = r.at
BY DEF Connection

LEMMA KeysField ==
    ASSUME NEW r \in Connection, NEW keys \in SUBSET Key
    PROVE  /\ [r EXCEPT !.keys = keys] \in Connection
           /\ [r EXCEPT !.keys = keys].state = r.state /\ [r EXCEPT !.keys = keys].at = r.at
           /\ SocketOK(r) => SocketOK([r EXCEPT !.keys = keys])
BY DEF Connection, SocketOK

\* A connection whose state, link or filter changes.
LEMMA ClientStepInv ==
    ASSUME NotifyInv, NEW c \in Client,
           \/ LoseLink(c) \/ StartClose(c) \/ Close(c) \/ Error(c) \/ Pong(c)
           \/ \E key \in Key \cup {NoKey} : Subscribe(c, key) \/ Unsubscribe(c, key)
    PROVE  NotifyInv'
<1> DEFINE r == conn[c]
<1>0. r \in Connection /\ SocketOK(r)
  BY ClientFacts
<1>1. CASE LoseLink(c)
  <2> DEFINE q == [r EXCEPT !.link = FALSE]
  <2>1. conn' = [conn EXCEPT ![c] = q]
    BY <1>1 DEF LoseLink
  <2>2. q \in Connection /\ q.state = r.state /\ q.at = r.at /\ SocketOK(q)
    BY <1>0, LinkField
  <2> HIDE DEF q
  <2> QED
    BY <1>1, <2>1, <2>2, ConnStep DEF LoseLink
<1>2. CASE StartClose(c) \/ Error(c)
  <2> DEFINE q == [r EXCEPT !.state = "closing"]
  <2>1. conn' = [conn EXCEPT ![c] = q]
    BY <1>2 DEF StartClose, Error
  <2>2. q \in Connection /\ q.state = "closing" /\ q.at = r.at /\ SocketOK(q)
    BY <1>0, StateField DEF SocketOK
  <2> HIDE DEF q
  <2> QED
    BY <1>2, <2>1, <2>2, ConnStep DEF StartClose, Error
<1>3. CASE Close(c)
  BY <1>3, ClosedOK, ConnStep DEF Close
<1>4. CASE Pong(c)
  <2> DEFINE u == [r EXCEPT !.pinged = FALSE]
             q == [u EXCEPT !.isAlive = TRUE]
  <2>1. conn' = [conn EXCEPT ![c] = q]
    BY <1>4, ClientFacts DEF Pong
  <2>2. u \in Connection /\ u.state = r.state /\ u.at = r.at
    BY <1>0 DEF Connection
  <2> HIDE DEF u
  <2>3. q \in Connection /\ q.state = u.state /\ q.at = u.at /\ q.isAlive = TRUE
    BY <2>2 DEF Connection
  <2> HIDE DEF q
  <2>4. SocketOK(q)
    BY <1>0, <2>2, <2>3 DEF SocketOK
  <2> QED
    BY <1>4, <2>1, <2>2, <2>3, <2>4, ConnStep DEF Pong
<1>5. ASSUME NEW key \in Key \cup {NoKey}, Subscribe(c, key) \/ Unsubscribe(c, key)
      PROVE  NotifyInv'
  <2>1. PICK keys \in SUBSET Key : conn' = [conn EXCEPT ![c] = [r EXCEPT !.keys = keys]]
    <3>1. r.keys \in {None} \cup SUBSET Key
      BY <1>0 DEF Connection
    <3>2. CASE Subscribe(c, key)
      <4> DEFINE old == IF r.keys = None THEN {} ELSE r.keys
                 new == IF Given(key) THEN old \cup {key} ELSE old
      <4>1. old \in SUBSET Key /\ new \in SUBSET Key
        BY <3>1 DEF Given
      <4>2. conn' = [conn EXCEPT ![c] = [r EXCEPT !.keys = new]]
        BY <3>2 DEF Subscribe
      <4> QED
        BY <4>1, <4>2
    <3>3. CASE Unsubscribe(c, key)
      <4>1. r.keys \ {key} \in SUBSET Key
        BY <3>1, <3>3 DEF Unsubscribe
      <4>2. conn' = [conn EXCEPT ![c] = [r EXCEPT !.keys = r.keys \ {key}]]
        BY <3>3, ClientFacts DEF Unsubscribe
      <4> QED
        BY <4>1, <4>2
    <3> QED
      BY <1>5, <3>2, <3>3
  <2> DEFINE q == [r EXCEPT !.keys = keys]
  <2>2. q \in Connection /\ q.state = r.state /\ q.at = r.at /\ SocketOK(q)
    <3> HIDE DEF r
    <3> QED
      BY <1>0, KeysField
  <2> HIDE DEF q
  <2> QED
    BY <1>5, <2>1, <2>2, ConnStep DEF Subscribe, Unsubscribe, q
<1> QED
  BY <1>1, <1>2, <1>3, <1>4, <1>5

\* A beat keeps a connection or ends it, and ends none that has answered.
LEMMA BeatOK ==
    ASSUME NEW r \in Connection, SocketOK(r)
    PROVE  /\ Beat(r) \in Connection /\ SocketOK(Beat(r)) /\ Beat(r).at = r.at
           /\ Beat(r).state = IF r.isAlive THEN r.state ELSE "closing"
<1>1. CASE r.isAlive
  <2> DEFINE u == [r EXCEPT !.isAlive = FALSE]
             q == [u EXCEPT !.pinged = TRUE]
  <2>1. Beat(r) = q
    BY <1>1 DEF Beat
  <2>2. u \in Connection /\ u.state = r.state /\ u.at = r.at
    BY DEF Connection
  <2> HIDE DEF u
  <2>3. q \in Connection /\ q.state = u.state /\ q.at = u.at /\ q.pinged = TRUE
    BY <2>2 DEF Connection
  <2> HIDE DEF q
  <2> QED
    BY <1>1, <2>1, <2>2, <2>3 DEF SocketOK
<1>2. CASE ~r.isAlive
  <2> DEFINE q == [r EXCEPT !.state = "closing"]
  <2>1. Beat(r) = q
    BY <1>2 DEF Beat
  <2>2. q \in Connection /\ q.state = "closing" /\ q.at = r.at
    BY StateField
  <2> HIDE DEF q
  <2> QED
    BY <1>2, <2>1, <2>2 DEF SocketOK
<1> QED
  BY <1>1, <1>2

LEMMA HeartbeatInv ==
    ASSUME NotifyInv, NEW p \in Process, Heartbeat(p)
    PROVE  NotifyInv'
<1>1. \A c \in Client : Beat(conn[c]) \in Connection /\ SocketOK(Beat(conn[c]))
                        /\ Beat(conn[c]).at = conn[c].at
                        /\ Beat(conn[c]).state = IF conn[c].isAlive THEN conn[c].state ELSE "closing"
  BY ClientFacts, BeatOK
<1>2. \A c \in Client : conn'[c] = IF conn[c].at = p THEN Beat(conn[c]) ELSE conn[c]
  BY DEF Heartbeat, At
<1>3. conn' \in [Client -> Connection]
  BY <1>1, ClientFacts DEF Heartbeat
<1>4. \A q \in Process : clients'[q] = IF q = p THEN {c \in clients[q] : conn[c].isAlive} ELSE clients[q]
  BY ClientFacts DEF Heartbeat
<1>5. clients' \in [Process -> SUBSET Client]
  BY ClientFacts DEF Heartbeat
<1>6. \A c \in Client : SocketOK(conn'[c]) /\ conn'[c].at = conn[c].at
  BY <1>1, <1>2, ClientFacts
<1>7. \A q \in Process, c \in Client :
        conn[c].at = q /\ conn'[c].state = "open" => c \in clients'[q]
  BY <1>1, <1>2, <1>4, ClientFacts
<1> QED
  BY <1>3, <1>4, <1>5, <1>6, <1>7, ClientFacts, SocketStep DEF Heartbeat

\* A process that exits takes its sockets and what it waited for with it.
LEMMA ExitInv ==
    ASSUME NotifyInv, NEW p \in Process, Exit(p)
    PROVE  NotifyInv'
<1>1. \A c \in Client : conn'[c] = IF conn[c].at = p THEN Closed ELSE conn[c]
  BY DEF Exit, At
<1>2. conn' \in [Client -> Connection]
  BY ClosedOK, ClientFacts DEF Exit
<1>3. clients' \in [Process -> SUBSET Client]
      /\ \A q \in Process : clients'[q] = IF q = p THEN {} ELSE clients[q]
  BY ClientFacts DEF Exit
<1>4. \A c \in Client : SocketOK(conn'[c])
  BY <1>1, ClosedOK, ClientFacts
<1>5. ClientsMatchSockets'
  <2> SUFFICES ASSUME NEW q \in Process, NEW c \in Client
               PROVE  /\ c \in clients'[q] => conn'[c].at = q
                      /\ conn'[c].at = q /\ conn'[c].state = "open" => c \in clients'[q]
    BY <1>3 DEF ClientsMatchSockets, At
  <2> QED
    BY <1>1, <1>3, ClosedOK, ClientFacts
<1>6. phase' \in [Process -> Phase] /\ \A q \in Standalone : phase'[q] \in {"down", "queues"}
  BY DEF Exit, NotifyInv, NotifyTypeOK, Phase, Process
<1>7. NotifyTypeOK'
  BY <1>2, <1>3, <1>6 DEF Exit, NotifyInv, NotifyTypeOK
<1> QED
  BY <1>4, <1>5, <1>7 DEF NotifyInv

------------------------------------------------------------------------------
LEMMA NotifyStepInv == NotifyInv /\ [NotifyNext]_notifyVars => NotifyInv'
<1> SUFFICES ASSUME NotifyInv, [NotifyNext]_notifyVars PROVE NotifyInv'
  OBVIOUS
<1>1. ASSUME NEW p \in Process, ProcessStep(p) PROVE NotifyInv'
  BY <1>1, StartInv, ExitInv, HeartbeatInv, BridgeStepInv DEF ProcessStep
<1>2. ASSUME NEW c \in Client, ClientStep(c) PROVE NotifyInv'
  BY <1>2, ConnectInv, ClientStepInv DEF ClientStep
<1>3. CASE UNCHANGED notifyVars
  BY <1>3 DEF notifyVars, NotifyInv, NotifyTypeOK, ClientsMatchSockets, At
<1> QED
  BY <1>1, <1>2, <1>3 DEF NotifyNext

\* The invariant holds in every behaviour of the cluster's notifications.
THEOREM NotifyInvariant == NotifySpec => []NotifyInv
BY NotifyInitInv, NotifyStepInv, PTL DEF NotifySpec

\* Every variable of the cluster's notifications keeps its type, through
\* exits, restarts and connections that end in any of the three ways.
THEOREM NotificationsTyped == NotifySpec => []NotifyTypeOK
<1>1. NotifyInv => NotifyTypeOK
  BY DEF NotifyInv
<1> QED
  BY <1>1, NotifyInvariant, PTL

\* A process's set of clients holds every socket of it that is open, and none
\* of another process: whichever of close, error, heartbeat and exit comes
\* first, and in whatever order they come.
THEOREM NoClientLostOrKept == NotifySpec => []ClientsMatchSockets
<1>1. NotifyInv => ClientsMatchSockets
  BY DEF NotifyInv
<1> QED
  BY <1>1, NotifyInvariant, PTL

\* The heartbeat never ends the connection of a client that has answered the
\* last ping: an open connection that owes no answer is alive.
THEOREM HeartbeatSparesAnswering == NotifySpec => AnsweringClientStays
<1>1. NotifyInv /\ [NotifyNext]_notifyVars =>
        \A p \in Api : Heartbeat(p) =>
          \A c \in At(p) : (Reaches(c) /\ ~conn[c].pinged) => conn'[c].state = "open"
  <2> SUFFICES ASSUME NotifyInv, NEW p \in Api, Heartbeat(p), NEW c \in At(p),
                      Reaches(c), ~conn[c].pinged
               PROVE  conn'[c].state = "open"
    OBVIOUS
  <2>1. c \in Client /\ conn'[c] = Beat(conn[c])
    BY DEF Heartbeat, At
  <2>2. conn[c] \in Connection /\ SocketOK(conn[c]) /\ conn[c].state = "open"
    BY <2>1, ClientFacts DEF Reaches
  <2>3. conn[c].isAlive
    BY <2>2 DEF SocketOK
  <2> QED
    BY <2>1, <2>2, <2>3, BeatOK
<1> QED
  BY <1>1, NotifyInvariant, PTL DEF NotifySpec, AnsweringClientStays
==============================================================================
