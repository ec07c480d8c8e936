---------------------------- MODULE Notifications ----------------------------
(***************************************************************************)
(* services/websocket.js: the clients of every process of the cluster, the *)
(* heartbeat, the subscriptions, and broadcastEvent with each of its       *)
(* callers.  A broadcast reaches only the clients connected to the process *)
(* that makes it, so what a client hears depends on which process handles  *)
(* an event or runs a job.  Processes die and are started again; a         *)
(* client's link may die without the socket being closed.                  *)
(*                                                                         *)
(* Definitions called Slip... are wrong on purpose and used by nothing:    *)
(* see BridgeTypes.                                                        *)
(*                                                                         *)
(* The progress of a token over the bridge is modelled only as far as it   *)
(* decides who broadcasts what: EventListener and RootRelay have the rest. *)
(***************************************************************************)
EXTENDS Integers, FiniteSets

CONSTANTS
    Token,       \* token ids
    Client,
    Api,         \* processes that run index.js
    Standalone,  \* processes that run relayer-entry.js
    MaxKeys,     \* bound: token ids a client is subscribed to at once
    None         \* no process, no subscribedTokens

ASSUME NotificationsAssumption ==
    /\ Token \subseteq Nat
    /\ Api \cap Standalone = {}
    /\ None \notin Api \cup Standalone
    /\ MaxKeys \in Nat

VARIABLES
    phase,     \* of every process, see below
    stage,     \* how far each token has come
    seen,      \* <<p, t>>: the listener of p is past the unlock of t
    awaiting,  \* <<p, t>>: the relayer of p unlocked t, its broadcast is to come
    conn,      \* the connection of every client, as its server sees it
    clients,   \* the set clients of every process
    news       \* the last broadcast

notifyVars == <<phase, stage, seen, awaiting, conn, clients, news>>
bridgeVars == <<stage, seen, awaiting, news>>
socketVars == <<conn, clients>>

Process == Api \cup Standalone
\* queues: the queue processors run, which importing queue/index.js starts;
\* serving: so does the WebSocket server, and the listeners are catching up.
Phase == {"down", "queues", "serving", "running"}
Stage == {"none", "locked", "proven", "submitted", "unlocked"}

\* A tokenId is a string or a number, and a Set tells them apart.  The number
\* 0 is false where a tokenId is tested.
Key == Token \X {"string", "number"}
NoKey == <<>>
AsString(t) == <<t, "string">>
AsNumber(t) == <<t, "number">>
Given(key) == key \notin {NoKey, AsNumber(0)}

\* link: the peer can be reached; pinged: it has a ping to answer.
Connection == [state : {"open", "closing", "closed"}, at : Api \cup {None},
               link : BOOLEAN, isAlive : BOOLEAN, pinged : BOOLEAN,
               keys : {None} \cup SUBSET Key]
Closed == [state |-> "closed", at |-> None, link |-> FALSE, isAlive |-> FALSE,
           pinged |-> FALSE, keys |-> None]
SlipOpened(p) == [state |-> "open", at |-> p, link |-> TRUE, isAlive |-> None,
                  pinged |-> FALSE, keys |-> None]
Opened(p) == [state |-> "open", at |-> p, link |-> TRUE, isAlive |-> TRUE,
              pinged |-> FALSE, keys |-> None]

News == [by : Process, type : {"lock", "proof_generated", "root_submitted", "unlock"},
         token : Token, to : SUBSET Client]
NoNews == [by |-> None, type |-> "none", token |-> None, to |-> {}]

NotifyTypeOK ==
    /\ phase \in [Process -> Phase]
    /\ \A p \in Standalone : phase[p] \in {"down", "queues"}
    /\ stage \in [Token -> Stage]
    /\ seen \subseteq Api \X Token
    /\ awaiting \subseteq Process \X Token
    /\ conn \in [Client -> Connection]
    /\ clients \in [Process -> SUBSET Client]
    /\ news \in News \cup {NoNews}

NotifyInit ==
    /\ phase = [p \in Process |-> "down"]
    /\ stage = [t \in Token |-> "none"]
    /\ seen = {}
    /\ awaiting = {}
    /\ conn = [c \in Client |-> Closed]
    /\ clients = [p \in Process |-> {}]
    /\ news = NoNews

------------------------------------------------------------------------------
\* The processes.

Listens(p) == phase[p] \in {"serving", "running"}
At(p) == {c \in Client : conn[c].at = p}

\* A process is started: its queue processors run at once.
StartProcess(p) ==
    /\ phase[p] = "down"
    /\ phase' = [phase EXCEPT ![p] = "queues"]
    /\ UNCHANGED <<bridgeVars, socketVars>>

StartWebSocketServer(p) ==
    /\ p \in Api
    /\ phase[p] = "queues"
    /\ phase' = [phase EXCEPT ![p] = "serving"]
    /\ UNCHANGED <<bridgeVars, socketVars>>

\* The listeners start at the block of the newest lock row, and may give up
\* the catch-up: some unlocks are behind them without having been handled.
StartAllListeners(p) ==
    /\ phase[p] = "serving"
    /\ phase' = [phase EXCEPT ![p] = "running"]
    /\ \E skipped \in SUBSET {t \in Token : stage[t] = "unlocked"} :
          seen' = seen \cup ({p} \X skipped)
    /\ UNCHANGED <<stage, awaiting, news, socketVars>>

\* SIGTERM exits at once, as a crash does; the sockets go with the process.
Exit(p) ==
    /\ phase[p] # "down"
    /\ phase' = [phase EXCEPT ![p] = "down"]
    /\ seen' = {s \in seen : s[1] # p}
    /\ awaiting' = {s \in awaiting : s[1] # p}
    /\ conn' = [c \in Client |-> IF c \in At(p) THEN Closed ELSE conn[c]]
    /\ clients' = [clients EXCEPT ![p] = {}]
    /\ UNCHANGED <<stage, news>>

------------------------------------------------------------------------------
\* The WebSocket server.

Connect(c, p) ==
    /\ conn[c].state = "closed"
    /\ Listens(p)
    /\ conn' = [conn EXCEPT ![c] = Opened(p)]
    /\ clients' = [clients EXCEPT ![p] = @ \cup {c}]
    /\ UNCHANGED <<phase, bridgeVars>>

Reaches(c) == conn[c].state = "open" /\ conn[c].link

\* The peer vanishes without closing its socket.
LoseLink(c) ==
    /\ Reaches(c)
    /\ conn' = [conn EXCEPT ![c].link = FALSE]
    /\ UNCHANGED <<phase, bridgeVars, clients>>

\* The peer starts to close.
StartClose(c) ==
    /\ Reaches(c)
    /\ conn' = [conn EXCEPT ![c].state = "closing"]
    /\ UNCHANGED <<phase, bridgeVars, clients>>

Forget(c) == [p \in Process |-> clients[p] \ {c}]

SlipClose(c) ==
    /\ conn[c].state = "closing"
    /\ conn' = [conn EXCEPT ![c] = Closed]
    /\ UNCHANGED <<phase, bridgeVars, clients>>
\* The 'close' event.
Close(c) ==
    /\ conn[c].state = "closing"
    /\ conn' = [conn EXCEPT ![c] = Closed]
    /\ clients' = Forget(c)
    /\ UNCHANGED <<phase, bridgeVars>>

\* The 'error' event; the server closes the connection.
Error(c) ==
    /\ conn[c].state # "closed"
    /\ conn' = [conn EXCEPT ![c].state = "closing"]
    /\ clients' = Forget(c)
    /\ UNCHANGED <<phase, bridgeVars>>

SlipBeat(r) ==
    IF r.isAlive THEN [r EXCEPT !.pinged = TRUE] ELSE [r EXCEPT !.state = "closing"]
\* One connection at a tick of the heartbeat: terminated, or pinged.
Beat(r) ==
    IF r.isAlive THEN [r EXCEPT !.isAlive = FALSE, !.pinged = TRUE]
                 ELSE [r EXCEPT !.state = "closing"]

Heartbeat(p) ==
    /\ At(p) # {}
    /\ conn' = [c \in Client |-> IF c \in At(p) THEN Beat(conn[c]) ELSE conn[c]]
    /\ clients' = [clients EXCEPT ![p] = {c \in @ : conn[c].isAlive}]
    /\ UNCHANGED <<phase, bridgeVars>>

SlipPong(c) ==
    /\ Reaches(c)
    /\ conn[c].pinged
    /\ conn' = [conn EXCEPT ![c].pinged = FALSE]
    /\ UNCHANGED <<phase, bridgeVars, clients>>
Pong(c) ==
    /\ Reaches(c)
    /\ conn[c].pinged
    /\ conn' = [conn EXCEPT ![c].pinged = FALSE, ![c].isAlive = TRUE]
    /\ UNCHANGED <<phase, bridgeVars, clients>>

\* handleClientMessage.  A subscription without a tokenId makes an empty set.
Subscribe(c, key) ==
    /\ Reaches(c)
    /\ LET old == IF conn[c].keys = None THEN {} ELSE conn[c].keys
           new == IF Given(key) THEN old \cup {key} ELSE old
       IN  /\ Cardinality(new) <= MaxKeys
           /\ conn' = [conn EXCEPT ![c].keys = new]
    /\ UNCHANGED <<phase, bridgeVars, clients>>

Unsubscribe(c, key) ==
    /\ Reaches(c)
    /\ conn[c].keys # None
    /\ Given(key)
    /\ conn' = [conn EXCEPT ![c].keys = @ \ {key}]
    /\ UNCHANGED <<phase, bridgeVars, clients>>

------------------------------------------------------------------------------
\* broadcastEvent and its callers.

Skips(c, key) == Given(key) /\ conn[c].keys # None /\ key \notin conn[c].keys

BroadcastEvent(p, type, t, key) ==
    news' = [by |-> p, type |-> type, token |-> t,
             to |-> {c \in clients[p] : conn[c].state = "open" /\ ~Skips(c, key)}]

\* Only the process that creates the row of a lock goes on to broadcast it.
HandleLockEvent(p, t) ==
    /\ Listens(p)
    /\ stage[t] = "none"
    /\ stage' = [stage EXCEPT ![t] = "locked"]
    /\ BroadcastEvent(p, "lock", t, AsString(t))
    /\ UNCHANGED <<phase, seen, awaiting, socketVars>>

\* A job may run a second time.  Rows hold the token id as an INTEGER.
GenerateProof(p, t) ==
    /\ phase[p] # "down"
    /\ stage[t] # "none"
    /\ stage' = [stage EXCEPT ![t] = IF @ = "locked" THEN "proven" ELSE @]
    /\ BroadcastEvent(p, "proof_generated", t, AsNumber(t))
    /\ UNCHANGED <<phase, seen, awaiting, socketVars>>

SubmitBlockRoot(p, t) ==
    /\ phase[p] # "down"
    /\ stage[t] = "proven"
    /\ stage' = [stage EXCEPT ![t] = "submitted"]
    /\ BroadcastEvent(p, "root_submitted", t, NoKey)
    /\ UNCHANGED <<phase, seen, awaiting, socketVars>>

\* The destination chain unlocks the token, by a transaction of the relayer
\* of p, whose receipt is awaited, or by anyone's.
UnlockNFT(p, t) ==
    /\ phase[p] # "down"
    /\ stage[t] = "submitted"
    /\ stage' = [stage EXCEPT ![t] = "unlocked"]
    /\ awaiting' \in {awaiting, awaiting \cup {<<p, t>>}}
    /\ UNCHANGED <<phase, seen, news, socketVars>>

RelayerNews(p, t) ==
    /\ <<p, t>> \in awaiting
    /\ awaiting' = awaiting \ {<<p, t>>}
    /\ BroadcastEvent(p, "unlock", t, AsNumber(t))
    /\ UNCHANGED <<phase, stage, seen, socketVars>>

SlipHandleUnlockEvent(p, t) ==
    /\ Listens(p)
    /\ stage[t] = "unlocked"
    /\ seen' = seen \cup {<<p, t>>}
    /\ IF \E s \in seen : s[2] = t
       THEN UNCHANGED news
       ELSE BroadcastEvent(p, "unlock", t, AsString(t))
    /\ UNCHANGED <<phase, stage, awaiting, socketVars>>
\* Every process handles every unlock, and overlapping polls do so again.
HandleUnlockEvent(p, t) ==
    /\ Listens(p)
    /\ stage[t] = "unlocked"
    /\ seen' = seen \cup {<<p, t>>}
    /\ BroadcastEvent(p, "unlock", t, AsString(t))
    /\ UNCHANGED <<phase, stage, awaiting, socketVars>>

------------------------------------------------------------------------------
ProcessStep(p) ==
    \/ StartProcess(p) \/ StartWebSocketServer(p) \/ StartAllListeners(p)
    \/ Exit(p) \/ Heartbeat(p)
    \/ \E t \in Token :
          \/ HandleLockEvent(p, t) \/ GenerateProof(p, t) \/ SubmitBlockRoot(p, t)
          \/ UnlockNFT(p, t) \/ RelayerNews(p, t) \/ HandleUnlockEvent(p, t)

ClientStep(c) ==
    \/ \E p \in Api : Connect(c, p)
    \/ LoseLink(c) \/ StartClose(c) \/ Close(c) \/ Error(c) \/ Pong(c)
    \/ \E key \in Key \cup {NoKey} : Subscribe(c, key) \/ Unsubscribe(c, key)

NotifyNext == (\E p \in Process : ProcessStep(p)) \/ (\E c \in Client : ClientStep(c))

NotifySpec == NotifyInit /\ [][NotifyNext]_notifyVars

\* The heartbeat's timer fires, and a listener that runs handles each unlock.
NotifyFairness ==
    \A p \in Api :
        /\ WF_notifyVars(Heartbeat(p))
        /\ \A t \in Token : WF_notifyVars(<<p, t>> \notin seen /\ HandleUnlockEvent(p, t))

FairNotifySpec == NotifySpec /\ NotifyFairness

------------------------------------------------------------------------------
\* Properties.

\* clients holds exactly the open sockets of its process, and besides them at
\* most sockets whose close event is to come: whichever of close, error and
\* heartbeat ends a connection, no dead client stays and no live one is lost.
ClientsMatchSockets ==
    \A p \in Process :
        /\ clients[p] \subseteq At(p)
        /\ \A c \in At(p) : conn[c].state = "open" => c \in clients[p]

\* A client that vanished without closing is dropped by the heartbeat.
SilentClientLeaves ==
    \A c \in Client :
        (conn[c].state = "open" /\ ~conn[c].link) ~> conn[c].state # "open"

\* The heartbeat never ends the connection of a client that has answered.
AnsweringClientStays ==
    [][\A p \in Api : Heartbeat(p) =>
          \A c \in At(p) : (Reaches(c) /\ ~conn[c].pinged) => conn'[c].state = "open"
      ]_notifyVars

\* A client watches t at p: no filter, or one that holds t as a string.
Watches(c, p, t) ==
    /\ Reaches(c)
    /\ conn[c].at = p
    /\ conn[c].keys = None \/ AsString(t) \in conn[c].keys

\* Whichever process unlocked a token, the clients of every running process
\* whose listener has not passed the unlock hear of it.
UnlockNewsArrives ==
    \A c \in Client, p \in Api, t \in Token :
        (Watches(c, p, t) /\ phase[p] = "running" /\ stage[t] = "unlocked"
                          /\ <<p, t>> \notin seen)
            ~> \/ news.type = "unlock" /\ news.token = t /\ c \in news.to
               \/ ~Watches(c, p, t)

\* A client subscribed to a token receives what its process broadcasts about
\* it ("Subscribe to specific token updates").
SubscriberHearsToken ==
    [][news' # news =>
          \A c \in clients[news'.by], kind \in {"string", "number"} :
              (Reaches(c) /\ conn[c].keys # None /\ <<news'.token, kind>> \in conn[c].keys)
                  => c \in news'.to
      ]_notifyVars
==============================================================================
