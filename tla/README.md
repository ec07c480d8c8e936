# A TLA+ development of the Bad Bunnz bridge

The bridge moves the NFTs of one collection between Ethereum and MegaETH: lock
on one chain, prove the lock with a Merkle root on the other, mint or release
there. This directory models its contracts and its backend, checks them with
TLC and proves the safety of every part of it with TLAPS.

    tlc -config MCContracts.cfg MCContracts.tla    # model-check a run
    tlapm EthereumBridgeProofs.tla                 # check proofs

`PROJECT.json` lists the runs, the source lines behind every definition, the
hazards with the properties that cover them, the findings and the theorems.

## The system and its parts

| part | state it keeps | operations | correct when |
|---|---|---|---|
| `contract/EthereumBridge.sol` | lockedTokens, processedLocks, megaEthBlockRoots, blockRootConsumed, lockData, paused, rootSubmitter | lockNFT, batchLockNFT, setMegaEthBlockRoot, clearMegaEthBlockRoot, unlockNFTWithProof, batchUnlockNFTWithProof, pause, unpause, setRootSubmitter | a locked token is in custody and leaves it only against a proven, unspent lock; evidence once used is never changed |
| `contract/MegaEthBridge.sol` | the same plus activeOnMegaETH | the same in the other direction; a first arrival mints | the same; only what came over the bridge goes back |
| `contract/Bad_Bunnz.sol` | owners, balances, enumeration, mintedSupply, bridgeAddress | transfer, bridgeMint, bridgeBurn, airdrop, setBridgeAddress | ownership and enumeration agree, mintedSupply counts what airdrops mint, airdrops not nested stay within the cap |
| `services/eventListener.js` | lastProcessedBlock (memory only), lock_events and unlock_events rows, proof jobs | start, catchUp, a poll per timer tick, processBatch, the two handlers | no block is skipped, no event is processed twice, every lock gets a job |
| `services/proofGenerator.js` | `processing` set, merkle_proofs, block_roots | generateProofForBlock, getProof | a root covers its block and every lock has a proof for it |
| `services/relayer.js` | nothing but rows | monitorLoop, submitBlockRoot, processUnlocksForBlock, unlockNFT | every root is submitted once and every lock is unlocked |
| `queue/index.js` | Bull jobs in Redis | run generate-proof (3 attempts) and submit-root (5) jobs | a job is run until it succeeds or its attempts are used up |
| `db/index.js`, `db/schema.sql` | PostgreSQL tables | single statements with unique and foreign keys | rows are never ahead of the chain |
| `index.js`, `ecosystem.config.cjs` | processes | two cluster processes, restarted when they die | work interrupted by a crash is taken up again |
| `services/websocket.js` | per process: `clients`, isAlive and subscribedTokens of each | connection, close, error, pong, heartbeat, subscribe, unsubscribe, broadcastEvent | the client set follows the sockets, the silent are dropped and nobody else, news of a token reaches who asked for it |
| routes, alerts, logger, config, scripts | none that matters to the bridge | read, report | not modelled |

A lock on chain A emits NFTLocked. A's listener polls, writes a lock_events row
and adds a proof job. A prover reads the rows of the block, stores a proof per
lock and a block_roots row, and adds a root job. A sender (the queue worker or the
monitor loop) submits root and lock data to the bridge of chain B, waits,
marks rows, and sends an unlock for each lock of the block. B's listener sees
NFTUnlocked and marks the row. Each of these steps is broadcast to the WebSocket
clients of the process that takes it, and of no other. Nothing but the database, Redis and the two
chains connects these steps, and each of them may be run twice, late, or by
several workers.

What is hard: polls that overlap because setInterval does not wait; a position
kept in memory only; rows and jobs written in two steps; several submitters of one
root; statuses overwritten late; retries that stop at the first sign that
something was done; consumed roots that nothing may replace; lock hashes without
a nonce; receivers called in the middle of an airdrop; clients that vanish without
a word, and news that only one process of the cluster has. `hazards` in PROJECT.json lists each at its line.

## Modules

| module | models | main correspondence |
|---|---|---|
| `BridgeTypes` | data of both contracts | a lock hash is the tuple that is hashed, a leaf the record of its fields, a root the set of its leaves, `{}` is bytes32(0), the mapping lockData a set of records keyed by hash |
| `EthereumBridge` | EthereumBridge.sol and its collection | one action per successful transaction; a failed require is a disabled action |
| `MegaEthBridge` | MegaEthBridge.sol with Bad_Bunnz ownership and mint | the same |
| `BunnzCollection` | Bad_Bunnz.sol whole | one action per transaction, but one per token of an airdrop and one for its return; a mapping is a function on the keys that hold something |
| `Bridge` | both contracts and the submitter between them | each contract is handed the locks made in closed blocks of the other |
| `TokenCustody` | abstract specification | where each token is and to whom it travels |
| `EventListener` | eventListener.js for one chain in every process, with the statements of db/index.js it runs | one action per await-delimited piece; `worker[w]` is an asynchronous call of processBatch, of process `Home(w)`, with the batches it has left |
| `RootRelay` | queues, proofGenerator.js, relayer.js for one direction, against the destination contract | `prover[w]` and `sender[s]` hold the local variables of a running call, one action per await |
| `Notifications` | websocket.js and the five callers of broadcastEvent, in every process | `conn[c]` is the ws of a client as its server holds it, `clients[p]` the set of the same name, `news` the last broadcast with whom it was sent to |
| `BridgeLemmas`, `EthereumBridgeProofs`, `MegaEthBridgeProofs`, `BridgeProofs`, `CollectionProofs`, `EventListenerProofs`, `RootRelayProofs`, `NotificationsProofs` | proofs | |
| `MC...` | values for TLC | |

A call to the chain or the database is one step; between two of them any other
worker may run. Logging, metrics, failed_transactions and bridge history are left
out: nothing reads them back into a decision. For the same reason broadcasts are
in `Notifications` only. `Slip...`
operators are wrong on purpose and used by nothing. Each stands before the
definition it perverts in the way a plausible edit of that code would (a guard
dropped, a key not deleted, an off-by-one), and the `mutants` of PROJECT.json say
which property tells the two apart.

### The contracts

`EthSpec` and `MegaSpec` check each contract against a submitter that may pass
any record of `EthSubmittable`/`MegaSubmittable`, true or not, and may give the
root other locks than it records: what they promise does not depend on the
backend. The sets used by TLC hold two conflicting records under one hash, a
record of the same token in a second block, and one whose hash collides with a
lock made on the chain itself. In `Bridge` the submitter is honest about which
locks happened and waits for the block to close, but may still miss some of
them. `CoveredStaysCovered` says that a root which covers the unredeemed locks of
its block goes on covering them, and `RootCoversBlock` of the relay that the
backend posts such roots: together, no lock is left behind a consumed root.

A lock batch is a set of records, one per token with its position; a batch in
which a token comes twice reverts in the code and is not an action. Approvals
are not modelled: an owner who locks has approved. Owner-only functions may be
called at any time.

`BunnzCollection` keeps the base's owners and balances apart from the collection's
own lists, as the code does, since `_beforeTokenTransfer` changes the lists while the
balances are still the old ones. An airdrop is one transaction, yet `_safeMint`
calls each receiver, the last one too, before the loop goes on; what a receiver
then does is an action between two steps of the airdrop. `StartAirdrop` is the
check of the supply and the first token, between which nothing is called,
`AirdropNext` each further token, `AirdropReturns` the raise of mintedSupply after
the last receiver has returned. airdrop is onlyOwner and has no guard against
reentrance, so an owner that is a contract and receives tokens may begin an airdrop
inside another: `airdrops` is the stack of the running ones, of which only the
innermost goes on. The inner one is checked against a mintedSupply that leaves the
outer ones out. An airdrop that meets a token that exists goes no further, since the
code then reverts the transaction; the states up to there are those its receivers
saw. `MaxNesting` bounds the depth of the stack.

### The listener

`last` is lastProcessedBlock. A plan is what a call of processBatch still has to
do: chunks of `MaxBlocksPerQuery` blocks, or the single blocks of a timed-out one
(`retry`). `RecoveredPlan` is the nested catch of processBatch: a failed retry
drops the rest of its range and returns to the loop over the chunks. Any other
error ends the call; in start() it also moves `last` to the head or leaves it,
and `StartFails` is the same for a request that fails before a position is read.
`Poll` takes a block number the chain had some time before, as the number is
read before an await. A crash keeps rows, jobs and the chain. Each process has
its own `last`, `phase` and workers; rows and jobs are shared, so what
one process counts as processed another may have written.

### The relay

A root job carries the root as it was computed, while the locks passed with it
are read when it is submitted; both are kept apart. `SendRoot` takes estimateGas and
sending together; the transaction is then in `mempool` until `Mine` decides it.
A sender that gives up or dies leaves it there. `WholeBlocks` says that a proof
job finds all locks of its block indexed: the job is delayed by the
confirmations, in which time a listener that is not stuck has read the block.
Where it is FALSE a lock may be indexed at any time later, so the root of a job may
be older than the locks read for it, which is what `RootLocksRecorded` is about.

`how` says how a sender learned that a root is on chain: by its own transaction, by
the error of its estimate, or by its first look at the chain, after which it marks
the rows and unlocks nothing. Every statement of submitBlockRoot and of
processUnlocksForBlock can fail: before the root is sent (`SubmitFails`), after it
(`WaitFails`), and in the unlocks (`UnlockFails`), where a lock or the rest of the
block is given up.

### The notifications

A process is down, runs its queue processors only (these start with the import of
queue/index.js, before anything else), has its WebSocket server and is catching
up, or runs; the standalone relayer never gets past its queues. `link` is whether the
peer can be reached, which the server cannot see: it sees `isAlive`. A key is a
token id with its JavaScript type, because a Set compares both; the number 0 is
false in every test of the code, so it subscribes to nothing. What the bridge
does meanwhile is reduced to `stage`, with `seen` for the listeners, which handle
every unlock in each process, and `awaiting` for the relayer, which broadcasts
once the receipt is there. A listener that starts may be past some unlocks
already; `UnlockNewsArrives` asks for the others.

## Runs

| run | question | instance | states |
|---|---|---|---|
| contracts | do custody, evidence and consumed roots survive any submitter, the enumeration any order of transfers, the supply counter and the cap any receiver and airdrops inside airdrops? | one contract at a time; bridges: 2 tokens, 1 user, 2 blocks, 4 records, 2 submitters; collection: 4 token ids, 2 holders, cap 2, airdrops of up to 2, one inside another | 1.1 M |
| bridge | can every proven lock be redeemed, is each token in one place, are lock hashes fresh, does a covering root stay one, is TokenCustody implemented, over round trips? | one token, 2 users and all four addresses as recipients, or 2 tokens of one user, one of which may be airdropped, singly and in batches; 2 blocks on each chain | 792 k |
| listener | are no blocks skipped, and does every lock get its job, with overlapping polls and a failed or timed-out request? | 2 locks, 1 unlock, 2 pollers, 3 blocks, 2 per query, 1 fault, fair | 283 k |
| listener_faults | does a lock get at most one job under every fault and restart, with two processes? | 1 lock, 1 unlock, 2 processes of 1 poller, 3 blocks, 2 faults of any kind | 1.7 M |
| relay | does the root cover its block, are both its locks unlocked, when two jobs of a block compete for the processing key? | one block of 2 locks, 2 provers, 1 sender, 2 failed statements or requests, fair | 76 k |
| relay_live | are the locks of two blocks unlocked with a monitor loop beside the queue? | 2 blocks of one lock, prover, sender, monitor, 1 fault, fair | 262 k |
| relay_faults | is the database never ahead of the chain, are the leaves of a root recorded? | one block of 2 locks, late locks, prover and sender in one process, monitor in another, a crash or a failed wait or unlock | 5.6 M |
| notifications | do the client sets follow the sockets, does the heartbeat drop the silent and nobody else, does news of an unlock reach every process's clients? | 2 processes, 1 client, tokens 0 and 1 of which one crosses, 1 subscription, fair | 161 k |

The bounds are chosen for the cases that matter to occur. Two blocks let a token be
locked, redeemed, sent back and locked again, and a root miss a lock of its block;
two tokens make a batch with two orders and two locks in one root. In `bridge` one of
the two may be airdropped; until then it is like any other, so the batches are of
bridged tokens as well as mixed ones, and what the properties say of one bridged
token they say of each. Three blocks with two per query make a full chunk and a
short one, and two polls that overlap on them; two locks of one block make a second proof job that meets the processing
key. A third token, poll or sender adds no relation between two of a kind that is
not there with two, which is an argument and not a proof. The bridges
alone use one user, since whom a token passes through decides nothing there; two
are in `bridge`, where a token must be able to come back to another owner. A pause
only delays calls; `bridge` has one at the end, `contracts` has them at any time.
`MCContracts` and `MCBridge` choose in their initial state which contract, or which
scene, a behaviour is about, so that one run asks one question of several small
instances. One client is enough for the notifications, where no two clients touch
the same state but the set they are in (a member of `Client` is one connection: a
peer that is back before its old socket has closed would be a second one, which the
proof of ClientsMatchSockets allows for); one token crosses at a time, since a
broadcast names one token.
Interchangeable constants are permuted, never in a run with a liveness property.
Deadlock is not checked for the listener and the relay: both stop when the last
block is mined or the last lock unlocked. It is checked for the contracts, the
bridge and the notifications, which never stop.

Liveness is asked where the code keeps it: with requests or statements that fail
less often than a job has attempts, in a process that lives on. The section after
the next says what breaks it.

### Runs that end in a counterexample

Each checks one statement of the repository's README or comments against the code.

| run | statement | what the code does |
|---|---|---|
| listener_timeout | a retried range stops at the first failure and does not skip | the failed retry returns normally; the next chunk then moves lastProcessedBlock over the failed block |
| listener_queue | retries are safe | a row whose job was refused is taken for a finished lock on retry, and no job is ever added |
| notification_types | a client may "Subscribe to specific token updates" (websocket.js:81) | the id of a broadcast is a string from the listener and a number from the prover and the relayer; a Set that holds one has not the other, so half of the token's updates are skipped |
| relay_wait_fails | a root found on chain is harmless, the relayer marks it and continues | it marks the block and returns, and none of its locks is unlocked |

### Statements the code does not keep

These were met while modelling and have no run of their own. The models follow
the code; the second column says how to see it.

| statement | the code, and where the model shows it |
|---|---|
| pause() "allows unlocks to complete" (EthereumBridge.sol:57, MegaEthBridge.sol:89) | all unlocks are whenNotPaused: the guards of the unlock actions of both contract modules |
| a token that is not active on MegaETH cannot be locked (BridgeRoundTrip.test.cjs:196) | batchLockNFTForEthereum (MegaEthBridge.sol:347) does not ask: an airdropped token in `contracts` and `bridge`; TokenInOnePlace fails for it when `Bridged` is all tokens |
| catch-up on startup processes all missed blocks (README:162) | a failure in it moves to the current block (eventListener.js:44-48): NoBlockSkipped with `rpc` and `boot` |
| the event listener never skips blocks (README:31) | a restart resumes from the last block with a lock row, or from the head when there is none (db/index.js:308): NoBlockSkipped with `crash` |
| duplicate processing is prevented (README:32) | unlock_events has no unique key (db/index.js:183): `unlockRows` reaches 2 with two pollers |
| root submission and unlock are automatic (README:30) | a failed unlock is logged and never tried again (relayer.js:356): EveryLockUnlocked with `unlock` |
| the same | a lock indexed after its block's root is on chain is never unlocked: EveryLockUnlocked with WholeBlocks FALSE |
| `root_submitted` that lasts means an unlock is missing (README:392) | a second submission sets rows already `unlocked` back to it (relayer.js:195) |
| setting `block_roots.submitted = false` triggers reprocessing (README:415) | the relayer finds the root on chain, marks the row and returns, as in relay_wait_fails |
| supply cap enforcement (README:131) | bridgeMint asks no cap and mintedSupply counts airdrops only (Bad_Bunnz.sol:123): `Len(allTokens) <= MaxSupply` in `contracts` |
| the same, for airdrops, which revert above the cap (BridgeRoundTrip.t.sol:74) | an airdrop begun inside another, from the receive hook of an owner that is a contract, is checked before the outer one has raised mintedSupply (Bad_Bunnz.sol:189, 193): `airdropped <= MaxSupply` in `contracts`; what does hold is `AirdropsWithinCap` |
| WebSocket server for real-time updates (README:196) | locks, proofs and roots are told only to the clients of the process that handles them (ecosystem.config.cjs:6, eventListener.js:189): HandleLockEvent of `Notifications` |
| AUTO_SUBMIT_ROOTS defaults to true (README:248) | config/index.js:28 takes an unset variable for false; and whatever it says, the queue processors submit the roots of finished proofs (queue/index.js:32) |

To reproduce one, add the fault kinds to `Faults` (or set `WholeBlocks`) in the cfg
of the run that checks the property.

### Fairness

`FairListenerSpec`: the event loop runs every pending continuation (weak fairness
of a worker's next step), the timer fires (a poll with the current block
number), the supervisor restarts a dead process, the chain produces blocks. No
fault is fair and no fault is forbidden but by the bound. `FairRelaySpec`: Bull
hands out waiting jobs, continuations and the monitor's timer run, transactions
are mined. `NotifyFairness`: the heartbeat's interval fires, and a running listener
handles each unlock it is not past. That is an assumption about the listener, and
not one it always keeps: which faults make it skip a block is in `EventListener`,
of which `listener_timeout` shows one. Weak fairness is enough throughout, since a step that is pending
stays pending until it is taken.

## What is proved

For every set of tokens, users and blocks and every set of submittable records,
`EthereumBridgeProofs` and `MegaEthBridgeProofs` prove types, the three invariants
and the two action properties of each contract, under the assumptions on
addresses and on MaxBlock in `BridgeTypes` and that submittable records are
LockData.

The inductive invariant (`EthInv`, `MegaInv`) is the type invariant with
LockedIsHeld and EvidenceKept. Each part needs the others: that a transfer cannot
take a locked token needs that the bridge, which is no user, owns it; that a
consumed root cannot be cleared or overwritten needs that it is set, which is the
first half of EvidenceKept; that a batch releases each token to a recipient that
was recorded for it needs the records typed and keyed. `EthStepKinds` reduces
the eleven disjuncts of EthNext to eight kinds of step (a single lock or unlock is
a batch of one), one lemma per kind shows that it preserves the invariant, and
`EthStepInv` puts them together for any argument of `EthNext`, so that the
composed system can use it. The two action properties follow per kind of step
from the invariant.

`BridgeProofs` proves everything the run `bridge` checks, for every set of tokens,
users and blocks: TokenInOnePlace, ProvenLockRedeemable, LockHashesFresh,
CoveredStaysCovered and the refinement of `TokenCustody`, with no assumption on
airdrops. A token the collection's owner airdrops on MegaETH exists on both chains,
and the batch lock, which does not ask for activeOnMegaETH, sends it to Ethereum
while it is free there; nothing can be promised for it. What is proved is that the
others, `Bridged`, do not suffer: a batch that mixes both kinds moves its bridged
locks (`OfBridged`) and no other bridged token. CoveredStaysCovered, and that a new
lock has no hash that was redeemed, hold of all tokens. That a new lock has a hash of
its own does not: an airdropped token can return to Ethereum in the block it left it.
The invariant `BridgeInv` adds to EthInv and MegaInv:

- `RecordsTrue`: everything recorded was logged as a lock on one of the chains, and a
  hash determines the other fields, so records with one hash are one lock
  (`SameHashSameLock`). A root submission that overwrites an entry writes the same.
- `RootsTrue`, `ProcessedTrue`: every leaf and every processed hash is that of a lock
  of the other chain in a block that is closed. This is where the relayer's wait
  for confirmations enters. A lock of the current block therefore has a fresh hash
  (`EthHashFresh`), and joins no block that has a root (`MegaNoLateArrival`).
- `MintedIsActive`: only the bridge mints a bridged token, so one that somebody holds
  on MegaETH is one the contract knows.
- `OnePlace`: the four places are disjoint and cover the bridged tokens, one lock for each
  token on its way. A call moves a set of tokens from one place to the next
  (`OnePlaceDepart`, `OnePlaceArrive`), and as the places are disjoint, the unlock
  that frees a token finds it neither free nor under a second lock.

For the refinement, `CustodyRead` reads the custody of a token off the free tokens
and the locks on their way; a lock call is then a departure, an unlock call an
arrival, a transfer a hand-over, and every other call a stutter.

`EventListenerProofs` proves the safety properties of the listener for any events,
processes, blocks, chunk size and number of overlapping polls.

- AtMostOneJob, whatever goes wrong (`OneJobPerLock`). The invariant `JobInv` says
  that a call about to add a job made the row of that lock itself and nobody has
  added a job for it; so no two such calls share a lock. ON CONFLICT DO NOTHING,
  which returns a row to one caller only, is what carries the proof.
- ListenerTypeOK, whatever goes wrong (`ListenerTyped`). The types are more than
  shapes: a batch lies within the blocks of the chain, which the chunk loop
  (`ChunksTyped`) and the retries of a batch (`SinglesTyped`) have to keep, and a call
  that handles events has a batch in hand, from whose end `last` is set.
- NoBlockSkipped while failing requests of polls are all that goes wrong
  (`NoBlockSkippedByPolls`, assumption `OnlyRequestsFail`): any number of them, or one
  that times out and is retried, which is what the run `listener` checks. A failure
  during the retry of a time-out, a start() that fails, refused jobs and restarts
  break it (see the statements above and `listener_timeout`). The invariant
  `SkipInv` says of every call in progress that its remaining batches follow each
  other without a gap, that all locks before its batch have rows, and those of its
  batch have rows or are still to do. It does not mention other calls: rows only
  grow, so an overlapping poll that moves lastProcessedBlock back, or forward, to
  the end of its own batch leaves a block up to which the rows are complete.
  `ChunksGapless` is the arithmetic of the chunk loop, `RetriesGapless` that of the
  single blocks put in place of a batch, `CallStep` the frame shared by all steps of
  one call. That no retry fails is a part of the invariant: a plan holds retries only
  when no fault is left.

`CollectionProofs` proves EnumerationMatches, MintedSupplyExact and AirdropsWithinCap
for any tokens, holders, cap, airdrops and depth of nesting. The invariant `LedgerInv` says of each holder's list that
it and the index are inverse (`ListOK`: a position below the balance names a token of
the holder whose index is that position), and the same of the list of all tokens
(`AllOK`); that the list of a holder has as many entries as the base counts tokens is
part of it, since the code takes the last position from the balance. One index
serves all holders, so a removal must leave the other lists alone (`ListFrame`).
The lemmas on lists (`ListAdd`, `ListRemove`, `AllAdd`, `AllRemove`) are the swap with
the last entry, stated of any list and index: filling the gap with the last token,
also when the two are one, keeps list and index inverse. A transfer is a removal and
an addition in which the balances are those of before (`LeavesList`, `JoinsList`).
`DropInv` is what the counters of the running airdrops add up to: the tokens minted
but not yet in mintedSupply are those the running airdrops have minted so far, and
what is minted plus what they still owe is at most the cap plus the tokens of nested
airdrops. The sums over the stack would need an induction the prover cannot do, so
the invariant says that there are running sums, one entry per depth (`Owing`): an
airdrop that begins adds an entry (`OwingPush`), one that returns drops it
(`OwingPop`), a token minted in between is the two after each other. No property
says that the total of airdrops stays within the cap when they are nested, because it
does not.

`RootRelayProofs` proves RelayTypeOK, RootLocksRecorded and RowsNeverAhead of the relay,
and RootCoversBlock when WholeBlocks holds, for any locks, blocks, queue workers, monitor loops, processes and faults, with locks indexed
at any time (WholeBlocks FALSE included). The invariant `RelayInv` follows a root on
its way: in a proof job, a row, a root job, a snapshot of the monitor and a sender it is
a set of rows of its block (`RootOK`), and rows only grow, so the locks a sender reads
later contain it; the transaction carries both. For RowsNeverAhead it says what a
sender knows: past its confirmation the block has a root on chain, past that of an
unlock the lock is processed. `TxInv` ties a transaction to the one sender that waits
for it, which is what a crash, a failed wait and a transaction mined after its sender
gave up (`OrphanedInv`) could break. With WholeBlocks a root on its way is all the locks
of its block, so a retry, a second job and the monitor all submit the same root and it
does not matter which of them the contract accepts. RelayTypeOK needs `JobsInv` besides:
a proof job that runs is run by one prover, and one that waits or runs has attempts
left, so that a failure never counts below zero and a crash, which gives a job back
without counting, leaves it one.

`NotificationsProofs` proves NotifyTypeOK, ClientsMatchSockets and the action property
AnsweringClientStays for any processes, clients and tokens, assuming of the model
value `None` that it is no process. Beside the types and ClientsMatchSockets, the
invariant `NotifyInv` has `SocketOK`: a closed socket belongs to no process, and an
open one is alive or owes the answer to a ping. The last part is what
AnsweringClientStays follows from, and what the order of the heartbeat (terminate the
silent, then clear isAlive, then ping) has to keep.

## What is only model-checked

All liveness, which is beyond the prover: EveryLockGetsJob, EveryLockUnlocked,
SilentClientLeaves and UnlockNewsArrives. Every invariant and every action property
that a passing run checks is also proved. RootCoversBlock is claimed only with WholeBlocks, in the run as
in the theorem: a lock indexed after its block's root was made is not in it.
ProvenLockRedeemable has one exception, visible in its statement: a first arrival
addressed to the MegaETH bridge itself is refused by _safeMint for ever.

## What is not modelled

- Reorganisations deeper than the confirmations, gas, nonces and balances, the
  time in a back-off.
- Contract recipients of the bridges other than the two bridges themselves;
  royalties and the transfer validator of the collection; approvals.
- The two `set...Bridge` functions, which write an address that is never read,
  and metadata of roots.
- In the relay: a paused contract, a wallet that is not the root submitter, roots
  cleared by the owner, Bull's limit on stalled jobs. Each would need an action on the contract's side that the relay
  does not react to.
- The migration at start and the supervisor's limit of ten restarts.
- HTTP routes, alerts, configuration, scripts and deployment: they read, report or
  set what the models take as constants.

## Plan

There is one run for each question. Done: the contracts and the
collection, the composition of the bridges and their abstract custody, the listener in
several processes, the relay, the notifications, and the proofs of every invariant and
action property of theirs. Left, in this order:

1. `MerkleTree`: merkletreejs with sorted pairs against OpenZeppelin's
   MerkleProof.verify over all small leaf lists, which justifies a root as
   a set of leaves.
2. Reorganisations; `RootRelay` composed with the contract modules instead of its
   own three variables.
