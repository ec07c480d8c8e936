------------------------------ MODULE RootRelay ------------------------------
(***************************************************************************)
(* The backend's way from an indexed lock to its unlock, for one direction *)
(* of the bridge: the two Bull queues (queue/index.js), the proof          *)
(* generator (proofGenerator.js), the relayer (relayer.js) and the tables  *)
(* they share (db/index.js), against the contract of the destination.      *)
(*                                                                         *)
(* Workers are asynchronous calls that interleave at their awaits: provers *)
(* and senders run the jobs of the two queues, monitors are the monitor    *)
(* loops.  A process (pm2 starts two) hosts workers and may crash.  A root *)
(* is the set of the locks it has leaves for; {} stands for no row and for *)
(* bytes32(0).  Slip... definitions are wrong on purpose and used by       *)
(* nothing: see BridgeTypes.                                               *)
(***************************************************************************)
EXTENDS Integers, FiniteSets

CONSTANTS
    Lock,        \* locks of the source chain
    SourceBlock, \* their blocks
    BlockOf,     \* the block of every lock
    Prover,      \* bound: generate-proof jobs run at a time
    Sender,      \* bound: submit-root jobs run at a time
    Monitor,     \* monitor loops
    Process,
    HomeOf,      \* the process of every worker
    WholeBlocks, \* a proof job finds all the locks of its block indexed
    Faults,      \* what may go wrong, a subset of FaultKind
    MaxFaults    \* bound: faults of a behaviour

\* db: a statement of the proof generator or its queue fails; rpc: a request
\* or statement of submitBlockRoot fails before the root is sent; wait: one
\* fails after that, tx.wait among them; unlock: one of
\* processUnlocksForBlock fails; crash: a process dies.
FaultKind == {"db", "rpc", "wait", "unlock", "crash"}

None == "none"

ASSUME RelayAssumption ==
    /\ SourceBlock \subseteq Nat
    /\ BlockOf \in [Lock -> SourceBlock]
    /\ HomeOf \in [Prover \cup Sender \cup Monitor -> Process]
    /\ Prover \cap (Sender \cup Monitor) = {} /\ Sender \cap Monitor = {}
    /\ None \notin Lock \cup Sender \cup Monitor
    /\ WholeBlocks \in BOOLEAN
    /\ Faults \subseteq FaultKind
    /\ MaxFaults \in Nat

VARIABLES
    status,     \* lock_events.status, "none" before there is a row
    proofRow,   \* merkle_proofs: the root a lock's stored proof leads to
    rootRow,    \* block_roots.merkle_root
    submitted,  \* block_roots.submitted
    proofJob,   \* the generate-proof job of every lock
    rootJobs,   \* submit-root jobs waiting
    processing, \* ProofGenerator.processing of every process
    prover,     \* generateProofForBlock in progress
    sender,     \* submitBlockRoot and processUnlocksForBlock in progress
    chainRoot,  \* blockRoots of the destination contract
    chainData,  \* lockData of the destination contract
    unlocked,   \* processedLocks of the destination contract
    mempool,    \* transactions sent and not mined
    seen,       \* NFTUnlocked events the destination's listener has handled
    faults      \* faults so far

rowVars == <<status, proofRow, rootRow, submitted>>
queueVars == <<proofJob, rootJobs, processing>>
chainVars == <<chainRoot, chainData, unlocked>>
sendFrame == <<rowVars, queueVars, prover, chainVars, seen, faults>>
rowFrame == <<queueVars, chainVars, mempool, seen, faults>>
relayVars == <<rowVars, queueVars, prover, sender, chainVars, mempool, seen, faults>>

ProofAttempts == 3
RootAttempts == 5
Statuses == {"pending", "proof_generated", "root_submitted", "unlocked"}

LocksOf(b) == {l \in Lock : BlockOf[l] = b}
\* db.getLockEventsByBlock
Rows(b) == {l \in LocksOf(b) : status[l] # None}

IdleProver == [pc |-> "idle", job |-> None, root |-> {}, todo |-> {}, lock |-> None]
NoJob == [from |-> None, root |-> {}, left |-> 1]
\* plan is what a monitor loop has left to submit; job is NoJob in a monitor;
\* how tells a root sent here from one the chain or its error showed to be there.
IdleSender == [pc |-> "idle", job |-> NoJob, block |-> None, root |-> {}, locks |-> {},
               how |-> "sent", todo |-> {}, lock |-> None, plan |-> {}]
RootJob == [from: Lock, root: SUBSET Lock, left: 1..RootAttempts]
Pending == [block: SourceBlock, root: SUBSET Lock]

ProverStep == {"idle", "read", "proof", "status", "root", "enqueue"}
SenderStep == {"idle", "check", "format", "send", "wait", "mined", "reverted", "mark",
               "rows", "read", "proof", "unlock", "unlockWait", "unlockMined",
               "unlockReverted", "unlockStatus", "unlockKnown"}

RelayTypeOK ==
    /\ status \in [Lock -> {None} \cup Statuses]
    /\ proofRow \in [Lock -> SUBSET Lock]
    /\ rootRow \in [SourceBlock -> SUBSET Lock]
    /\ submitted \in [SourceBlock -> BOOLEAN]
    /\ proofJob \in [Lock -> [state: {None, "waiting", "active", "done", "failed"},
                              left: 0..ProofAttempts]]
    /\ rootJobs \subseteq RootJob
    /\ processing \subseteq Process \X SourceBlock
    /\ \A w \in Prover :
         /\ prover[w].pc \in ProverStep
         /\ prover[w].root \cup prover[w].todo \subseteq Lock
         /\ prover[w].pc # "idle" => prover[w].job \in Lock
    /\ \A s \in Sender \cup Monitor :
         /\ sender[s].pc \in SenderStep
         /\ sender[s].root \cup sender[s].locks \cup sender[s].todo \subseteq Lock
         /\ sender[s].pc # "idle" => sender[s].block \in SourceBlock
         /\ sender[s].plan \subseteq Pending
    /\ chainRoot \in [SourceBlock -> SUBSET Lock]
    /\ chainData \subseteq Lock
    /\ unlocked \subseteq Lock
    /\ seen \subseteq unlocked
    /\ faults \in 0..MaxFaults

RelayInit ==
    /\ status = [l \in Lock |-> None]
    /\ proofRow = [l \in Lock |-> {}]
    /\ rootRow = [b \in SourceBlock |-> {}]
    /\ submitted = [b \in SourceBlock |-> FALSE]
    /\ proofJob = [l \in Lock |-> [state |-> None, left |-> ProofAttempts]]
    /\ rootJobs = {}
    /\ processing = {}
    /\ prover = [w \in Prover |-> IdleProver]
    /\ sender = [s \in Sender \cup Monitor |-> IdleSender]
    /\ chainRoot = [b \in SourceBlock |-> {}]
    /\ chainData = {}
    /\ unlocked = {}
    /\ mempool = {}
    /\ seen = {}
    /\ faults = 0

------------------------------------------------------------------------------
\* The listeners: the row and the job of a lock; its unlock, seen later.

Index(l) ==
    /\ status[l] = None
    /\ status' = [status EXCEPT ![l] = "pending"]
    /\ proofJob' = [proofJob EXCEPT ![l].state = "waiting"]
    /\ UNCHANGED <<proofRow, rootRow, submitted, rootJobs, processing, prover, sender,
                   chainVars, mempool, seen, faults>>

SeeUnlock(l) ==
    /\ l \in unlocked \ seen
    /\ seen' = seen \cup {l}
    /\ status' = [status EXCEPT ![l] = "unlocked"]
    /\ UNCHANGED <<proofRow, rootRow, submitted, queueVars, prover, sender, chainVars,
                   mempool, faults>>

------------------------------------------------------------------------------
\* generateProofForBlock, run by the proof queue.

KeyOf(w, b) == <<HomeOf[w], b>>
SlipKeepKey(w) == processing
ReleaseKey(w) == processing \ {KeyOf(w, BlockOf[prover[w].job])}
JobDone(l) == proofJob' = [proofJob EXCEPT ![l].state = "done"]
ProverReturns(w) ==
    /\ prover' = [prover EXCEPT ![w] = IdleProver]
    /\ processing' = ReleaseKey(w)

\* A job whose block is in the processing set succeeds without doing anything.
StartProof(w, l) ==
    /\ prover[w].pc = "idle"
    /\ proofJob[l].state = "waiting"
    /\ WholeBlocks => Rows(BlockOf[l]) = LocksOf(BlockOf[l])
    /\ IF KeyOf(w, BlockOf[l]) \in processing
       THEN JobDone(l) /\ UNCHANGED <<prover, processing>>
       ELSE /\ proofJob' = [proofJob EXCEPT ![l].state = "active"]
            /\ processing' = processing \cup {KeyOf(w, BlockOf[l])}
            /\ prover' = [prover EXCEPT ![w] = [IdleProver EXCEPT !.pc = "read", !.job = l]]
    /\ UNCHANGED <<rowVars, rootJobs, sender, chainVars, mempool, seen, faults>>

SlipLocksFor(w) == {prover[w].job}
LocksFor(w) == Rows(BlockOf[prover[w].job])

ReadLocks(w) ==
    /\ prover[w].pc = "read"
    /\ LET locks == LocksFor(w)
       IN  prover' = [prover EXCEPT ![w].pc = "proof", ![w].root = locks, ![w].todo = locks]
    /\ UNCHANGED <<rowVars, sender, rowFrame>>

\* createMerkleProof overwrites an earlier proof of the lock.
StoreProof(w, l) ==
    /\ prover[w].pc = "proof"
    /\ l \in prover[w].todo
    /\ proofRow' = [proofRow EXCEPT ![l] = prover[w].root]
    /\ prover' = [prover EXCEPT ![w].pc = "status", ![w].lock = l]
    /\ UNCHANGED <<status, rootRow, submitted, sender, rowFrame>>

SlipProven == "proven"
Proven == "proof_generated"

\* updateLockEventStatus, whatever the status is by now.
MarkProven(w) ==
    /\ prover[w].pc = "status"
    /\ status' = [status EXCEPT ![prover[w].lock] = Proven]
    /\ LET todo == prover[w].todo \ {prover[w].lock}
       IN  prover' = [prover EXCEPT ![w].pc = IF todo = {} THEN "root" ELSE "proof",
                                    ![w].todo = todo]
    /\ UNCHANGED <<proofRow, rootRow, submitted, sender, rowFrame>>

\* createBlockRoot overwrites merkle_root and leaves submitted alone.
StoreRoot(w) ==
    /\ prover[w].pc = "root"
    /\ rootRow' = [rootRow EXCEPT ![BlockOf[prover[w].job]] = prover[w].root]
    /\ prover' = [prover EXCEPT ![w].pc = "enqueue"]
    /\ UNCHANGED <<status, proofRow, submitted, sender, rowFrame>>

AddRootJob(w) ==
    /\ prover[w].pc = "enqueue"
    /\ rootJobs' = rootJobs \cup {[from |-> prover[w].job, root |-> prover[w].root,
                                   left |-> RootAttempts]}
    /\ JobDone(prover[w].job)
    /\ ProverReturns(w)
    /\ UNCHANGED <<rowVars, sender, chainVars, mempool, seen, faults>>

Fault(kind) == kind \in Faults /\ faults < MaxFaults /\ faults' = faults + 1

\* Bull runs a failed job again until its attempts are used up.
Retried(job) ==
    [state |-> IF job.left > 1 THEN "waiting" ELSE "failed", left |-> job.left - 1]

ProverFails(w) ==
    /\ prover[w].pc # "idle"
    /\ Fault("db")
    /\ proofJob' = [proofJob EXCEPT ![prover[w].job] = Retried(@)]
    /\ ProverReturns(w)
    /\ UNCHANGED <<rowVars, rootJobs, sender, chainVars, mempool, seen>>

------------------------------------------------------------------------------
\* submitBlockRoot, run by the root queue and by the monitor loops.

Starts(p) == [IdleSender EXCEPT !.pc = "check", !.block = p.block, !.root = p.root]
\* The monitor loop goes through its snapshot in block order.
StartsFirst(plan) ==
    IF plan = {} THEN IdleSender
    ELSE LET first == CHOOSE p \in plan : \A q \in plan : p.block <= q.block
         IN  [Starts(first) EXCEPT !.plan = plan \ {first}]

TakeRootJob(s, job) ==
    /\ sender[s].pc = "idle"
    /\ job \in rootJobs
    /\ rootJobs' = rootJobs \ {job}
    /\ sender' = [sender EXCEPT ![s] =
                    [Starts([block |-> BlockOf[job.from], root |-> job.root])
                        EXCEPT !.job = job]]
    /\ UNCHANGED <<rowVars, proofJob, processing, prover, chainVars, mempool, seen, faults>>

\* processPendingRoots: getPendingBlockRoots.
PollPending(m) ==
    /\ sender[m].pc = "idle"
    /\ LET plan == {[block |-> b, root |-> rootRow[b]] :
                      b \in {c \in SourceBlock : rootRow[c] # {} /\ ~submitted[c]}}
       IN  /\ plan # {}
           /\ sender' = [sender EXCEPT ![m] = StartsFirst(plan)]
    /\ UNCHANGED <<sendFrame, mempool>>

\* What a sender turns to when submitBlockRoot has returned.
Returns(s) == StartsFirst(sender[s].plan)

\* A root that is on chain already is marked and not unlocked.
CheckChain(s) ==
    /\ sender[s].pc = "check"
    /\ sender' = IF chainRoot[sender[s].block] = {}
                 THEN [sender EXCEPT ![s].pc = "format"]
                 ELSE [sender EXCEPT ![s].pc = "mark", ![s].how = "onChain"]
    /\ UNCHANGED <<sendFrame, mempool>>

FormatLocks(s) ==
    /\ sender[s].pc = "format"
    /\ sender' = [sender EXCEPT ![s].pc = "send", ![s].locks = Rows(sender[s].block)]
    /\ UNCHANGED <<sendFrame, mempool>>

\* The merkleRoot argument of submitBlockRoot, as old as the job or the snapshot.
SlipRootToSend(s) == rootRow[sender[s].block]
RootToSend(s) == sender[s].root

\* estimateGas reverts on a root that has been set meanwhile; its error is
\* recognised, and the locks are unlocked.
SendRoot(s) ==
    /\ sender[s].pc = "send"
    /\ IF chainRoot[sender[s].block] # {}
       THEN sender' = [sender EXCEPT ![s].pc = "mark", ![s].how = "known"] /\ UNCHANGED mempool
       ELSE /\ sender' = [sender EXCEPT ![s].pc = "wait"]
            /\ mempool' = mempool \cup
                 {[by |-> s, kind |-> "root", block |-> sender[s].block,
                   root |-> RootToSend(s), locks |-> sender[s].locks]}
    /\ UNCHANGED sendFrame

\* The sender of a mined transaction learns whether it succeeded.
Notified(tx, pc) ==
    sender' = IF tx.by = None THEN sender ELSE [sender EXCEPT ![tx.by].pc = pc]

\* setBlockRoot and setMegaEthBlockRoot of the contracts.
MineRoot(tx) ==
    /\ tx.kind = "root"
    /\ mempool' = mempool \ {tx}
    /\ IF chainRoot[tx.block] = {}
       THEN /\ chainRoot' = [chainRoot EXCEPT ![tx.block] = tx.root]
            /\ chainData' = chainData \cup tx.locks
            /\ Notified(tx, "mined")
       ELSE Notified(tx, "reverted") /\ UNCHANGED <<chainRoot, chainData>>
    /\ UNCHANGED <<rowVars, queueVars, prover, unlocked, seen, faults>>

RootConfirmed(s) ==
    /\ sender[s].pc = "mined"
    /\ sender' = [sender EXCEPT ![s].pc = "mark"]
    /\ UNCHANGED <<sendFrame, mempool>>

\* updateBlockRootSubmission
MarkSubmitted(s) ==
    /\ sender[s].pc = "mark"
    /\ submitted' = [submitted EXCEPT ![sender[s].block] = TRUE]
    /\ sender' = [sender EXCEPT ![s].pc = "rows"]
    /\ UNCHANGED <<status, proofRow, rootRow, prover, rowFrame>>

\* updateLockEventsByBlock sets every row of the block, unlocked ones too.
MarkRows(s) ==
    /\ sender[s].pc = "rows"
    /\ status' = [l \in Lock |-> IF l \in Rows(sender[s].block) THEN "root_submitted"
                                                                ELSE status[l]]
    /\ sender' = [sender EXCEPT ![s] = IF @.how = "onChain" THEN Returns(s) ELSE [@ EXCEPT !.pc = "read"]]
    /\ UNCHANGED <<proofRow, rootRow, submitted, prover, rowFrame>>

\* The job fails, and Bull retries it; a monitor loop drops its snapshot.
SubmitThrows(s) ==
    LET job == sender[s].job
    IN  /\ sender' = [sender EXCEPT ![s] = IdleSender]
        /\ rootJobs' = IF job # NoJob /\ job.left > 1
                       THEN rootJobs \cup {[job EXCEPT !.left = @ - 1]} ELSE rootJobs

\* A transaction that reverts when mined is not recognised as a duplicate.
RootReverted(s) ==
    /\ sender[s].pc = "reverted"
    /\ SubmitThrows(s)
    /\ UNCHANGED <<rowVars, proofJob, processing, prover, chainVars, mempool, seen, faults>>

SubmitFails(s) ==
    /\ sender[s].pc \in {"check", "format", "send"}
    /\ Fault("rpc")
    /\ SubmitThrows(s)
    /\ UNCHANGED <<rowVars, proofJob, processing, prover, chainVars, mempool, seen>>

\* Transactions nobody waits for any more are still mined.
Orphaned(senders) == {IF tx.by \in senders THEN [tx EXCEPT !.by = None] ELSE tx : tx \in mempool}

\* Whatever fails between sending the root and its unlocks, bookkeeping of the
\* transaction and metrics included, makes submitBlockRoot throw.
WaitFails(s) ==
    /\ sender[s].pc \in {"wait", "mined", "mark", "rows", "read"}
    /\ sender[s].pc = "read" => sender[s].how = "sent"
    /\ Fault("wait")
    /\ SubmitThrows(s)
    /\ mempool' = Orphaned({s})
    /\ UNCHANGED <<rowVars, proofJob, processing, prover, chainVars, seen>>

------------------------------------------------------------------------------
\* processUnlocksForBlock and unlockNFT.

\* Goes on with the next lock of todo.
NextUnlock(s, todo) ==
    [sender EXCEPT ![s] = IF todo = {} THEN Returns(s)
                          ELSE [@ EXCEPT !.pc = "proof", !.todo = todo, !.root = {}]]

SlipToUnlock(b) == {l \in Rows(b) : status[l] = "proof_generated"}
ToUnlock(b) == {l \in Rows(b) : status[l] # "unlocked"}

ReadUnlockRows(s) ==
    /\ sender[s].pc = "read"
    /\ sender' = NextUnlock(s, ToUnlock(sender[s].block))
    /\ UNCHANGED <<sendFrame, mempool>>

\* getProof; a lock without a proof is passed over.
GetProof(s, l) ==
    /\ sender[s].pc = "proof"
    /\ l \in sender[s].todo
    /\ sender' = IF proofRow[l] = {} THEN NextUnlock(s, sender[s].todo \ {l})
                 ELSE [sender EXCEPT ![s].pc = "unlock", ![s].lock = l,
                                     ![s].root = proofRow[l]]
    /\ UNCHANGED <<sendFrame, mempool>>

\* The requires of unlockNFTWithProof for a proof that leads to root.
Unlockable(l, root) ==
    l \notin unlocked /\ l \in chainData /\ l \in root /\ chainRoot[BlockOf[l]] = root

\* The error that estimateGas gives for the lock says it was processed already.
SlipAlreadyProcessed(l) == TRUE
AlreadyProcessed(l) == l \in unlocked

\* estimateGas reverts on a lock that is unlocked already, and on a proof that
\* does not verify: the first error sets the status, any other is logged.
SendUnlock(s) ==
    /\ sender[s].pc = "unlock"
    /\ LET l == sender[s].lock
       IN  IF Unlockable(l, sender[s].root)
           THEN /\ sender' = [sender EXCEPT ![s].pc = "unlockWait"]
                /\ mempool' = mempool \cup {[by |-> s, kind |-> "unlock", lock |-> l,
                                             root |-> sender[s].root]}
           ELSE /\ sender' = IF AlreadyProcessed(l)
                             THEN [sender EXCEPT ![s].pc = "unlockKnown"]
                             ELSE NextUnlock(s, sender[s].todo \ {l})
                /\ UNCHANGED mempool
    /\ UNCHANGED sendFrame

MineUnlock(tx) ==
    /\ tx.kind = "unlock"
    /\ mempool' = mempool \ {tx}
    /\ IF Unlockable(tx.lock, tx.root)
       THEN unlocked' = unlocked \cup {tx.lock} /\ Notified(tx, "unlockMined")
       ELSE Notified(tx, "unlockReverted") /\ UNCHANGED unlocked
    /\ UNCHANGED <<rowVars, queueVars, prover, chainRoot, chainData, seen, faults>>

UnlockConfirmed(s) ==
    /\ sender[s].pc = "unlockMined"
    /\ sender' = [sender EXCEPT ![s].pc = "unlockStatus"]
    /\ UNCHANGED <<sendFrame, mempool>>

MarkUnlocked(s) ==
    /\ sender[s].pc \in {"unlockStatus", "unlockKnown"}
    /\ status' = [status EXCEPT ![sender[s].lock] = "unlocked"]
    /\ sender' = NextUnlock(s, sender[s].todo \ {sender[s].lock})
    /\ UNCHANGED <<proofRow, rootRow, submitted, prover, rowFrame>>

UnlockReverted(s) ==
    /\ sender[s].pc = "unlockReverted"
    /\ sender' = NextUnlock(s, sender[s].todo \ {sender[s].lock})
    /\ UNCHANGED <<sendFrame, mempool>>

\* The error is logged, as is a proof that cannot be read, and the loop goes on
\* with the next lock: this one keeps its status, unlocked or not.  The rows of
\* the block and the handler of an unlock already processed have no such catch,
\* and the rest of the block is given up.
UnlockFails(s) ==
    /\ Fault("unlock")
    /\ \/ /\ sender[s].pc \in {"unlock", "unlockWait", "unlockMined", "unlockStatus"}
          /\ sender' = NextUnlock(s, sender[s].todo \ {sender[s].lock})
       \/ /\ sender[s].pc = "proof"
          /\ \E l \in sender[s].todo : sender' = NextUnlock(s, sender[s].todo \ {l})
       \/ /\ sender[s].pc \in {"read", "unlockKnown"}
          /\ sender' = NextUnlock(s, {})
    /\ mempool' = Orphaned({s})
    /\ UNCHANGED <<rowVars, queueVars, prover, chainVars, seen>>

------------------------------------------------------------------------------
\* A process dies and is started again; Bull gives its jobs to another worker.
Crash(p) ==
    LET dead == {w \in DOMAIN HomeOf : HomeOf[w] = p}
    IN  /\ Fault("crash")
        /\ prover' = [w \in Prover |-> IF w \in dead THEN IdleProver ELSE prover[w]]
        /\ sender' = [s \in Sender \cup Monitor |-> IF s \in dead THEN IdleSender ELSE sender[s]]
        /\ processing' = {k \in processing : k[1] # p}
        /\ proofJob' = [l \in Lock |->
                          IF \E w \in Prover \cap dead : prover[w].job = l
                          THEN [proofJob[l] EXCEPT !.state = "waiting"] ELSE proofJob[l]]
        /\ rootJobs' = rootJobs \cup ({sender[s].job : s \in Sender \cap dead} \ {NoJob})
        /\ mempool' = Orphaned(dead)
        /\ UNCHANGED <<rowVars, chainVars, seen>>

------------------------------------------------------------------------------
Prove(w) ==
    \/ ReadLocks(w)
    \/ \E l \in Lock : StoreProof(w, l)
    \/ MarkProven(w)
    \/ StoreRoot(w)
    \/ AddRootJob(w)

Submit(s) ==
    \/ CheckChain(s)
    \/ FormatLocks(s)
    \/ SendRoot(s)
    \/ RootConfirmed(s)
    \/ MarkSubmitted(s)
    \/ MarkRows(s)
    \/ RootReverted(s)
    \/ ReadUnlockRows(s)
    \/ \E l \in Lock : GetProof(s, l)
    \/ SendUnlock(s)
    \/ UnlockConfirmed(s)
    \/ MarkUnlocked(s)
    \/ UnlockReverted(s)

Mine == \E tx \in mempool : MineRoot(tx) \/ MineUnlock(tx)

Failure ==
    \/ \E w \in Prover : ProverFails(w)
    \/ \E s \in Sender \cup Monitor : SubmitFails(s) \/ WaitFails(s) \/ UnlockFails(s)
    \/ \E p \in Process : Crash(p)

RelayNext ==
    \/ \E l \in Lock : Index(l) \/ SeeUnlock(l)
    \/ \E w \in Prover, l \in Lock : StartProof(w, l)
    \/ \E w \in Prover : Prove(w)
    \/ \E s \in Sender : \E job \in rootJobs : TakeRootJob(s, job)
    \/ \E m \in Monitor : PollPending(m)
    \/ \E s \in Sender \cup Monitor : Submit(s)
    \/ Mine
    \/ Failure

RelaySpec == RelayInit /\ [][RelayNext]_relayVars

\* Bull hands out every waiting job, the event loop runs every continuation
\* and the monitor's timer, and the chain mines every transaction.
RelayFairness ==
    /\ \A l \in Lock : WF_relayVars(Index(l)) /\ WF_relayVars(SeeUnlock(l))
    /\ WF_relayVars(\E w \in Prover, l \in Lock : StartProof(w, l))
    /\ WF_relayVars(\E s \in Sender : \E job \in rootJobs : TakeRootJob(s, job))
    /\ \A w \in Prover : WF_relayVars(Prove(w))
    /\ \A m \in Monitor : WF_relayVars(PollPending(m))
    /\ \A s \in Sender \cup Monitor : WF_relayVars(Submit(s))
    /\ WF_relayVars(Mine)

FairRelaySpec == RelaySpec /\ RelayFairness

------------------------------------------------------------------------------
\* Properties.

\* The database is never ahead of the chain: a root is marked submitted only
\* when one is on chain, a lock unlocked only when the contract processed it.
RowsNeverAhead ==
    /\ \A b \in SourceBlock : submitted[b] => chainRoot[b] # {}
    /\ \A l \in Lock : status[l] = "unlocked" => l \in unlocked

\* A root on chain covers every lock of its block, and each of them is recorded.
\* With CoveredStaysCovered of the contracts, such a root strands no lock.
RootCoversBlock ==
    \A b \in SourceBlock :
        chainRoot[b] # {} => chainRoot[b] = LocksOf(b) /\ LocksOf(b) \subseteq chainData

\* Every leaf of a root on chain has its lock recorded, without which its
\* unlock is refused: the locks are read after the root was computed, from rows
\* that only grow in number.
RootLocksRecorded == \A b \in SourceBlock : chainRoot[b] \subseteq chainData

\* "Fully automated - no manual claiming" (README): every indexed lock is
\* unlocked on the other chain in the end.
EveryLockUnlocked == \A l \in Lock : (status[l] # None) ~> (l \in unlocked)
==============================================================================
