--------------------------- MODULE RootRelayProofs ---------------------------
(***************************************************************************)
(* Proofs about RootRelay, for any locks, blocks, workers, processes and   *)
(* faults: the leaves of a root on chain are recorded with it, the         *)
(* database is never ahead of the chain, and when a proof job finds all    *)
(* locks of its block (WholeBlocks) every root on chain covers its block.  *)
(* Last, the types of the variables.                                       *)
(***************************************************************************)
EXTENDS RootRelay, WellFoundedInduction, TLAPS

Worker == Sender \cup Monitor
ProverRec == [pc: ProverStep, job: Lock \cup {None}, root: SUBSET Lock,
              todo: SUBSET Lock, lock: Lock \cup {None}]
SenderRec == [pc: SenderStep, job: RootJob \cup {NoJob}, block: SourceBlock \cup {None},
              root: SUBSET Lock, locks: SUBSET Lock, how: {"sent", "onChain", "known"},
              todo: SUBSET Lock, lock: Lock \cup {None}, plan: SUBSET Pending]
RootTx == [by: Worker \cup {None}, kind: {"root"}, block: SourceBlock,
           root: SUBSET Lock, locks: SUBSET Lock]
UnlockTx == [by: Worker \cup {None}, kind: {"unlock"}, lock: Lock, root: SUBSET Lock]

\* The locks that have a row in state st of the rows.
Indexed(st) == {l \in Lock : st[l] # None}

\* A root that was computed from rows of its block, all of them with WholeBlocks.
RootOK(root, b, rows) ==
    /\ root # {} /\ root \subseteq LocksOf(b) \cap rows
    /\ WholeBlocks => root = LocksOf(b)

RootsWhole == \A b \in SourceBlock : chainRoot[b] # {} => chainRoot[b] = LocksOf(b)

\* The database and the contract.
WorldInv ==
    /\ status \in [Lock -> {None} \cup Statuses]
    /\ rootRow \in [SourceBlock -> SUBSET Lock]
    /\ submitted \in [SourceBlock -> BOOLEAN]
    /\ proofRow \in [Lock -> SUBSET Lock]
    /\ proofJob \in [Lock -> [state: {None, "waiting", "active", "done", "failed"}, left: Int]]
    /\ rootJobs \subseteq RootJob
    /\ chainRoot \in [SourceBlock -> SUBSET Lock]
    /\ seen \subseteq unlocked
    /\ unlocked \subseteq Lock
    /\ \A b \in SourceBlock : rootRow[b] # {} => RootOK(rootRow[b], b, Indexed(status))
    /\ \A job \in rootJobs : RootOK(job.root, BlockOf[job.from], Indexed(status))
    /\ \A l \in Lock : proofJob[l].state = "waiting" => l \in Indexed(status)
    /\ RootLocksRecorded
    /\ WholeBlocks => RootsWhole
    /\ RowsNeverAhead

\* A call of the proof generator.
ProverOK(r, rows) ==
    /\ r.pc # "idle" => r.job \in Lock
    /\ r.job \in Lock => r.job \in rows
    /\ WholeBlocks /\ r.job \in Lock => LocksOf(BlockOf[r.job]) \subseteq rows
    /\ r.pc \in {"proof", "status", "root", "enqueue"} =>
          RootOK(r.root, BlockOf[r.job], rows) /\ r.todo \subseteq r.root
    /\ r.pc = "status" => r.lock \in rows

ProversInv ==
    /\ prover \in [Prover -> ProverRec]
    /\ \A w \in Prover : ProverOK(prover[w], Indexed(status))

\* A call of the relayer.
SenderOK(r, rows, roots, done) ==
    /\ r.job # NoJob => RootOK(r.job.root, BlockOf[r.job.from], rows)
    /\ \A p \in r.plan : RootOK(p.root, p.block, rows)
    /\ r.pc # "idle" => r.block \in SourceBlock
    /\ r.pc \in {"check", "format", "send"} => RootOK(r.root, r.block, rows)
    /\ r.pc = "send" => r.root \subseteq r.locks
    /\ r.pc \in {"mined", "mark"} => roots[r.block] # {}
    /\ r.pc \in {"unlock", "unlockWait"} => r.lock \in Lock
    /\ r.pc \in {"unlockMined", "unlockStatus", "unlockKnown"} => r.lock \in done

SendersInv ==
    /\ sender \in [Worker -> SenderRec]
    /\ \A s \in Worker : SenderOK(sender[s], Indexed(status), chainRoot, unlocked)

\* A transaction in flight carries the locks of its root, and its sender waits
\* for it and for no other.
Waits(r, tx) ==
    IF tx.kind = "root" THEN r.pc = "wait" /\ r.block = tx.block
                        ELSE r.pc = "unlockWait" /\ r.lock = tx.lock
Carries(tx) ==
    /\ tx.root # {} /\ tx.root \subseteq tx.locks
    /\ WholeBlocks => tx.root = LocksOf(tx.block)
TxInv ==
    /\ mempool \subseteq RootTx \cup UnlockTx
    /\ \A tx \in mempool : tx.kind = "root" => Carries(tx)
    /\ \A tx \in mempool : tx.by \in Worker => Waits(sender[tx.by], tx)
    /\ \A s \in Worker, tx, ty \in mempool : tx.by = s /\ ty.by = s => tx = ty

RelayInv == WorldInv /\ ProversInv /\ SendersInv /\ TxInv

LEMMA RelayInitInv == RelayInit => RelayInv
<1> SUFFICES ASSUME RelayInit PROVE RelayInv
  OBVIOUS
<1>1. WorldInv
  BY RelayAssumption DEF RelayInit, WorldInv, RootLocksRecorded, RootsWhole, RowsNeverAhead, None, ProofAttempts
<1>2. ProversInv
  <2>1. IdleProver \in ProverRec /\ \A rows : ProverOK(IdleProver, rows)
    BY RelayAssumption DEF IdleProver, ProverRec, ProverStep, ProverOK
  <2> QED
    BY <2>1 DEF RelayInit, ProversInv
<1>3. SendersInv
  <2>1. IdleSender \in SenderRec /\ \A rows, roots, done : SenderOK(IdleSender, rows, roots, done)
    BY RelayAssumption DEF IdleSender, SenderRec, SenderStep, SenderOK
  <2> QED
    BY <2>1 DEF RelayInit, SendersInv, Worker
<1>4. TxInv
  BY DEF RelayInit, TxInv
<1> QED
  BY <1>1, <1>2, <1>3, <1>4 DEF RelayInv

------------------------------------------------------------------------------
\* What a step leaves of the invariant when rows, roots and unlocks only grow.

LEMMA RootGrows ==
    ASSUME NEW root, NEW b, NEW rows, NEW more, rows \subseteq more, RootOK(root, b, rows)
    PROVE  RootOK(root, b, more)
BY DEF RootOK

LEMMA ProverGrows ==
    ASSUME NEW r, NEW rows, NEW more, rows \subseteq more, ProverOK(r, rows)
    PROVE  ProverOK(r, more)
BY RootGrows DEF ProverOK

RootsGrow(roots, more) == \A b \in SourceBlock : roots[b] # {} => more[b] # {}

LEMMA SenderGrows ==
    ASSUME NEW r, NEW rows, NEW more, rows \subseteq more,
           NEW roots, NEW moreRoots, RootsGrow(roots, moreRoots),
           NEW done, NEW moreDone, done \subseteq moreDone,
           SenderOK(r, rows, roots, done)
    PROVE  SenderOK(r, more, moreRoots, moreDone)
BY RootGrows DEF SenderOK, RootsGrow

RowsGrow == Indexed(status) \subseteq Indexed(status')
Grows ==
    /\ RowsGrow
    /\ RootsGrow(chainRoot, chainRoot')
    /\ unlocked \subseteq unlocked'

LEMMA ProversKeep ==
    ASSUME ProversInv, UNCHANGED prover, RowsGrow
    PROVE  ProversInv'
<1>1. ASSUME NEW w \in Prover PROVE ProverOK(prover[w], Indexed(status'))
  BY ProverGrows DEF ProversInv, RowsGrow
<1> QED
  BY <1>1 DEF ProversInv, Indexed

LEMMA ProversStep ==
    ASSUME ProversInv, NEW w \in Prover, NEW r \in ProverRec,
           prover' = [prover EXCEPT ![w] = r], ProverOK(r, Indexed(status')), RowsGrow
    PROVE  ProversInv'
<1>1. prover' \in [Prover -> ProverRec]
  BY DEF ProversInv
<1>2. ASSUME NEW v \in Prover PROVE ProverOK(prover'[v], Indexed(status'))
  <2>1. CASE v = w
    BY <2>1 DEF ProversInv
  <2>2. CASE v # w
    <3>1. prover'[v] = prover[v] /\ ProverOK(prover[v], Indexed(status))
      BY <2>2 DEF ProversInv
    <3> QED
      BY <3>1, ProverGrows DEF RowsGrow
  <2> QED
    BY <2>1, <2>2
<1> QED
  BY <1>1, <1>2 DEF ProversInv, Indexed

LEMMA SendersKeep ==
    ASSUME SendersInv, UNCHANGED sender, Grows
    PROVE  SendersInv'
<1>1. ASSUME NEW s \in Worker
      PROVE  SenderOK(sender[s], Indexed(status'), chainRoot', unlocked')
  BY SenderGrows DEF SendersInv, Grows, RowsGrow
<1> QED
  BY <1>1 DEF SendersInv, Indexed

LEMMA SendersStep ==
    ASSUME SendersInv, NEW s \in Worker, NEW r \in SenderRec,
           sender' = [sender EXCEPT ![s] = r],
           SenderOK(r, Indexed(status'), chainRoot', unlocked'), Grows
    PROVE  SendersInv'
<1>1. sender' \in [Worker -> SenderRec]
  BY DEF SendersInv
<1>2. ASSUME NEW v \in Worker
      PROVE  SenderOK(sender'[v], Indexed(status'), chainRoot', unlocked')
  <2>1. CASE v = s
    BY <2>1 DEF SendersInv
  <2>2. CASE v # s
    <3>1. sender'[v] = sender[v] /\ SenderOK(sender[v], Indexed(status), chainRoot, unlocked)
      BY <2>2 DEF SendersInv
    <3> QED
      BY <3>1, SenderGrows DEF Grows, RowsGrow
  <2> QED
    BY <2>1, <2>2
<1> QED
  BY <1>1, <1>2 DEF SendersInv, Indexed

\* No transaction is on its way for a sender that waits for none.
Waiting(s) == sender[s].pc \in {"wait", "unlockWait"}

LEMMA TxStep ==
    ASSUME TxInv, SendersInv, NEW s \in Worker, ~Waiting(s), NEW r,
           sender' = [sender EXCEPT ![s] = r], UNCHANGED mempool
    PROVE  TxInv' /\ \A tx \in mempool : tx.by # s
<1>1. \A tx \in mempool : tx.by # s
  BY DEF TxInv, Waits, Waiting
<1>2. \A v \in Worker : v # s => sender'[v] = sender[v]
  BY DEF SendersInv
<1>3. \A tx \in mempool : tx.by \in Worker => Waits(sender'[tx.by], tx)
  BY <1>1, <1>2 DEF TxInv
<1> QED
  BY <1>1, <1>3 DEF TxInv

\* A step that writes no rows.
LEMMA WorldKeep ==
    ASSUME WorldInv, UNCHANGED <<rowVars, queueVars, chainVars, seen>>
    PROVE  WorldInv' /\ Grows
BY DEF WorldInv, rowVars, queueVars, chainVars, RootLocksRecorded, RootsWhole, RowsNeverAhead, Rows,
       Indexed, Grows, RowsGrow, RootsGrow

\* A step of one call of the relayer that changes its local variables only.
LEMMA SenderMoves ==
    ASSUME RelayInv, NEW s \in Worker, ~Waiting(s), NEW r \in SenderRec,
           sender' = [sender EXCEPT ![s] = r], sendFrame' = sendFrame, UNCHANGED mempool,
           SenderOK(r, Indexed(status), chainRoot, unlocked)
    PROVE  RelayInv'
<1>1. WorldInv' /\ Grows /\ UNCHANGED <<status, chainRoot, unlocked, prover>>
  BY WorldKeep DEF RelayInv, sendFrame, rowVars, chainVars
<1>2. ProversInv'
  BY <1>1, ProversKeep DEF RelayInv, Grows
<1>3. SenderOK(r, Indexed(status'), chainRoot', unlocked')
  BY <1>1
<1>4. SendersInv'
  BY <1>1, <1>3, SendersStep DEF RelayInv
<1>5. TxInv'
  BY TxStep DEF RelayInv
<1> QED
  BY <1>1, <1>2, <1>4, <1>5 DEF RelayInv

\* Rows of a block are rows.
LEMMA RowsIndexed ==
    ASSUME NEW b
    PROVE  Rows(b) = LocksOf(b) \cap Indexed(status)
BY DEF Rows, LocksOf, Indexed

\* Nothing of the relayer and the contract changes.
LEMMA OthersKeep ==
    ASSUME RelayInv, UNCHANGED <<sender, mempool, chainVars>>, RowsGrow
    PROVE  SendersInv' /\ TxInv'
<1>1. Grows
  BY DEF Grows, RootsGrow, chainVars
<1>2. SendersInv'
  BY <1>1, SendersKeep DEF RelayInv
<1>3. TxInv'
  BY DEF RelayInv, TxInv
<1> QED
  BY <1>2, <1>3

------------------------------------------------------------------------------
\* The listeners and the proof generator.

LEMMA IndexInv ==
    ASSUME RelayInv, NEW l \in Lock, Index(l)
    PROVE  RelayInv'
<1>1. status' = [status EXCEPT ![l] = "pending"] /\ status[l] = None /\ status \in [Lock -> {None} \cup Statuses]
  BY DEF RelayInv, WorldInv, Index
<1>2. Indexed(status') = Indexed(status) \cup {l}
  BY <1>1 DEF Indexed, None
<1>3. RowsGrow
  BY <1>2 DEF RowsGrow
<1>4. WorldInv'
  <2>1. UNCHANGED <<rootRow, submitted, proofRow, rootJobs, chainRoot, chainData, seen, unlocked>>
    BY DEF Index, chainVars
  <2>2. status' \in [Lock -> {None} \cup Statuses]
    BY <1>1 DEF Statuses
  <2>3. /\ proofJob' \in [Lock -> [state: {None, "waiting", "active", "done", "failed"}, left: Int]]
        /\ \A k \in Lock \ {l} : proofJob'[k] = proofJob[k]
    BY DEF RelayInv, WorldInv, Index
  <2>4. \A k \in Lock : proofJob'[k].state = "waiting" => k \in Indexed(status')
    BY <2>3, <1>2 DEF RelayInv, WorldInv
  <2>5. \A k \in Lock : status'[k] = "unlocked" => k \in unlocked
    BY <1>1 DEF RelayInv, WorldInv, RowsNeverAhead
  <2>6. \A root, b : RootOK(root, b, Indexed(status)) => RootOK(root, b, Indexed(status'))
    BY <1>3, RootGrows DEF RowsGrow
  <2>7. \A b \in SourceBlock : rootRow[b] # {} => RootOK(rootRow[b], b, Indexed(status'))
    BY <2>6 DEF RelayInv, WorldInv
  <2>8. \A job \in rootJobs : RootOK(job.root, BlockOf[job.from], Indexed(status'))
    BY <2>6 DEF RelayInv, WorldInv
  <2>9. RootLocksRecorded' /\ (WholeBlocks => RootsWhole') /\ RowsNeverAhead'
    BY <2>1, <2>5 DEF RelayInv, WorldInv, RootLocksRecorded, RootsWhole, RowsNeverAhead
  <2>10. Indexed(status)' = Indexed(status')
    BY DEF Indexed
  <2> QED
    BY <2>1, <2>2, <2>3, <2>4, <2>7, <2>8, <2>9, <2>10 DEF RelayInv, WorldInv
<1>5. UNCHANGED <<prover, sender, mempool, chainVars>>
  BY DEF Index
<1> QED
  BY <1>3, <1>4, <1>5, ProversKeep, OthersKeep DEF RelayInv

\* A step that changes the status of rows there are, and leaves the jobs alone.
LEMMA StatusStep ==
    ASSUME WorldInv, status' \in [Lock -> {None} \cup Statuses], RowsGrow,
           \A l \in Lock : status'[l] = "unlocked" => l \in unlocked,
           UNCHANGED <<proofRow, rootRow, submitted, proofJob, rootJobs, chainVars>>,
           seen \subseteq seen', seen' \subseteq unlocked
    PROVE  WorldInv'
<1>1. \A root, b : RootOK(root, b, Indexed(status)) => RootOK(root, b, Indexed(status'))
  BY RootGrows DEF RowsGrow
<1>2. /\ \A b \in SourceBlock : rootRow[b] # {} => RootOK(rootRow[b], b, Indexed(status'))
      /\ \A job \in rootJobs : RootOK(job.root, BlockOf[job.from], Indexed(status'))
  BY <1>1 DEF WorldInv
<1>3. \A l \in Lock : proofJob[l].state = "waiting" => l \in Indexed(status')
  BY DEF WorldInv, RowsGrow
<1>4. RootLocksRecorded' /\ (WholeBlocks => RootsWhole') /\ RowsNeverAhead'
  BY DEF WorldInv, RootLocksRecorded, RootsWhole, RowsNeverAhead, chainVars
<1>5. Indexed(status)' = Indexed(status')
  BY DEF Indexed
<1> QED
  BY <1>2, <1>3, <1>4, <1>5 DEF WorldInv, chainVars

LEMMA SeeUnlockInv ==
    ASSUME RelayInv, NEW l \in Lock, SeeUnlock(l)
    PROVE  RelayInv'
<1>1. status' = [status EXCEPT ![l] = "unlocked"] /\ l \in unlocked /\ seen' = seen \cup {l}
      /\ UNCHANGED <<proofRow, rootRow, submitted, proofJob, rootJobs, chainVars, prover, sender, mempool>>
  BY DEF SeeUnlock, queueVars
<1>2. status' \in [Lock -> {None} \cup Statuses]
  BY <1>1 DEF RelayInv, WorldInv, Statuses
<1>3. RowsGrow
  BY <1>1 DEF RelayInv, WorldInv, RowsGrow, Indexed, None
<1>4. \A k \in Lock : status'[k] = "unlocked" => k \in unlocked
  BY <1>1 DEF RelayInv, WorldInv, RowsNeverAhead
<1>5. seen \subseteq seen' /\ seen' \subseteq unlocked
  BY <1>1 DEF RelayInv, WorldInv
<1>6. WorldInv'
  BY <1>1, <1>2, <1>3, <1>4, <1>5, StatusStep DEF RelayInv
<1> QED
  BY <1>1, <1>3, <1>6, ProversKeep, OthersKeep DEF RelayInv

\* A step that changes the jobs only: every waiting one has a row.
LEMMA JobStep ==
    ASSUME WorldInv, UNCHANGED <<rowVars, chainVars, seen>>,
           proofJob' \in [Lock -> [state: {None, "waiting", "active", "done", "failed"}, left: Int]],
           \A l \in Lock : proofJob'[l].state = "waiting" => l \in Indexed(status),
           rootJobs' \subseteq RootJob,
           \A job \in rootJobs' : RootOK(job.root, BlockOf[job.from], Indexed(status))
    PROVE  WorldInv' /\ RowsGrow
<1>1. RootLocksRecorded' /\ (WholeBlocks => RootsWhole') /\ RowsNeverAhead'
  BY DEF WorldInv, RootLocksRecorded, RootsWhole, RowsNeverAhead, rowVars, chainVars
<1>2. Indexed(status)' = Indexed(status) /\ RowsGrow
  BY DEF Indexed, RowsGrow, rowVars
<1> QED
  BY <1>1, <1>2 DEF WorldInv, rowVars, chainVars

LEMMA JobDoneType ==
    ASSUME WorldInv, NEW l \in Lock, JobDone(l)
    PROVE  /\ proofJob' \in [Lock -> [state: {None, "waiting", "active", "done", "failed"}, left: Int]]
           /\ \A k \in Lock : proofJob'[k].state = "waiting" => k \in Indexed(status)
BY DEF WorldInv, JobDone

LEMMA StartProofInv ==
    ASSUME RelayInv, NEW w \in Prover, NEW l \in Lock, StartProof(w, l)
    PROVE  RelayInv'
<1>1. proofJob[l].state = "waiting" /\ l \in Indexed(status) /\ rootJobs' = rootJobs
      /\ UNCHANGED <<rowVars, sender, mempool, chainVars, seen>>
  BY DEF StartProof, RelayInv, WorldInv
<1>2. CASE JobDone(l) /\ UNCHANGED prover
  <2>1. WorldInv' /\ RowsGrow
    BY <1>1, <1>2, JobDoneType, JobStep DEF RelayInv, WorldInv
  <2> QED
    BY <1>1, <1>2, <2>1, ProversKeep, OthersKeep DEF RelayInv
<1>3. CASE /\ proofJob' = [proofJob EXCEPT ![l].state = "active"]
           /\ prover' = [prover EXCEPT ![w] = [IdleProver EXCEPT !.pc = "read", !.job = l]]
  <2> DEFINE r == [IdleProver EXCEPT !.pc = "read", !.job = l]
  <2>1. /\ proofJob' \in [Lock -> [state: {None, "waiting", "active", "done", "failed"}, left: Int]]
        /\ \A k \in Lock : proofJob'[k].state = "waiting" => k \in Indexed(status)
    BY <1>3 DEF RelayInv, WorldInv
  <2>2. WorldInv' /\ RowsGrow
    BY <1>1, <2>1, JobStep DEF RelayInv, WorldInv
  <2>3. IdleProver \in ProverRec
    BY DEF IdleProver, ProverRec, ProverStep
  <2>4. r \in ProverRec /\ r.pc = "read" /\ r.job = l
    BY <2>3 DEF ProverRec, ProverStep
  <2>5. ProverOK(r, Indexed(status'))
    <3>1. l \in Indexed(status') /\ (WholeBlocks => LocksOf(BlockOf[l]) \subseteq Indexed(status'))
      BY <1>1, RowsIndexed DEF rowVars, StartProof
    <3> QED
      BY <2>4, <3>1 DEF ProverOK
  <2>6. ProversInv'
    <3> HIDE DEF r
    <3>1. prover' = [prover EXCEPT ![w] = r]
      BY <1>3 DEF r
    <3> QED
      BY <2>2, <2>4, <2>5, <3>1, ProversStep DEF RelayInv
  <2> QED
    BY <1>1, <2>2, <2>6, OthersKeep DEF RelayInv
<1> QED
  BY <1>2, <1>3 DEF StartProof

LEMMA ReadLocksInv ==
    ASSUME RelayInv, NEW w \in Prover, ReadLocks(w)
    PROVE  RelayInv'
<1> DEFINE locks == LocksFor(w)
           r == [prover[w] EXCEPT !.pc = "proof", !.root = locks, !.todo = locks]
<1>1. prover[w].pc = "read" /\ prover[w] \in ProverRec /\ ProverOK(prover[w], Indexed(status))
  BY DEF ReadLocks, RelayInv, ProversInv
<1>2. prover' = [prover EXCEPT ![w] = r]
  BY DEF ReadLocks, RelayInv, ProversInv
<1>3. UNCHANGED <<rowVars, queueVars, chainVars, seen, sender, mempool>>
  BY DEF ReadLocks, rowFrame
<1>4. prover[w].job \in Lock /\ prover[w].job \in Indexed(status)
      /\ (WholeBlocks => LocksOf(BlockOf[prover[w].job]) \subseteq Indexed(status))
  BY <1>1 DEF ProverOK
<1>5. locks = LocksOf(BlockOf[prover[w].job]) \cap Indexed(status)
  BY RowsIndexed DEF LocksFor
<1>6. prover[w].job \in LocksOf(BlockOf[prover[w].job])
  BY <1>4 DEF LocksOf
<1>7. RootOK(locks, BlockOf[prover[w].job], Indexed(status)) /\ locks \subseteq Lock
  BY <1>4, <1>5, <1>6 DEF RootOK, Indexed
<1> HIDE DEF locks
<1>8. r \in ProverRec /\ r.pc = "proof" /\ r.root = locks /\ r.todo = locks
      /\ r.job = prover[w].job
  BY <1>1, <1>7 DEF ProverRec, ProverStep
<1>9. ProverOK(r, Indexed(status))
  BY <1>4, <1>7, <1>8 DEF ProverOK
<1> HIDE DEF r
<1>10. WorldInv' /\ RowsGrow /\ status' = status
  BY <1>3, WorldKeep DEF RelayInv, Grows, rowVars
<1>11. ProversInv'
  BY <1>2, <1>8, <1>9, <1>10, ProversStep DEF RelayInv
<1> QED
  BY <1>3, <1>10, <1>11, OthersKeep DEF RelayInv

LEMMA StoreProofInv ==
    ASSUME RelayInv, NEW w \in Prover, NEW l \in Lock, StoreProof(w, l)
    PROVE  RelayInv'
<1> DEFINE r == [prover[w] EXCEPT !.pc = "status", !.lock = l]
<1>1. prover[w].pc = "proof" /\ prover[w] \in ProverRec /\ ProverOK(prover[w], Indexed(status))
  BY DEF StoreProof, RelayInv, ProversInv
<1>2. prover' = [prover EXCEPT ![w] = r]
  BY DEF StoreProof, RelayInv, ProversInv
<1>3. /\ proofRow' = [proofRow EXCEPT ![l] = prover[w].root] /\ l \in prover[w].todo
      /\ UNCHANGED <<status, rootRow, submitted, queueVars, chainVars, seen, sender, mempool>>
  BY DEF StoreProof, rowFrame
<1>4. prover[w].root \subseteq Lock
  BY <1>1 DEF ProverRec
<1>5. l \in Indexed(status)
  BY <1>1, <1>3 DEF ProverOK, RootOK
<1>6. /\ r \in ProverRec /\ r.pc = "status" /\ r.lock = l /\ r.job = prover[w].job
      /\ r.root = prover[w].root /\ r.todo = prover[w].todo
  BY <1>1 DEF ProverRec, ProverStep
<1>7. ProverOK(r, Indexed(status))
  BY <1>1, <1>5, <1>6 DEF ProverOK
<1> HIDE DEF r
<1>8. WorldInv' /\ RowsGrow /\ status' = status
  BY <1>3, <1>4 DEF RelayInv, WorldInv, queueVars, chainVars, Indexed, RowsGrow,
     RootLocksRecorded, RootsWhole, RowsNeverAhead
<1>9. ProversInv'
  BY <1>2, <1>6, <1>7, <1>8, ProversStep DEF RelayInv
<1> QED
  BY <1>3, <1>8, <1>9, OthersKeep DEF RelayInv

LEMMA MarkProvenInv ==
    ASSUME RelayInv, NEW w \in Prover, MarkProven(w)
    PROVE  RelayInv'
<1> DEFINE p == prover[w]
           todo == p.todo \ {p.lock}
           r == [p EXCEPT !.pc = IF todo = {} THEN "root" ELSE "proof", !.todo = todo]
<1>1. p.pc = "status" /\ p \in ProverRec /\ ProverOK(p, Indexed(status))
  BY DEF MarkProven, RelayInv, ProversInv
<1>2. prover' = [prover EXCEPT ![w] = r]
  BY DEF MarkProven, RelayInv, ProversInv
<1>3. /\ status' = [status EXCEPT ![p.lock] = "proof_generated"]
      /\ UNCHANGED <<proofRow, rootRow, submitted, queueVars, chainVars, seen, sender, mempool>>
  BY DEF MarkProven, rowFrame, Proven
<1>4. p.lock \in Indexed(status) /\ p.lock \in Lock
  BY <1>1 DEF ProverOK, Indexed
<1>5. /\ r \in ProverRec /\ r.pc \in {"root", "proof"} /\ r.job = p.job
      /\ r.root = p.root /\ r.todo \subseteq p.todo
  BY <1>1 DEF ProverRec, ProverStep
<1> HIDE DEF r, p
<1>6. status' \in [Lock -> {None} \cup Statuses]
  BY <1>3 DEF RelayInv, WorldInv, Statuses
<1>7. RowsGrow
  BY <1>3, <1>4 DEF RelayInv, WorldInv, RowsGrow, Indexed, None
<1>8. \A l \in Lock : status'[l] = "unlocked" => l \in unlocked
  BY <1>3 DEF RelayInv, WorldInv, RowsNeverAhead
<1>9. WorldInv'
  <2>1. seen \subseteq seen' /\ seen' \subseteq unlocked
    BY <1>3 DEF RelayInv, WorldInv
  <2> QED
    BY <1>3, <1>6, <1>7, <1>8, <2>1, StatusStep DEF RelayInv, queueVars
<1>10. ProverOK(r, Indexed(status'))
  <2>1. ProverOK(r, Indexed(status))
    BY <1>1, <1>5 DEF ProverOK
  <2> QED
    BY <2>1, <1>7, ProverGrows DEF RowsGrow
<1>11. ProversInv'
  BY <1>2, <1>5, <1>7, <1>10, ProversStep DEF RelayInv
<1> QED
  BY <1>3, <1>7, <1>9, <1>11, OthersKeep DEF RelayInv

LEMMA StoreRootInv ==
    ASSUME RelayInv, NEW w \in Prover, StoreRoot(w)
    PROVE  RelayInv'
<1> DEFINE p == prover[w]
           r == [p EXCEPT !.pc = "enqueue"]
<1>1. p.pc = "root" /\ p \in ProverRec /\ ProverOK(p, Indexed(status))
  BY DEF StoreRoot, RelayInv, ProversInv
<1>2. prover' = [prover EXCEPT ![w] = r]
  BY DEF StoreRoot, RelayInv, ProversInv
<1>3. /\ rootRow' = [rootRow EXCEPT ![BlockOf[p.job]] = p.root]
      /\ UNCHANGED <<status, proofRow, submitted, queueVars, chainVars, seen, sender, mempool>>
  BY DEF StoreRoot, rowFrame
<1>4. p.root \subseteq Lock /\ RootOK(p.root, BlockOf[p.job], Indexed(status))
  BY <1>1 DEF ProverRec, ProverOK
<1>5. r \in ProverRec /\ r.pc = "enqueue" /\ r.job = p.job /\ r.root = p.root /\ r.todo = p.todo
  BY <1>1 DEF ProverRec, ProverStep
<1>6. ProverOK(r, Indexed(status))
  BY <1>1, <1>5 DEF ProverOK
<1> HIDE DEF r, p
<1>7. rootRow' \in [SourceBlock -> SUBSET Lock]
      /\ \A b \in SourceBlock : rootRow'[b] # {} => RootOK(rootRow'[b], b, Indexed(status))
  BY <1>3, <1>4 DEF RelayInv, WorldInv
<1>8. WorldInv' /\ RowsGrow /\ status' = status
  BY <1>3, <1>7 DEF RelayInv, WorldInv, queueVars, chainVars, Indexed, RowsGrow,
     RootLocksRecorded, RootsWhole, RowsNeverAhead
<1>9. ProversInv'
  BY <1>2, <1>5, <1>6, <1>8, ProversStep DEF RelayInv
<1> QED
  BY <1>3, <1>8, <1>9, OthersKeep DEF RelayInv

LEMMA IdleProverOK == IdleProver \in ProverRec /\ \A rows : ProverOK(IdleProver, rows)
BY RelayAssumption DEF IdleProver, ProverRec, ProverStep, ProverOK

LEMMA AddRootJobInv ==
    ASSUME RelayInv, NEW w \in Prover, AddRootJob(w)
    PROVE  RelayInv'
<1> DEFINE p == prover[w]
           job == [from |-> p.job, root |-> p.root, left |-> RootAttempts]
<1>1. p.pc = "enqueue" /\ p \in ProverRec /\ ProverOK(p, Indexed(status))
  BY DEF AddRootJob, RelayInv, ProversInv
<1>2. prover' = [prover EXCEPT ![w] = IdleProver]
  BY DEF AddRootJob, ProverReturns
<1>3. /\ rootJobs' = rootJobs \cup {job} /\ JobDone(p.job)
      /\ UNCHANGED <<rowVars, chainVars, seen, sender, mempool>>
  BY DEF AddRootJob
<1>4. p.job \in Lock /\ p.root \subseteq Lock /\ RootOK(p.root, BlockOf[p.job], Indexed(status))
  BY <1>1 DEF ProverRec, ProverOK
<1>5. job \in RootJob /\ job.root = p.root /\ job.from = p.job
  BY <1>4 DEF RootJob, RootAttempts
<1> HIDE DEF job, p
<1>6. rootJobs' \subseteq RootJob
      /\ \A j \in rootJobs' : RootOK(j.root, BlockOf[j.from], Indexed(status))
  BY <1>3, <1>4, <1>5 DEF RelayInv, WorldInv
<1>7. WorldInv' /\ RowsGrow
  BY <1>3, <1>4, <1>6, JobDoneType, JobStep DEF RelayInv
<1>8. ProversInv'
  BY <1>2, <1>7, IdleProverOK, ProversStep DEF RelayInv
<1> QED
  BY <1>3, <1>7, <1>8, OthersKeep DEF RelayInv

LEMMA ProverFailsInv ==
    ASSUME RelayInv, NEW w \in Prover, ProverFails(w)
    PROVE  RelayInv'
<1> DEFINE l == prover[w].job
           again == Retried(proofJob[l])
<1>1. l \in Lock /\ l \in Indexed(status)
  BY DEF ProverFails, RelayInv, ProversInv, ProverOK
<1>2. prover' = [prover EXCEPT ![w] = IdleProver]
  BY DEF ProverFails, ProverReturns
<1>3. /\ proofJob' = [proofJob EXCEPT ![l] = again]
      /\ UNCHANGED <<rowVars, rootJobs, chainVars, seen, sender, mempool>>
  BY DEF ProverFails
<1>4. again \in [state: {None, "waiting", "active", "done", "failed"}, left: Int]
  BY <1>1 DEF Retried, RelayInv, WorldInv
<1> HIDE DEF l, again
<1>5. /\ proofJob' \in [Lock -> [state: {None, "waiting", "active", "done", "failed"}, left: Int]]
      /\ \A k \in Lock : proofJob'[k].state = "waiting" => k \in Indexed(status)
  BY <1>1, <1>3, <1>4 DEF RelayInv, WorldInv
<1>6. WorldInv' /\ RowsGrow
  BY <1>3, <1>5, JobStep DEF RelayInv, WorldInv
<1>7. ProversInv'
  BY <1>2, <1>6, IdleProverOK, ProversStep DEF RelayInv
<1> QED
  BY <1>3, <1>6, <1>7, OthersKeep DEF RelayInv

------------------------------------------------------------------------------
\* The relayer.

LEMMA IdleSenderOK ==
    IdleSender \in SenderRec /\ \A rows, roots, done : SenderOK(IdleSender, rows, roots, done)
BY RelayAssumption DEF IdleSender, SenderRec, SenderStep, SenderOK

\* A snapshot of the monitor loop has a first root.
LEMMA FirstPending ==
    ASSUME NEW plan, plan \subseteq Pending, plan # {}
    PROVE  \E p \in plan : \A q \in plan : p.block <= q.block
<1> DEFINE B == {p.block : p \in plan}
           R == {r \in Nat \X Nat : r[1] < r[2]}
<1>1. \A p \in plan : p.block \in Nat
  BY RelayAssumption DEF Pending
<1>2. B \subseteq Nat
  BY <1>1
<1>3. B # {}
  OBVIOUS
<1>4. IsWellFoundedOn(R, Nat)
  BY NatLessThanWellFounded DEF OpToRel
<1> HIDE DEF R
<1>5. PICK b \in B : \A c \in B : <<c, b>> \notin R
  <2> HIDE DEF B
  <2> QED
    BY <1>2, <1>3, <1>4, WFMin
<1>6. PICK p \in plan : p.block = b
  OBVIOUS
<1>7. ASSUME NEW q \in plan PROVE p.block <= q.block
  <2>1. q.block \in B
    OBVIOUS
  <2>2. <<q.block, p.block>> \notin R
    BY <2>1, <1>5, <1>6
  <2> QED
    BY <2>2, <1>1 DEF R
<1> QED
  BY <1>7

\* submitBlockRoot is called for a block and a root.
LEMMA StartsFields ==
    ASSUME NEW p, p.block \in SourceBlock, p.root \subseteq Lock
    PROVE  /\ Starts(p) \in SenderRec
           /\ Starts(p).pc = "check" /\ Starts(p).block = p.block /\ Starts(p).root = p.root
           /\ Starts(p).job = NoJob /\ Starts(p).plan = {}
<1>1. IdleSender \in SenderRec /\ IdleSender.job = NoJob /\ IdleSender.plan = {}
  BY IdleSenderOK DEF IdleSender
<1> QED
  BY <1>1 DEF Starts, SenderRec, SenderStep

\* A monitor loop turns to the next root of its snapshot, or rests.
LEMMA StartsFirstOK ==
    ASSUME NEW plan \in SUBSET Pending, NEW rows, NEW roots, NEW done,
           \A q \in plan : RootOK(q.root, q.block, rows)
    PROVE  StartsFirst(plan) \in SenderRec /\ SenderOK(StartsFirst(plan), rows, roots, done)
<1>1. CASE plan = {}
  BY <1>1, IdleSenderOK DEF StartsFirst
<1>2. CASE plan # {}
  <2> DEFINE first == CHOOSE p \in plan : \A q \in plan : p.block <= q.block
  <2>1. first \in plan
    BY <1>2, FirstPending
  <2>2. StartsFirst(plan) = [Starts(first) EXCEPT !.plan = plan \ {first}]
    BY <1>2 DEF StartsFirst
  <2> HIDE DEF first
  <2>3. first.block \in SourceBlock /\ first.root \subseteq Lock /\ plan \ {first} \in SUBSET Pending
    BY <2>1 DEF Pending
  <2>4. RootOK(first.root, first.block, rows) /\ \A q \in plan \ {first} : RootOK(q.root, q.block, rows)
    BY <2>1
  <2> DEFINE a == Starts(first)
             r == [a EXCEPT !.plan = plan \ {first}]
  <2>5. /\ a \in SenderRec /\ a.pc = "check" /\ a.block = first.block /\ a.root = first.root
        /\ a.job = NoJob
    BY <2>3, StartsFields
  <2> HIDE DEF a
  <2>6. /\ r \in SenderRec /\ r.pc = "check" /\ r.block = first.block /\ r.root = first.root
        /\ r.job = NoJob /\ r.plan = plan \ {first}
    BY <2>3, <2>5 DEF SenderRec
  <2> HIDE DEF r
  <2>7. SenderOK(r, rows, roots, done)
    BY <2>3, <2>4, <2>6 DEF SenderOK
  <2> QED
    BY <2>2, <2>6, <2>7 DEF r, a
<1> QED
  BY <1>1, <1>2

\* What a call returns to.
LEMMA ReturnsOK ==
    ASSUME RelayInv, NEW s \in Worker
    PROVE  Returns(s) \in SenderRec /\ SenderOK(Returns(s), Indexed(status), chainRoot, unlocked)
<1>1. sender[s].plan \in SUBSET Pending
      /\ \A q \in sender[s].plan : RootOK(q.root, q.block, Indexed(status))
  BY DEF RelayInv, SendersInv, SenderOK, SenderRec
<1> QED
  BY <1>1, StartsFirstOK DEF Returns

\* A call that does not wait, seen by the steps below.
LEMMA SenderFacts ==
    ASSUME RelayInv, NEW s \in Worker
    PROVE  /\ sender[s] \in SenderRec
           /\ SenderOK(sender[s], Indexed(status), chainRoot, unlocked)
           /\ sender[s].pc \in SenderStep
           /\ sender[s].todo \subseteq Lock
BY DEF RelayInv, SendersInv, SenderRec

\* The call goes on with another lock, or returns.
Onward(s, todo) ==
    IF todo = {} THEN Returns(s)
    ELSE [sender[s] EXCEPT !.pc = "proof", !.todo = todo, !.root = {}]

LEMMA OnwardOK ==
    ASSUME RelayInv, NEW s \in Worker, sender[s].pc # "idle", NEW todo \in SUBSET Lock
    PROVE  /\ NextUnlock(s, todo) = [sender EXCEPT ![s] = Onward(s, todo)]
           /\ Onward(s, todo) \in SenderRec
           /\ SenderOK(Onward(s, todo), Indexed(status), chainRoot, unlocked)
<1> DEFINE r == [sender[s] EXCEPT !.pc = "proof", !.todo = todo, !.root = {}]
<1>1. sender \in [Worker -> SenderRec]
  BY DEF RelayInv, SendersInv
<1>2. NextUnlock(s, todo) = [sender EXCEPT ![s] = Onward(s, todo)]
  BY <1>1 DEF NextUnlock, Onward
<1>3. r \in SenderRec /\ r.pc = "proof" /\ r.job = sender[s].job /\ r.plan = sender[s].plan
      /\ r.block = sender[s].block
  BY <1>1 DEF SenderRec, SenderStep
<1> HIDE DEF r
<1>4. SenderOK(r, Indexed(status), chainRoot, unlocked)
  BY <1>3, SenderFacts DEF SenderOK
<1>5. CASE todo = {}
  BY <1>2, <1>5, ReturnsOK DEF Onward
<1>6. CASE todo # {}
  BY <1>2, <1>3, <1>4, <1>6 DEF Onward, r
<1> QED
  BY <1>5, <1>6

LEMMA TakeRootJobInv ==
    ASSUME RelayInv, NEW s \in Sender, NEW job \in rootJobs, TakeRootJob(s, job)
    PROVE  RelayInv'
<1> DEFINE b == BlockOf[job.from]
           a == Starts([block |-> b, root |-> job.root])
           r == [a EXCEPT !.job = job]
<1>1. job \in RootJob /\ job.root \subseteq Lock /\ b \in SourceBlock
      /\ RootOK(job.root, b, Indexed(status))
  BY RelayAssumption DEF RelayInv, WorldInv, RootJob
<1>2. s \in Worker /\ ~Waiting(s)
  BY DEF TakeRootJob, Worker, Waiting
<1>3. /\ sender' = [sender EXCEPT ![s] = r]
      /\ rootJobs' = rootJobs \ {job}
      /\ UNCHANGED <<rowVars, proofJob, prover, chainVars, mempool, seen>>
  BY DEF TakeRootJob
<1> HIDE DEF b
<1>4. a \in SenderRec /\ a.pc = "check" /\ a.block = b /\ a.root = job.root /\ a.plan = {}
  BY <1>1, StartsFields
<1> HIDE DEF a
<1>5. /\ r \in SenderRec /\ r.pc = "check" /\ r.block = b /\ r.root = job.root
      /\ r.job = job /\ r.plan = {}
  BY <1>1, <1>4 DEF SenderRec
<1> HIDE DEF r
<1>6. SenderOK(r, Indexed(status), chainRoot, unlocked)
  BY <1>1, <1>5 DEF SenderOK, b
<1>7. WorldInv' /\ RowsGrow
  BY <1>3, JobStep DEF RelayInv, WorldInv
<1>8. Grows /\ UNCHANGED <<status, chainRoot, unlocked>>
  BY <1>3, <1>7 DEF Grows, RootsGrow, rowVars, chainVars
<1>9. ProversInv'
  BY <1>3, <1>7, ProversKeep DEF RelayInv
<1>10. SendersInv'
  <2>1. SenderOK(r, Indexed(status'), chainRoot', unlocked')
    BY <1>6, <1>8
  <2> QED
    BY <1>2, <1>3, <1>5, <1>8, <2>1, SendersStep DEF RelayInv
<1>11. TxInv'
  BY <1>2, <1>3, TxStep DEF RelayInv
<1> QED
  BY <1>7, <1>9, <1>10, <1>11 DEF RelayInv

LEMMA PollPendingInv ==
    ASSUME RelayInv, NEW m \in Monitor, PollPending(m)
    PROVE  RelayInv'
<1> DEFINE plan == {[block |-> b, root |-> rootRow[b]] :
                      b \in {c \in SourceBlock : rootRow[c] # {} /\ ~submitted[c]}}
           r == StartsFirst(plan)
<1>1. m \in Worker /\ ~Waiting(m)
  BY DEF PollPending, Worker, Waiting
<1>2. sender' = [sender EXCEPT ![m] = r] /\ sendFrame' = sendFrame /\ UNCHANGED mempool
  BY DEF PollPending
<1>3. \A p \in plan : p \in Pending /\ RootOK(p.root, p.block, Indexed(status))
  BY DEF RelayInv, WorldInv, Pending
<1>4. plan \in SUBSET Pending
  BY <1>3
<1> HIDE DEF plan
<1>5. r \in SenderRec /\ SenderOK(r, Indexed(status), chainRoot, unlocked)
  BY <1>3, <1>4, StartsFirstOK
<1> HIDE DEF r
<1> QED
  BY <1>1, <1>2, <1>5, SenderMoves

\* The steps of submitBlockRoot and processUnlocksForBlock that change the local
\* variables of their call only.
LEMMA CheckChainInv ==
    ASSUME RelayInv, NEW s \in Worker, CheckChain(s)
    PROVE  RelayInv'
<1> DEFINE p == sender[s]
           a == [p EXCEPT !.pc = "format"]
           b == [p EXCEPT !.pc = "mark", !.how = "onChain"]
           r == IF chainRoot[p.block] = {} THEN a ELSE b
<1>1. p.pc = "check" /\ p \in SenderRec /\ SenderOK(p, Indexed(status), chainRoot, unlocked)
  BY SenderFacts DEF CheckChain
<1>2. sender' = [sender EXCEPT ![s] = r] /\ sendFrame' = sendFrame /\ UNCHANGED mempool
  BY DEF CheckChain, RelayInv, SendersInv
<1>3. a \in SenderRec /\ a.pc = "format" /\ a.job = p.job /\ a.plan = p.plan
      /\ a.block = p.block /\ a.root = p.root
  BY <1>1 DEF SenderRec, SenderStep
<1>4. b \in SenderRec /\ b.pc = "mark" /\ b.job = p.job /\ b.plan = p.plan
      /\ b.block = p.block /\ b.root = p.root
  BY <1>1 DEF SenderRec, SenderStep
<1>5. ~Waiting(s)
  BY <1>1 DEF Waiting
<1> HIDE DEF a, b, p
<1>6. r \in SenderRec /\ SenderOK(r, Indexed(status), chainRoot, unlocked)
  BY <1>1, <1>3, <1>4 DEF SenderOK
<1> HIDE DEF r
<1> QED
  BY <1>2, <1>5, <1>6, SenderMoves

LEMMA FormatLocksInv ==
    ASSUME RelayInv, NEW s \in Worker, FormatLocks(s)
    PROVE  RelayInv'
<1> DEFINE p == sender[s]
           locks == Rows(p.block)
           r == [p EXCEPT !.pc = "send", !.locks = locks]
<1>1. p.pc = "format" /\ p \in SenderRec /\ SenderOK(p, Indexed(status), chainRoot, unlocked)
  BY SenderFacts DEF FormatLocks
<1>2. sender' = [sender EXCEPT ![s] = r] /\ sendFrame' = sendFrame /\ UNCHANGED mempool
  BY DEF FormatLocks, RelayInv, SendersInv
<1>3. locks = LocksOf(p.block) \cap Indexed(status) /\ locks \subseteq Lock
  BY RowsIndexed DEF Indexed
<1>4. p.root \subseteq locks
  BY <1>1, <1>3 DEF SenderOK, RootOK
<1> HIDE DEF locks
<1>5. r \in SenderRec /\ r.pc = "send" /\ r.job = p.job /\ r.plan = p.plan
      /\ r.block = p.block /\ r.root = p.root /\ r.locks = locks
  BY <1>1, <1>3 DEF SenderRec, SenderStep
<1>6. ~Waiting(s)
  BY <1>1 DEF Waiting
<1> HIDE DEF r, p
<1>7. SenderOK(r, Indexed(status), chainRoot, unlocked)
  BY <1>1, <1>4, <1>5 DEF SenderOK
<1> QED
  BY <1>2, <1>5, <1>6, <1>7, SenderMoves

LEMMA RootConfirmedInv ==
    ASSUME RelayInv, NEW s \in Worker, RootConfirmed(s)
    PROVE  RelayInv'
<1> DEFINE p == sender[s]
           r == [p EXCEPT !.pc = "mark"]
<1>1. p.pc = "mined" /\ p \in SenderRec /\ SenderOK(p, Indexed(status), chainRoot, unlocked)
  BY SenderFacts DEF RootConfirmed
<1>2. sender' = [sender EXCEPT ![s] = r] /\ sendFrame' = sendFrame /\ UNCHANGED mempool
  BY DEF RootConfirmed, RelayInv, SendersInv
<1>3. r \in SenderRec /\ r.pc = "mark" /\ r.job = p.job /\ r.plan = p.plan /\ r.block = p.block
  BY <1>1 DEF SenderRec, SenderStep
<1>4. ~Waiting(s)
  BY <1>1 DEF Waiting
<1> HIDE DEF r, p
<1>5. SenderOK(r, Indexed(status), chainRoot, unlocked)
  BY <1>1, <1>3 DEF SenderOK
<1> QED
  BY <1>2, <1>3, <1>4, <1>5, SenderMoves

LEMMA UnlockConfirmedInv ==
    ASSUME RelayInv, NEW s \in Worker, UnlockConfirmed(s)
    PROVE  RelayInv'
<1> DEFINE p == sender[s]
           r == [p EXCEPT !.pc = "unlockStatus"]
<1>1. p.pc = "unlockMined" /\ p \in SenderRec /\ SenderOK(p, Indexed(status), chainRoot, unlocked)
  BY SenderFacts DEF UnlockConfirmed
<1>2. sender' = [sender EXCEPT ![s] = r] /\ sendFrame' = sendFrame /\ UNCHANGED mempool
  BY DEF UnlockConfirmed, RelayInv, SendersInv
<1>3. r \in SenderRec /\ r.pc = "unlockStatus" /\ r.job = p.job /\ r.plan = p.plan
      /\ r.block = p.block /\ r.lock = p.lock
  BY <1>1 DEF SenderRec, SenderStep
<1>4. ~Waiting(s)
  BY <1>1 DEF Waiting
<1> HIDE DEF r, p
<1>5. SenderOK(r, Indexed(status), chainRoot, unlocked)
  BY <1>1, <1>3 DEF SenderOK
<1> QED
  BY <1>2, <1>3, <1>4, <1>5, SenderMoves

\* A call goes on with the locks in todo.
LEMMA OnwardInv ==
    ASSUME RelayInv, NEW s \in Worker, sender[s].pc # "idle", ~Waiting(s), NEW todo \in SUBSET Lock,
           sender' = NextUnlock(s, todo), sendFrame' = sendFrame, UNCHANGED mempool
    PROVE  RelayInv'
<1> DEFINE r == Onward(s, todo)
<1>1. r \in SenderRec /\ SenderOK(r, Indexed(status), chainRoot, unlocked)
      /\ sender' = [sender EXCEPT ![s] = r]
  BY OnwardOK
<1> HIDE DEF r
<1> QED
  BY <1>1, SenderMoves

LEMMA ReadUnlockRowsInv ==
    ASSUME RelayInv, NEW s \in Worker, ReadUnlockRows(s)
    PROVE  RelayInv'
<1>1. ToUnlock(sender[s].block) \in SUBSET Lock
  BY DEF ToUnlock, Rows, LocksOf
<1>2. sender[s].pc # "idle" /\ ~Waiting(s) /\ sendFrame' = sendFrame /\ UNCHANGED mempool
      /\ sender' = NextUnlock(s, ToUnlock(sender[s].block))
  BY DEF ReadUnlockRows, Waiting
<1> QED
  BY <1>1, <1>2, OnwardInv

LEMMA UnlockRevertedInv ==
    ASSUME RelayInv, NEW s \in Worker, UnlockReverted(s)
    PROVE  RelayInv'
<1>1. sender[s].todo \ {sender[s].lock} \in SUBSET Lock
  BY SenderFacts
<1>2. sender[s].pc # "idle" /\ ~Waiting(s) /\ sendFrame' = sendFrame /\ UNCHANGED mempool
      /\ sender' = NextUnlock(s, sender[s].todo \ {sender[s].lock})
  BY DEF UnlockReverted, Waiting
<1> QED
  BY <1>1, <1>2, OnwardInv

LEMMA GetProofInv ==
    ASSUME RelayInv, NEW s \in Worker, NEW l \in Lock, GetProof(s, l)
    PROVE  RelayInv'
<1> DEFINE p == sender[s]
           r == [p EXCEPT !.pc = "unlock", !.lock = l, !.root = proofRow[l]]
<1>1. p.pc = "proof" /\ p \in SenderRec /\ SenderOK(p, Indexed(status), chainRoot, unlocked)
      /\ p.todo \subseteq Lock
  BY SenderFacts DEF GetProof
<1>2. ~Waiting(s) /\ p.pc # "idle" /\ sendFrame' = sendFrame /\ UNCHANGED mempool
  BY <1>1 DEF GetProof, Waiting
<1>3. CASE proofRow[l] = {}
  <2>1. sender' = NextUnlock(s, p.todo \ {l}) /\ p.todo \ {l} \in SUBSET Lock
    BY <1>1, <1>3 DEF GetProof
  <2> QED
    BY <1>2, <2>1, OnwardInv
<1>4. CASE proofRow[l] # {}
  <2>1. sender' = [sender EXCEPT ![s] = r]
    BY <1>4 DEF GetProof, RelayInv, SendersInv
  <2>2. proofRow[l] \subseteq Lock
    BY DEF RelayInv, WorldInv
  <2>3. r \in SenderRec /\ r.pc = "unlock" /\ r.job = p.job /\ r.plan = p.plan
        /\ r.block = p.block /\ r.lock = l
    BY <1>1, <2>2 DEF SenderRec, SenderStep
  <2> HIDE DEF r, p
  <2>4. SenderOK(r, Indexed(status), chainRoot, unlocked)
    BY <1>1, <2>3 DEF SenderOK
  <2> QED
    BY <1>2, <2>1, <2>3, <2>4, SenderMoves
<1> QED
  BY <1>3, <1>4

------------------------------------------------------------------------------
\* Transactions.

\* A sender sends one and waits for it.
LEMMA TxSent ==
    ASSUME TxInv, SendersInv, NEW s \in Worker, ~Waiting(s), NEW r, NEW tx,
           tx \in RootTx \cup UnlockTx, tx.by = s, Waits(r, tx),
           tx.kind = "root" => Carries(tx),
           sender' = [sender EXCEPT ![s] = r], mempool' = mempool \cup {tx}
    PROVE  TxInv'
<1>1. \A ty \in mempool : ty.by # s
  BY DEF TxInv, Waits, Waiting
<1>2. sender'[s] = r /\ \A v \in Worker : v # s => sender'[v] = sender[v]
  BY DEF SendersInv
<1>3. \A ty \in mempool : ty.by \in Worker => Waits(sender'[ty.by], ty)
  BY <1>1, <1>2 DEF TxInv
<1>4. \A ty \in mempool' : ty.by \in Worker => Waits(sender'[ty.by], ty)
  BY <1>2, <1>3
<1>5. \A v \in Worker, tz, ty \in mempool' : tz.by = v /\ ty.by = v => tz = ty
  BY <1>1 DEF TxInv
<1>6. mempool' \subseteq RootTx \cup UnlockTx
  BY DEF TxInv
<1>7. \A ty \in mempool' : ty.kind = "root" => Carries(ty)
  BY DEF TxInv
<1> QED
  BY <1>4, <1>5, <1>6, <1>7 DEF TxInv

\* A sender sends one: the rest of the invariant.
LEMMA SendInv ==
    ASSUME RelayInv, NEW s \in Worker, NEW r \in SenderRec,
           sender' = [sender EXCEPT ![s] = r], sendFrame' = sendFrame,
           SenderOK(r, Indexed(status), chainRoot, unlocked), TxInv'
    PROVE  RelayInv'
<1>1. WorldInv' /\ Grows /\ UNCHANGED <<status, chainRoot, unlocked, prover>>
  BY WorldKeep DEF RelayInv, sendFrame, rowVars, chainVars
<1>2. ProversInv'
  BY <1>1, ProversKeep DEF RelayInv, Grows
<1>3. SenderOK(r, Indexed(status'), chainRoot', unlocked')
  BY <1>1
<1>4. SendersInv'
  BY <1>1, <1>3, SendersStep DEF RelayInv
<1> QED
  BY <1>1, <1>2, <1>4 DEF RelayInv

LEMMA SendRootInv ==
    ASSUME RelayInv, NEW s \in Worker, SendRoot(s)
    PROVE  RelayInv'
<1> DEFINE p == sender[s]
           a == [p EXCEPT !.pc = "mark", !.how = "known"]
           r == [p EXCEPT !.pc = "wait"]
           tx == [by |-> s, kind |-> "root", block |-> p.block, root |-> p.root, locks |-> p.locks]
<1>1. p.pc = "send" /\ p \in SenderRec /\ SenderOK(p, Indexed(status), chainRoot, unlocked)
      /\ sendFrame' = sendFrame
  BY SenderFacts DEF SendRoot
<1>2. ~Waiting(s)
  BY <1>1 DEF Waiting
<1>3. CASE chainRoot[p.block] # {}
  <2>1. sender' = [sender EXCEPT ![s] = a] /\ UNCHANGED mempool
    BY <1>3 DEF SendRoot, RelayInv, SendersInv
  <2>2. a \in SenderRec /\ a.pc = "mark" /\ a.job = p.job /\ a.plan = p.plan /\ a.block = p.block
    BY <1>1 DEF SenderRec, SenderStep
  <2> HIDE DEF a, p
  <2>3. SenderOK(a, Indexed(status), chainRoot, unlocked)
    BY <1>1, <1>3, <2>2 DEF SenderOK
  <2> QED
    BY <1>1, <1>2, <2>1, <2>2, <2>3, SenderMoves
<1>4. CASE chainRoot[p.block] = {}
  <2>1. sender' = [sender EXCEPT ![s] = r] /\ mempool' = mempool \cup {tx}
    BY <1>4 DEF SendRoot, RelayInv, SendersInv, RootToSend
  <2>2. r \in SenderRec /\ r.pc = "wait" /\ r.job = p.job /\ r.plan = p.plan /\ r.block = p.block
    BY <1>1 DEF SenderRec, SenderStep
  <2>3. p.block \in SourceBlock /\ p.root \subseteq Lock /\ p.locks \subseteq Lock
        /\ p.root # {} /\ p.root \subseteq p.locks /\ (WholeBlocks => p.root = LocksOf(p.block))
    BY <1>1 DEF SenderRec, SenderOK, RootOK
  <2>4. tx \in RootTx /\ tx.by = s /\ tx.kind = "root" /\ tx.block = p.block
        /\ Carries(tx)
    BY <2>3 DEF RootTx, Carries
  <2> HIDE DEF r, p, tx
  <2>5. SenderOK(r, Indexed(status), chainRoot, unlocked)
    BY <1>1, <2>2 DEF SenderOK
  <2>6. Waits(r, tx)
    BY <2>2, <2>4 DEF Waits
  <2>7. TxInv'
    BY <1>2, <2>1, <2>4, <2>6, TxSent DEF RelayInv
  <2> QED
    BY <1>1, <2>1, <2>2, <2>5, <2>7, SendInv
<1> QED
  BY <1>3, <1>4

LEMMA SendUnlockInv ==
    ASSUME RelayInv, NEW s \in Worker, SendUnlock(s)
    PROVE  RelayInv'
<1> DEFINE p == sender[s]
           l == p.lock
           a == [p EXCEPT !.pc = "unlockKnown"]
           r == [p EXCEPT !.pc = "unlockWait"]
           tx == [by |-> s, kind |-> "unlock", lock |-> l, root |-> p.root]
<1>1. p.pc = "unlock" /\ p \in SenderRec /\ SenderOK(p, Indexed(status), chainRoot, unlocked)
      /\ sendFrame' = sendFrame /\ p.todo \subseteq Lock
  BY SenderFacts DEF SendUnlock
<1>2. ~Waiting(s)
  BY <1>1 DEF Waiting
<1>3. CASE Unlockable(l, p.root)
  <2>1. sender' = [sender EXCEPT ![s] = r] /\ mempool' = mempool \cup {tx}
    BY <1>3 DEF SendUnlock, RelayInv, SendersInv
  <2>2. r \in SenderRec /\ r.pc = "unlockWait" /\ r.job = p.job /\ r.plan = p.plan
        /\ r.block = p.block /\ r.lock = l
    BY <1>1 DEF SenderRec, SenderStep
  <2>3. l \in Lock /\ p.root \subseteq Lock
    BY <1>1 DEF SenderRec, SenderOK
  <2>4. tx \in UnlockTx /\ tx.by = s /\ tx.kind = "unlock" /\ tx.lock = l
    BY <2>3 DEF UnlockTx
  <2> HIDE DEF r, p, tx, l
  <2>5. SenderOK(r, Indexed(status), chainRoot, unlocked)
    BY <1>1, <2>2, <2>3 DEF SenderOK
  <2>6. Waits(r, tx)
    BY <2>2, <2>4 DEF Waits
  <2>7. TxInv'
    BY <1>2, <2>1, <2>4, <2>6, TxSent DEF RelayInv
  <2> QED
    BY <1>1, <2>1, <2>2, <2>5, <2>7, SendInv
<1>4. CASE ~Unlockable(l, p.root) /\ AlreadyProcessed(l)
  <2>1. sender' = [sender EXCEPT ![s] = a] /\ UNCHANGED mempool
    BY <1>4 DEF SendUnlock, RelayInv, SendersInv
  <2>2. a \in SenderRec /\ a.pc = "unlockKnown" /\ a.job = p.job /\ a.plan = p.plan
        /\ a.block = p.block /\ a.lock = l
    BY <1>1 DEF SenderRec, SenderStep
  <2> HIDE DEF a, p, l
  <2>3. SenderOK(a, Indexed(status), chainRoot, unlocked)
    BY <1>1, <1>4, <2>2 DEF SenderOK, AlreadyProcessed
  <2> QED
    BY <1>1, <1>2, <2>1, <2>2, <2>3, SenderMoves
<1>5. CASE ~Unlockable(l, p.root) /\ ~AlreadyProcessed(l)
  <2>1. sender' = NextUnlock(s, p.todo \ {l}) /\ UNCHANGED mempool
    BY <1>5 DEF SendUnlock
  <2>2. p.todo \ {l} \in SUBSET Lock /\ p.pc # "idle"
    BY <1>1
  <2> QED
    BY <1>1, <1>2, <2>1, <2>2, OnwardInv
<1> QED
  BY <1>3, <1>4, <1>5

\* The sender of a mined transaction hears of it.
LEMMA TxMined ==
    ASSUME RelayInv, NEW tx \in mempool, NEW pc \in SenderStep, pc # "idle",
           mempool' = mempool \ {tx}, Notified(tx, pc), Grows,
           tx.by \in Worker =>
               SenderOK([sender[tx.by] EXCEPT !.pc = pc], Indexed(status'), chainRoot', unlocked')
    PROVE  SendersInv' /\ TxInv'
<1>1. tx.by \in Worker \cup {None}
  BY DEF RelayInv, TxInv, RootTx, UnlockTx
<1>2. CASE tx.by = None
  <2>1. sender' = sender
    BY <1>2 DEF Notified
  <2>2. SendersInv'
    BY <2>1, SendersKeep DEF RelayInv
  <2>3. TxInv'
    BY <2>1 DEF RelayInv, TxInv
  <2> QED
    BY <2>2, <2>3
<1>3. CASE tx.by # None
  <2> DEFINE s == tx.by
             r == [sender[s] EXCEPT !.pc = pc]
  <2>1. s \in Worker
    BY <1>1, <1>3
  <2>2. sender' = [sender EXCEPT ![s] = r]
    BY <1>3, <2>1 DEF Notified, RelayInv, SendersInv
  <2>3. r \in SenderRec
    BY <2>1, SenderFacts DEF SenderRec
  <2>4. SenderOK(r, Indexed(status'), chainRoot', unlocked')
    BY <2>1
  <2> HIDE DEF s, r
  <2>5. SendersInv'
    BY <2>1, <2>2, <2>3, <2>4, SendersStep DEF RelayInv
  <2>6. \A ty \in mempool' : ty \in mempool /\ ty.by # s
    BY <2>1 DEF RelayInv, TxInv, s
  <2>7. \A v \in Worker : v # s => sender'[v] = sender[v]
    BY <2>2 DEF RelayInv, SendersInv
  <2>8. \A ty \in mempool' : ty.by \in Worker => Waits(sender'[ty.by], ty)
    BY <2>6, <2>7 DEF RelayInv, TxInv
  <2>9. TxInv'
    BY <2>6, <2>8 DEF RelayInv, TxInv
  <2> QED
    BY <2>5, <2>9
<1> QED
  BY <1>2, <1>3

\* Hearing of it leaves the call right, if it has what its next step relies on.
LEMMA NotifiedOK ==
    ASSUME RelayInv, NEW s \in Worker, sender[s].pc # "idle", Grows,
           NEW pc \in {"mined", "reverted", "unlockMined", "unlockReverted"},
           pc = "mined" => chainRoot'[sender[s].block] # {},
           pc = "unlockMined" => sender[s].lock \in unlocked'
    PROVE  SenderOK([sender[s] EXCEPT !.pc = pc], Indexed(status'), chainRoot', unlocked')
<1> DEFINE p == sender[s]
           r == [p EXCEPT !.pc = pc]
<1>1. p \in SenderRec /\ SenderOK(p, Indexed(status), chainRoot, unlocked)
  BY SenderFacts
<1>2. SenderOK(p, Indexed(status'), chainRoot', unlocked')
  <2> HIDE DEF p
  <2> QED
    BY <1>1, SenderGrows DEF Grows, RowsGrow
<1>3. r.pc = pc /\ r.job = p.job /\ r.plan = p.plan /\ r.block = p.block /\ r.lock = p.lock
  BY <1>1 DEF SenderRec
<1> HIDE DEF r
<1>4. SenderOK(r, Indexed(status'), chainRoot', unlocked')
  BY <1>2, <1>3 DEF SenderOK
<1> QED
  BY <1>4 DEF r

LEMMA MineRootInv ==
    ASSUME RelayInv, NEW tx \in mempool, MineRoot(tx)
    PROVE  RelayInv'
<1>1. tx.kind = "root" /\ mempool' = mempool \ {tx}
      /\ UNCHANGED <<rowVars, queueVars, prover, unlocked, seen>>
  BY DEF MineRoot
<1>2. tx \in RootTx /\ tx.root # {} /\ tx.root \subseteq tx.locks
      /\ (WholeBlocks => tx.root = LocksOf(tx.block))
  BY <1>1 DEF RelayInv, TxInv, UnlockTx, Carries
<1>3. tx.block \in SourceBlock /\ tx.root \subseteq Lock
  BY <1>2 DEF RootTx
<1>4. tx.by \in Worker => sender[tx.by].pc = "wait" /\ sender[tx.by].block = tx.block
  BY <1>1 DEF RelayInv, TxInv, Waits
<1>5. CASE chainRoot[tx.block] = {}
  <2>1. /\ chainRoot' = [chainRoot EXCEPT ![tx.block] = tx.root]
        /\ chainData' = chainData \cup tx.locks
        /\ Notified(tx, "mined")
    BY <1>5 DEF MineRoot
  <2>2. chainRoot' \in [SourceBlock -> SUBSET Lock] /\ chainRoot'[tx.block] # {}
        /\ \A b \in SourceBlock : b # tx.block => chainRoot'[b] = chainRoot[b]
    BY <1>2, <1>3, <2>1 DEF RelayInv, WorldInv
  <2>3. Grows
    BY <1>1, <1>5, <2>2 DEF Grows, RowsGrow, RootsGrow, Indexed, rowVars
  <2>4. WorldInv'
    <3>1. RootLocksRecorded'
      BY <1>2, <1>3, <2>1, <2>2 DEF RelayInv, WorldInv, RootLocksRecorded
    <3>2. RowsNeverAhead'
      BY <1>1, <2>2 DEF RelayInv, WorldInv, RowsNeverAhead, rowVars
    <3>3. WholeBlocks => RootsWhole'
      BY <1>2, <1>3, <2>1, <2>2 DEF RelayInv, WorldInv, RootsWhole
    <3> QED
      BY <1>1, <2>2, <3>1, <3>2, <3>3 DEF RelayInv, WorldInv, rowVars, queueVars, Indexed
  <2>5. tx.by \in Worker =>
          SenderOK([sender[tx.by] EXCEPT !.pc = "mined"], Indexed(status'), chainRoot', unlocked')
    BY <1>4, <2>2, <2>3, NotifiedOK
  <2>6. SendersInv' /\ TxInv'
    BY <1>1, <2>1, <2>3, <2>5, TxMined DEF SenderStep
  <2> QED
    BY <1>1, <2>3, <2>4, <2>6, ProversKeep DEF RelayInv, Grows
<1>6. CASE chainRoot[tx.block] # {}
  <2>1. Notified(tx, "reverted") /\ UNCHANGED <<chainRoot, chainData>>
    BY <1>6 DEF MineRoot
  <2>2. WorldInv' /\ Grows
    BY <1>1, <2>1, WorldKeep DEF RelayInv, chainVars
  <2>3. tx.by \in Worker =>
          SenderOK([sender[tx.by] EXCEPT !.pc = "reverted"], Indexed(status'), chainRoot', unlocked')
    BY <1>4, <2>2, NotifiedOK
  <2>4. SendersInv' /\ TxInv'
    BY <1>1, <2>1, <2>2, <2>3, TxMined DEF SenderStep
  <2> QED
    BY <1>1, <2>2, <2>4, ProversKeep DEF RelayInv, Grows
<1> QED
  BY <1>5, <1>6

LEMMA MineUnlockInv ==
    ASSUME RelayInv, NEW tx \in mempool, MineUnlock(tx)
    PROVE  RelayInv'
<1>1. tx.kind = "unlock" /\ mempool' = mempool \ {tx}
      /\ UNCHANGED <<rowVars, queueVars, prover, chainRoot, chainData, seen>>
  BY DEF MineUnlock
<1>2. tx \in UnlockTx /\ tx.lock \in Lock
  BY <1>1 DEF RelayInv, TxInv, UnlockTx, RootTx
<1>3. tx.by \in Worker => sender[tx.by].pc = "unlockWait" /\ sender[tx.by].lock = tx.lock
  BY <1>1 DEF RelayInv, TxInv, Waits
<1>4. CASE Unlockable(tx.lock, tx.root)
  <2>1. unlocked' = unlocked \cup {tx.lock} /\ Notified(tx, "unlockMined")
    BY <1>4 DEF MineUnlock
  <2>2. Grows
    BY <1>1, <2>1 DEF Grows, RowsGrow, RootsGrow, Indexed, rowVars
  <2>3. WorldInv'
    <3>1. RootLocksRecorded' /\ (WholeBlocks => RootsWhole') /\ RowsNeverAhead'
      BY <1>1, <2>1 DEF RelayInv, WorldInv, RootLocksRecorded, RootsWhole, RowsNeverAhead, rowVars
    <3> QED
      BY <1>1, <1>2, <2>1, <3>1 DEF RelayInv, WorldInv, rowVars, queueVars, Indexed
  <2>4. tx.by \in Worker =>
          SenderOK([sender[tx.by] EXCEPT !.pc = "unlockMined"], Indexed(status'), chainRoot', unlocked')
    BY <1>3, <2>1, <2>2, NotifiedOK
  <2>5. SendersInv' /\ TxInv'
    BY <1>1, <2>1, <2>2, <2>4, TxMined DEF SenderStep
  <2> QED
    BY <1>1, <2>2, <2>3, <2>5, ProversKeep DEF RelayInv, Grows
<1>5. CASE ~Unlockable(tx.lock, tx.root)
  <2>1. Notified(tx, "unlockReverted") /\ UNCHANGED unlocked
    BY <1>5 DEF MineUnlock
  <2>2. WorldInv' /\ Grows
    BY <1>1, <2>1, WorldKeep DEF RelayInv, chainVars
  <2>3. tx.by \in Worker =>
          SenderOK([sender[tx.by] EXCEPT !.pc = "unlockReverted"], Indexed(status'), chainRoot', unlocked')
    BY <1>3, <2>2, NotifiedOK
  <2>4. SendersInv' /\ TxInv'
    BY <1>1, <2>1, <2>2, <2>3, TxMined DEF SenderStep
  <2> QED
    BY <1>1, <2>2, <2>4, ProversKeep DEF RelayInv, Grows
<1> QED
  BY <1>4, <1>5

------------------------------------------------------------------------------
\* The relayer writes rows.

LEMMA RowStep ==
    ASSUME RelayInv, NEW s \in Worker, ~Waiting(s), NEW r \in SenderRec,
           sender' = [sender EXCEPT ![s] = r], WorldInv', RowsGrow,
           UNCHANGED <<prover, chainVars, mempool>>,
           SenderOK(r, Indexed(status), chainRoot, unlocked)
    PROVE  RelayInv'
<1>1. Grows /\ UNCHANGED <<chainRoot, unlocked>>
  BY DEF Grows, RootsGrow, chainVars
<1>2. ProversInv'
  BY ProversKeep DEF RelayInv
<1>3. SenderOK(r, Indexed(status'), chainRoot', unlocked')
  BY <1>1, SenderGrows DEF Grows, RowsGrow
<1>4. SendersInv'
  BY <1>1, <1>3, SendersStep DEF RelayInv
<1>5. TxInv'
  BY TxStep DEF RelayInv
<1> QED
  BY <1>2, <1>4, <1>5 DEF RelayInv

LEMMA MarkSubmittedInv ==
    ASSUME RelayInv, NEW s \in Worker, MarkSubmitted(s)
    PROVE  RelayInv'
<1> DEFINE p == sender[s]
           r == [p EXCEPT !.pc = "rows"]
<1>1. p.pc = "mark" /\ p \in SenderRec /\ SenderOK(p, Indexed(status), chainRoot, unlocked)
  BY SenderFacts DEF MarkSubmitted
<1>2. sender' = [sender EXCEPT ![s] = r]
  BY DEF MarkSubmitted, RelayInv, SendersInv
<1>3. /\ submitted' = [submitted EXCEPT ![p.block] = TRUE]
      /\ UNCHANGED <<status, proofRow, rootRow, prover, queueVars, chainVars, mempool, seen>>
  BY DEF MarkSubmitted, rowFrame
<1>4. p.block \in SourceBlock /\ chainRoot[p.block] # {}
  BY <1>1 DEF SenderOK
<1>5. r \in SenderRec /\ r.pc = "rows" /\ r.job = p.job /\ r.plan = p.plan /\ r.block = p.block
  BY <1>1 DEF SenderRec, SenderStep
<1> HIDE DEF r
<1>6. SenderOK(r, Indexed(status), chainRoot, unlocked)
  BY <1>1, <1>5 DEF SenderOK
<1> HIDE DEF p
<1>7. submitted' \in [SourceBlock -> BOOLEAN]
      /\ \A b \in SourceBlock : submitted'[b] => chainRoot[b] # {}
  BY <1>3, <1>4 DEF RelayInv, WorldInv, RowsNeverAhead
<1>8. WorldInv' /\ RowsGrow
  BY <1>3, <1>7 DEF RelayInv, WorldInv, queueVars, chainVars, Indexed, RowsGrow,
     RootLocksRecorded, RootsWhole, RowsNeverAhead
<1>9. ~Waiting(s)
  BY <1>1 DEF Waiting, p
<1> QED
  BY <1>2, <1>3, <1>5, <1>6, <1>8, <1>9, RowStep

LEMMA MarkRowsInv ==
    ASSUME RelayInv, NEW s \in Worker, MarkRows(s)
    PROVE  RelayInv'
<1> DEFINE p == sender[s]
           a == [p EXCEPT !.pc = "read"]
           r == IF p.how = "onChain" THEN Returns(s) ELSE a
<1>1. p.pc = "rows" /\ p \in SenderRec /\ SenderOK(p, Indexed(status), chainRoot, unlocked)
  BY SenderFacts DEF MarkRows
<1>2. sender' = [sender EXCEPT ![s] = r]
  BY DEF MarkRows, RelayInv, SendersInv
<1>3. /\ status' = [l \in Lock |-> IF l \in Rows(p.block) THEN "root_submitted" ELSE status[l]]
      /\ UNCHANGED <<proofRow, rootRow, submitted, prover, queueVars, chainVars, mempool, seen>>
  BY DEF MarkRows, rowFrame
<1>4. a \in SenderRec /\ a.pc = "read" /\ a.job = p.job /\ a.plan = p.plan /\ a.block = p.block
  BY <1>1 DEF SenderRec, SenderStep
<1> HIDE DEF a
<1>5. SenderOK(a, Indexed(status), chainRoot, unlocked)
  BY <1>1, <1>4 DEF SenderOK
<1>6. r \in SenderRec /\ SenderOK(r, Indexed(status), chainRoot, unlocked)
  BY <1>4, <1>5, ReturnsOK
<1>7. ~Waiting(s)
  BY <1>1 DEF Waiting
<1> HIDE DEF r, p
<1>8. status' \in [Lock -> {None} \cup Statuses]
  BY <1>3 DEF RelayInv, WorldInv, Statuses
<1>9. RowsGrow
  BY <1>3 DEF RelayInv, WorldInv, RowsGrow, Indexed, None
<1>10. \A l \in Lock : status'[l] = "unlocked" => l \in unlocked
  BY <1>3 DEF RelayInv, WorldInv, RowsNeverAhead
<1>11. WorldInv'
  <2>1. seen \subseteq seen' /\ seen' \subseteq unlocked
    BY <1>3 DEF RelayInv, WorldInv
  <2> QED
    BY <1>3, <1>8, <1>9, <1>10, <2>1, StatusStep DEF RelayInv, queueVars
<1> QED
  BY <1>2, <1>3, <1>6, <1>7, <1>9, <1>11, RowStep

LEMMA MarkUnlockedInv ==
    ASSUME RelayInv, NEW s \in Worker, MarkUnlocked(s)
    PROVE  RelayInv'
<1> DEFINE p == sender[s]
           todo == p.todo \ {p.lock}
           r == Onward(s, todo)
<1>1. p.pc \in {"unlockStatus", "unlockKnown"} /\ p.lock \in unlocked /\ todo \in SUBSET Lock
      /\ p.pc # "idle" /\ ~Waiting(s)
  BY SenderFacts DEF MarkUnlocked, SenderOK, Waiting
<1>2. /\ status' = [status EXCEPT ![p.lock] = "unlocked"] /\ sender' = NextUnlock(s, todo)
      /\ UNCHANGED <<proofRow, rootRow, submitted, prover, queueVars, chainVars, mempool, seen>>
  BY DEF MarkUnlocked, rowFrame
<1>3. r \in SenderRec /\ SenderOK(r, Indexed(status), chainRoot, unlocked)
      /\ sender' = [sender EXCEPT ![s] = r]
  <2> HIDE DEF todo
  <2> QED
    BY <1>1, <1>2, OnwardOK
<1> HIDE DEF r, todo, p
<1>4. p.lock \in Lock
  BY <1>1 DEF RelayInv, WorldInv
<1>5. status' \in [Lock -> {None} \cup Statuses]
  BY <1>2 DEF RelayInv, WorldInv, Statuses
<1>6. RowsGrow
  BY <1>2 DEF RelayInv, WorldInv, RowsGrow, Indexed, None
<1>7. \A l \in Lock : status'[l] = "unlocked" => l \in unlocked
  BY <1>1, <1>2 DEF RelayInv, WorldInv, RowsNeverAhead
<1>8. WorldInv'
  <2>1. seen \subseteq seen' /\ seen' \subseteq unlocked
    BY <1>2 DEF RelayInv, WorldInv
  <2> QED
    BY <1>2, <1>5, <1>6, <1>7, <2>1, StatusStep DEF RelayInv, queueVars
<1> QED
  BY <1>1, <1>2, <1>3, <1>6, <1>8, RowStep

------------------------------------------------------------------------------
\* Failures.

\* Transactions lose senders that wait for them no longer.
LEMMA OrphanedInv ==
    ASSUME TxInv, NEW dead, mempool' = Orphaned(dead),
           \A v \in Worker \ dead : sender'[v] = sender[v]
    PROVE  TxInv'
<1> DEFINE lost(tx) == [tx EXCEPT !.by = None]
<1>0. None \notin Worker
  BY RelayAssumption DEF Worker
<1>1. ASSUME NEW tx \in mempool
      PROVE  /\ lost(tx) \in RootTx \cup UnlockTx /\ lost(tx).by = None
             /\ lost(tx).kind = "root" => Carries(lost(tx))
  <2>1. CASE tx \in RootTx
    <3>1. lost(tx) \in RootTx /\ lost(tx).by = None /\ lost(tx).root = tx.root
          /\ lost(tx).locks = tx.locks /\ lost(tx).block = tx.block
      BY <2>1 DEF RootTx
    <3>2. tx.kind = "root"
      BY <2>1 DEF RootTx
    <3> QED
      BY <3>1, <3>2 DEF TxInv, Carries
  <2>2. CASE tx \in UnlockTx
    <3>1. lost(tx) \in UnlockTx /\ lost(tx).by = None /\ lost(tx).kind = "unlock"
      BY <2>2 DEF UnlockTx
    <3> QED
      BY <3>1
  <2> QED
    BY <2>1, <2>2 DEF TxInv
<1>2. ASSUME NEW ty \in mempool'
      PROVE  (ty \in mempool /\ ty.by \notin dead) \/ \E tx \in mempool : ty = lost(tx)
  BY DEF Orphaned
<1> HIDE DEF lost
<1>3. mempool' \subseteq RootTx \cup UnlockTx
      /\ \A ty \in mempool' : ty.kind = "root" => Carries(ty)
  BY <1>1, <1>2 DEF TxInv
<1>4. \A ty \in mempool' : ty.by \in Worker => ty \in mempool /\ ty.by \notin dead
  BY <1>0, <1>1, <1>2
<1>5. \A ty \in mempool' : ty.by \in Worker => Waits(sender'[ty.by], ty)
  BY <1>4 DEF TxInv
<1> QED
  BY <1>3, <1>4, <1>5 DEF TxInv

\* submitBlockRoot throws: its job may go back to the queue.
LEMMA ThrowsInv ==
    ASSUME RelayInv, NEW s \in Worker, SubmitThrows(s), TxInv',
           UNCHANGED <<rowVars, proofJob, prover, chainVars, seen>>
    PROVE  RelayInv'
<1> DEFINE job == sender[s].job
           again == [job EXCEPT !.left = job.left - 1]
<1>1. job \in RootJob \cup {NoJob} /\ (job # NoJob => RootOK(job.root, BlockOf[job.from], Indexed(status)))
  BY SenderFacts DEF SenderRec, SenderOK
<1>2. sender' = [sender EXCEPT ![s] = IdleSender]
      /\ rootJobs' = IF job # NoJob /\ job.left > 1 THEN rootJobs \cup {again} ELSE rootJobs
  BY DEF SubmitThrows
<1> HIDE DEF job
<1>3. job # NoJob /\ job.left > 1 =>
        again \in RootJob /\ again.root = job.root /\ again.from = job.from
  BY <1>1 DEF RootJob, RootAttempts
<1> HIDE DEF again
<1>4. rootJobs' \subseteq RootJob
      /\ \A j \in rootJobs' : RootOK(j.root, BlockOf[j.from], Indexed(status))
  BY <1>1, <1>2, <1>3 DEF RelayInv, WorldInv
<1>5. WorldInv' /\ RowsGrow
  BY <1>4, JobStep DEF RelayInv, WorldInv
<1>6. Grows
  BY <1>5 DEF Grows, RootsGrow, chainVars
<1>7. ProversInv'
  BY <1>5, ProversKeep DEF RelayInv
<1>8. SendersInv'
  BY <1>2, <1>6, IdleSenderOK, SendersStep DEF RelayInv
<1> QED
  BY <1>5, <1>7, <1>8 DEF RelayInv

LEMMA SubmitFailsInv ==
    ASSUME RelayInv, NEW s \in Worker, RootReverted(s) \/ SubmitFails(s)
    PROVE  RelayInv'
<1>1. SubmitThrows(s) /\ ~Waiting(s) /\ UNCHANGED <<rowVars, proofJob, prover, chainVars, seen, mempool>>
  BY DEF RootReverted, SubmitFails, Waiting
<1>2. sender' = [sender EXCEPT ![s] = IdleSender]
  BY <1>1 DEF SubmitThrows
<1>3. TxInv'
  BY <1>1, <1>2, TxStep DEF RelayInv
<1> QED
  BY <1>1, <1>3, ThrowsInv

LEMMA WaitFailsInv ==
    ASSUME RelayInv, NEW s \in Worker, WaitFails(s)
    PROVE  RelayInv'
<1>1. SubmitThrows(s) /\ mempool' = Orphaned({s}) /\ UNCHANGED <<rowVars, proofJob, prover, chainVars, seen>>
  BY DEF WaitFails
<1>2. \A v \in Worker \ {s} : sender'[v] = sender[v]
  BY <1>1 DEF SubmitThrows, RelayInv, SendersInv
<1>3. TxInv'
  BY <1>1, <1>2, OrphanedInv DEF RelayInv
<1> QED
  BY <1>1, <1>3, ThrowsInv

LEMMA UnlockFailsInv ==
    ASSUME RelayInv, NEW s \in Worker, UnlockFails(s)
    PROVE  RelayInv'
<1>1. PICK todo \in SUBSET Lock : sender' = NextUnlock(s, todo)
  <2>1. sender[s].todo \subseteq Lock
    BY SenderFacts
  <2> QED
    BY <2>1 DEF UnlockFails
<1>2. sender[s].pc # "idle" /\ mempool' = Orphaned({s})
      /\ UNCHANGED <<rowVars, queueVars, prover, chainVars, seen>>
  BY DEF UnlockFails
<1> DEFINE r == Onward(s, todo)
<1>3. r \in SenderRec /\ SenderOK(r, Indexed(status), chainRoot, unlocked)
      /\ sender' = [sender EXCEPT ![s] = r]
  BY <1>1, <1>2, OnwardOK
<1> HIDE DEF r
<1>4. WorldInv' /\ Grows /\ UNCHANGED <<status, chainRoot, unlocked>>
  BY <1>2, WorldKeep DEF RelayInv, rowVars, chainVars
<1>5. ProversInv'
  BY <1>2, <1>4, ProversKeep DEF RelayInv, Grows
<1>6. SendersInv'
  <2>1. SenderOK(r, Indexed(status'), chainRoot', unlocked')
    BY <1>3, <1>4
  <2> QED
    BY <1>3, <1>4, <2>1, SendersStep DEF RelayInv
<1>7. TxInv'
  <2>1. \A v \in Worker \ {s} : sender'[v] = sender[v]
    BY <1>3 DEF RelayInv, SendersInv
  <2> QED
    BY <1>2, <2>1, OrphanedInv DEF RelayInv
<1> QED
  BY <1>4, <1>5, <1>6, <1>7 DEF RelayInv

LEMMA CrashInv ==
    ASSUME RelayInv, NEW p \in Process, Crash(p)
    PROVE  RelayInv'
<1> DEFINE dead == {w \in DOMAIN HomeOf : HomeOf[w] = p}
<1>1. /\ prover' = [w \in Prover |-> IF w \in dead THEN IdleProver ELSE prover[w]]
      /\ sender' = [s \in Worker |-> IF s \in dead THEN IdleSender ELSE sender[s]]
      /\ proofJob' = [l \in Lock |-> IF \E w \in Prover \cap dead : prover[w].job = l
                        THEN [proofJob[l] EXCEPT !.state = "waiting"] ELSE proofJob[l]]
      /\ rootJobs' = rootJobs \cup ({sender[s].job : s \in Sender \cap dead} \ {NoJob})
      /\ mempool' = Orphaned(dead)
      /\ UNCHANGED <<rowVars, chainVars, seen>>
  BY DEF Crash, Worker
<1> HIDE DEF dead
<1>2. /\ proofJob' \in [Lock -> [state: {None, "waiting", "active", "done", "failed"}, left: Int]]
      /\ \A l \in Lock : proofJob'[l].state = "waiting" => l \in Indexed(status)
  <2>1. \A w \in Prover : prover[w].job \in Lock => prover[w].job \in Indexed(status)
    BY DEF RelayInv, ProversInv, ProverOK
  <2>2. proofJob \in [Lock -> [state: {None, "waiting", "active", "done", "failed"}, left: Int]]
        /\ \A l \in Lock : proofJob[l].state = "waiting" => l \in Indexed(status)
    BY DEF RelayInv, WorldInv
  <2> QED
    BY <1>1, <2>1, <2>2
<1>3. /\ rootJobs' \subseteq RootJob
      /\ \A job \in rootJobs' : RootOK(job.root, BlockOf[job.from], Indexed(status))
  <2>1. ASSUME NEW s \in Sender, sender[s].job # NoJob
        PROVE  sender[s].job \in RootJob
               /\ RootOK(sender[s].job.root, BlockOf[sender[s].job.from], Indexed(status))
    <3>1. s \in Worker
      BY DEF Worker
    <3>2. sender[s].job \in RootJob \cup {NoJob}
      BY <3>1, SenderFacts DEF SenderRec
    <3> QED
      BY <2>1, <3>1, <3>2, SenderFacts DEF SenderOK
  <2> QED
    BY <1>1, <2>1 DEF RelayInv, WorldInv
<1>4. WorldInv' /\ RowsGrow
  BY <1>1, <1>2, <1>3, JobStep DEF RelayInv
<1>5. UNCHANGED <<status, chainRoot, unlocked>>
  BY <1>1 DEF rowVars, chainVars
<1>6. ProversInv'
  <2>1. \A w \in Prover : prover'[w] \in ProverRec /\ ProverOK(prover'[w], Indexed(status))
    BY <1>1, IdleProverOK DEF RelayInv, ProversInv
  <2>2. prover' \in [Prover -> ProverRec]
    BY <1>1, <2>1
  <2> QED
    BY <1>5, <2>1, <2>2 DEF ProversInv, Indexed
<1>7. SendersInv'
  <2>1. \A s \in Worker : sender'[s] \in SenderRec
                          /\ SenderOK(sender'[s], Indexed(status), chainRoot, unlocked)
    BY <1>1, IdleSenderOK DEF RelayInv, SendersInv
  <2>2. sender' \in [Worker -> SenderRec]
    BY <1>1, <2>1
  <2> QED
    BY <1>5, <2>1, <2>2 DEF SendersInv, Indexed
<1>8. TxInv'
  BY <1>1, OrphanedInv DEF RelayInv
<1> QED
  BY <1>4, <1>6, <1>7, <1>8 DEF RelayInv

------------------------------------------------------------------------------
\* Every step preserves the invariant.
LEMMA RelayStepInv == RelayInv /\ [RelayNext]_relayVars => RelayInv'
<1> SUFFICES ASSUME RelayInv, [RelayNext]_relayVars PROVE RelayInv'
  OBVIOUS
<1>1. ASSUME NEW l \in Lock, Index(l) \/ SeeUnlock(l) PROVE RelayInv'
  BY <1>1, IndexInv, SeeUnlockInv
<1>2. ASSUME NEW w \in Prover, NEW l \in Lock, StartProof(w, l) PROVE RelayInv'
  BY <1>2, StartProofInv
<1>3. ASSUME NEW w \in Prover, Prove(w) PROVE RelayInv'
  BY <1>3, ReadLocksInv, StoreProofInv, MarkProvenInv, StoreRootInv, AddRootJobInv DEF Prove
<1>4. ASSUME NEW s \in Sender, NEW job \in rootJobs, TakeRootJob(s, job) PROVE RelayInv'
  BY <1>4, TakeRootJobInv
<1>5. ASSUME NEW m \in Monitor, PollPending(m) PROVE RelayInv'
  BY <1>5, PollPendingInv
<1>6. ASSUME NEW s \in Worker, Submit(s) PROVE RelayInv'
  BY <1>6, CheckChainInv, FormatLocksInv, SendRootInv, RootConfirmedInv, MarkSubmittedInv,
     MarkRowsInv, SubmitFailsInv, ReadUnlockRowsInv, GetProofInv, SendUnlockInv,
     UnlockConfirmedInv, MarkUnlockedInv, UnlockRevertedInv DEF Submit
<1>7. CASE Mine
  BY <1>7, MineRootInv, MineUnlockInv DEF Mine
<1>8. CASE Failure
  BY <1>8, ProverFailsInv, SubmitFailsInv, WaitFailsInv, UnlockFailsInv, CrashInv
     DEF Failure, Worker
<1>9. CASE UNCHANGED relayVars
  <2>1. UNCHANGED <<rowVars, queueVars, chainVars, seen, prover, sender, mempool>>
    BY <1>9 DEF relayVars
  <2>2. WorldInv' /\ Grows
    BY <2>1, WorldKeep DEF RelayInv
  <2> QED
    BY <2>1, <2>2, ProversKeep, OthersKeep DEF RelayInv, Grows
<1> QED
  BY <1>1, <1>2, <1>3, <1>4, <1>5, <1>6, <1>7, <1>8, <1>9 DEF RelayNext, Worker

\* The invariant holds in every behaviour of the relay.
THEOREM RelayInvariant == RelaySpec => []RelayInv
BY RelayInitInv, RelayStepInv, PTL DEF RelaySpec

\* Whatever fails, every leaf of a root on chain has its lock recorded there:
\* no root is sent with locks read before the rows it was computed from.
THEOREM RootsCarryTheirLocks == RelaySpec => []RootLocksRecorded
<1>1. RelayInv => RootLocksRecorded
  BY DEF RelayInv, WorldInv
<1> QED
  BY <1>1, RelayInvariant, PTL

\* Whatever fails, the database is never ahead of the chain.
THEOREM DatabaseNeverAhead == RelaySpec => []RowsNeverAhead
<1>1. RelayInv => RowsNeverAhead
  BY DEF RelayInv, WorldInv
<1> QED
  BY <1>1, RelayInvariant, PTL

\* When a proof job finds all the locks of its block indexed, every root on chain
\* covers its block, whatever fails: retries and second jobs make the same root.
THEOREM RootsCoverTheirBlocks == ASSUME WholeBlocks PROVE RelaySpec => []RootCoversBlock
<1>1. RelayInv => RootCoversBlock
  BY DEF RelayInv, WorldInv, RootsWhole, RootLocksRecorded, RootCoversBlock
<1> QED
  BY <1>1, RelayInvariant, PTL
------------------------------------------------------------------------------
\* A proof job is run by one prover at a time, and while it waits or runs it has
\* attempts left: Bull never counts below zero.
JobsInv ==
    /\ \A l \in Lock : proofJob[l].left \in 0..ProofAttempts
    /\ \A l \in Lock : proofJob[l].left > 0 \/ proofJob[l].state = "failed"
    /\ \A l \in Lock : status[l] = None => proofJob[l].state = None
    /\ \A w \in Prover : prover[w].pc # "idle" => proofJob[prover[w].job].state = "active"
    /\ \A w \in Prover : prover[w].pc = "idle" => prover[w].job = None
    /\ \A v, w \in Prover :
          prover[v].pc # "idle" /\ prover[w].pc # "idle" /\ prover[v].job = prover[w].job => v = w

JobState == {None, "waiting", "active", "done", "failed"}

\* A prover at work has a job, and a job is a record.
LEMMA ProverJob ==
    ASSUME RelayInv
    PROVE  /\ proofJob \in [Lock -> [state: JobState, left: Int]]
           /\ prover \in [Prover -> ProverRec]
           /\ \A w \in Prover : prover[w].pc # "idle" => prover[w].job \in Lock
BY DEF RelayInv, WorldInv, ProversInv, ProverOK, JobState

\* Most steps let provers go on with the jobs they have.
LEMMA JobsKeep ==
    ASSUME JobsInv, UNCHANGED proofJob,
           \A w \in Prover : prover'[w].pc # "idle" =>
              prover[w].pc # "idle" /\ prover'[w].job = prover[w].job,
           \A w \in Prover : prover'[w].pc = "idle" => prover'[w].job = None,
           \A l \in Lock : status'[l] = None => status[l] = None
    PROVE  JobsInv'
BY DEF JobsInv

\* A prover that goes on keeps its job.
LEMMA ProveKeepsJobs ==
    ASSUME RelayInv, JobsInv, NEW w \in Prover,
           \/ ReadLocks(w) \/ StoreRoot(w) \/ MarkProven(w)
           \/ \E l \in Lock : StoreProof(w, l)
    PROVE  JobsInv'
<1> DEFINE p == prover[w]
           r == prover'[w]
<1>0. p \in ProverRec /\ prover \in [Prover -> ProverRec]
  BY ProverJob
<1>1. UNCHANGED proofJob /\ p.pc # "idle" /\ \A v \in Prover \ {w} : prover'[v] = prover[v]
  BY <1>0 DEF ReadLocks, StoreRoot, MarkProven, StoreProof, rowFrame, queueVars
<1>2. r.job = p.job /\ r.pc # "idle"
  BY <1>0 DEF ReadLocks, StoreRoot, MarkProven, StoreProof, ProverRec
<1>3. UNCHANGED status \/ status' = [status EXCEPT ![p.lock] = Proven]
  BY DEF ReadLocks, StoreRoot, MarkProven, StoreProof, rowVars
<1>4. \A l \in Lock : status'[l] = None => status[l] = None
  <2>1. status \in [Lock -> {None} \cup Statuses] /\ Proven # None
    BY DEF RelayInv, WorldInv, Proven, None
  <2> QED
    BY <1>3, <2>1
<1> HIDE DEF p, r
<1>5. \A v \in Prover : v # w => prover'[v] = prover[v]
  BY <1>1
<1> QED
  BY <1>1, <1>2, <1>4, <1>5, JobsKeep DEF p, r, JobsInv

\* A job that gets a new state: no prover has it, or the one that has it returns.
LEMMA JobChanges ==
    ASSUME RelayInv, JobsInv, NEW l \in Lock, NEW job \in [state: JobState, left: Int],
           proofJob' = [proofJob EXCEPT ![l] = job],
           job.left \in 0..ProofAttempts, job.left > 0 \/ job.state = "failed",
           \A w \in Prover : prover'[w].pc # "idle" =>
              prover[w].pc # "idle" /\ prover'[w].job = prover[w].job /\ prover[w].job # l,
           \A w \in Prover : prover'[w].pc = "idle" => prover'[w].job = None,
           \A k \in Lock : status'[k] = None => status[k] = None /\ k # l
    PROVE  JobsInv'
<1>1. proofJob'[l] = job /\ \A k \in Lock : k # l => proofJob'[k] = proofJob[k]
  BY ProverJob
<1> QED
  BY <1>1, ProverJob DEF JobsInv

LEMMA IndexJobs ==
    ASSUME RelayInv, JobsInv, NEW l \in Lock, Index(l)
    PROVE  JobsInv'
<1> DEFINE job == [proofJob[l] EXCEPT !.state = "waiting"]
<1>1. /\ proofJob' = [proofJob EXCEPT ![l] = job] /\ UNCHANGED prover
      /\ status' = [status EXCEPT ![l] = "pending"] /\ status[l] = None
  BY DEF Index
<1>2. proofJob[l] \in [state: JobState, left: Int]
  BY ProverJob
<1>3. job \in [state: JobState, left: Int] /\ job.left = proofJob[l].left
  BY <1>2 DEF JobState
<1> HIDE DEF job
<1>4. proofJob[l].state = None /\ proofJob[l].left \in 0..ProofAttempts /\ proofJob[l].left > 0
  BY <1>1, <1>2 DEF JobsInv, None
<1>5. \A w \in Prover : prover[w].pc # "idle" => prover[w].job # l
  BY <1>4 DEF JobsInv, None
<1>6. \A k \in Lock : status'[k] = None => status[k] = None /\ k # l
  BY <1>1 DEF RelayInv, WorldInv, None
<1>7. \A w \in Prover : prover'[w].pc = "idle" => prover'[w].job = None
  BY <1>1 DEF JobsInv
<1> QED
  BY <1>1, <1>3, <1>4, <1>5, <1>6, <1>7, JobChanges

LEMMA StartProofJobs ==
    ASSUME RelayInv, JobsInv, NEW w \in Prover, NEW l \in Lock, StartProof(w, l)
    PROVE  JobsInv'
<1>1. /\ prover[w].pc = "idle" /\ proofJob[l].state = "waiting" /\ UNCHANGED status
  BY DEF StartProof, rowVars
<1>2. proofJob[l] \in [state: JobState, left: Int] /\ prover \in [Prover -> ProverRec]
  BY ProverJob
<1>3. proofJob[l].left \in 0..ProofAttempts /\ proofJob[l].left > 0 /\ status[l] # None
  BY <1>1 DEF JobsInv, None
<1>4. \A v \in Prover : prover[v].pc # "idle" => prover[v].job # l
  BY <1>1 DEF JobsInv
<1>5. CASE KeyOf(w, BlockOf[l]) \in processing
  <2> DEFINE job == [proofJob[l] EXCEPT !.state = "done"]
  <2>1. proofJob' = [proofJob EXCEPT ![l] = job] /\ UNCHANGED prover
    BY <1>5 DEF StartProof, JobDone
  <2>2. job \in [state: JobState, left: Int] /\ job.left = proofJob[l].left
    BY <1>2 DEF JobState
  <2> HIDE DEF job
  <2> QED
    BY <1>1, <1>3, <1>4, <2>1, <2>2, JobChanges DEF JobsInv
<1>6. CASE KeyOf(w, BlockOf[l]) \notin processing
  <2> DEFINE job == [proofJob[l] EXCEPT !.state = "active"]
             r == [IdleProver EXCEPT !.pc = "read", !.job = l]
  <2>1. proofJob' = [proofJob EXCEPT ![l] = job] /\ prover' = [prover EXCEPT ![w] = r]
    BY <1>6 DEF StartProof
  <2>2. job \in [state: JobState, left: Int] /\ job.left = proofJob[l].left
        /\ job.state = "active"
    BY <1>2 DEF JobState
  <2>3. r.pc = "read" /\ r.job = l
    BY DEF IdleProver
  <2> HIDE DEF job, r
  <2>4. proofJob'[l] = job /\ \A k \in Lock : k # l => proofJob'[k] = proofJob[k]
    BY <2>1, ProverJob
  <2>5. prover'[w] = r /\ \A v \in Prover : v # w => prover'[v] = prover[v]
    BY <1>2, <2>1
  <2>6. \A v \in Prover : prover'[v].pc # "idle" => proofJob'[prover'[v].job].state = "active"
    BY <1>4, <2>2, <2>3, <2>4, <2>5, ProverJob DEF JobsInv
  <2>7. \A u, v \in Prover : prover'[u].pc # "idle" /\ prover'[v].pc # "idle"
                            /\ prover'[u].job = prover'[v].job => u = v
    BY <1>4, <2>3, <2>5 DEF JobsInv
  <2>8. \A v \in Prover : prover'[v].pc = "idle" => prover'[v].job = None
    BY <2>3, <2>5 DEF JobsInv
  <2>9. \A k \in Lock : /\ proofJob'[k].left \in 0..ProofAttempts
                        /\ proofJob'[k].left > 0 \/ proofJob'[k].state = "failed"
                        /\ status'[k] = None => proofJob'[k].state = None
    BY <1>1, <1>3, <2>2, <2>4 DEF JobsInv
  <2> QED
    BY <2>6, <2>7, <2>8, <2>9 DEF JobsInv
<1> QED
  BY <1>5, <1>6

\* A prover that returns has given its job a new state.
LEMMA ReturnJobs ==
    ASSUME RelayInv, JobsInv, NEW w \in Prover, AddRootJob(w) \/ ProverFails(w)
    PROVE  JobsInv'
<1> DEFINE l == prover[w].job
           old == proofJob[l]
           done == [old EXCEPT !.state = "done"]
<1>1. prover[w].pc # "idle" /\ UNCHANGED status
  BY DEF AddRootJob, ProverFails, rowVars
<1>2. l \in Lock /\ old \in [state: JobState, left: Int] /\ prover \in [Prover -> ProverRec]
  BY <1>1, ProverJob
<1>3. old.state = "active" /\ old.left \in 0..ProofAttempts /\ old.left > 0 /\ status[l] # None
  BY <1>1, <1>2 DEF JobsInv, None
<1>4. prover' = [prover EXCEPT ![w] = IdleProver]
  BY DEF AddRootJob, ProverFails, ProverReturns
<1>5. proofJob' = [proofJob EXCEPT ![l] = done] \/ proofJob' = [proofJob EXCEPT ![l] = Retried(old)]
  BY DEF AddRootJob, ProverFails, JobDone
<1>6. done \in [state: JobState, left: Int] /\ done.left = old.left
  BY <1>2 DEF JobState
<1>7. /\ Retried(old) \in [state: JobState, left: Int]
      /\ Retried(old).left \in 0..ProofAttempts
      /\ Retried(old).left > 0 \/ Retried(old).state = "failed"
  BY <1>2, <1>3 DEF Retried, JobState, ProofAttempts
<1>8. \A v \in Prover : prover'[v].pc # "idle" =>
        prover[v].pc # "idle" /\ prover'[v].job = prover[v].job /\ prover[v].job # l
  <2>1. prover'[w].pc = "idle"
    BY <1>2, <1>4 DEF IdleProver
  <2> QED
    BY <1>1, <1>2, <1>4, <2>1 DEF JobsInv
<1>9. \A v \in Prover : prover'[v].pc = "idle" => prover'[v].job = None
  BY <1>2, <1>4 DEF JobsInv, IdleProver
<1> HIDE DEF l, old, done
<1> QED
  BY <1>1, <1>2, <1>3, <1>5, <1>6, <1>7, <1>8, <1>9, JobChanges

LEMMA CrashJobs ==
    ASSUME RelayInv, JobsInv, NEW p \in Process, Crash(p)
    PROVE  JobsInv'
<1> DEFINE dead == {w \in DOMAIN HomeOf : HomeOf[w] = p}
<1>1. /\ prover' = [w \in Prover |-> IF w \in dead THEN IdleProver ELSE prover[w]]
      /\ proofJob' = [l \in Lock |-> IF \E w \in Prover \cap dead : prover[w].job = l
                        THEN [proofJob[l] EXCEPT !.state = "waiting"] ELSE proofJob[l]]
      /\ UNCHANGED status
  BY DEF Crash, rowVars
<1> HIDE DEF dead
<1>2. \A l \in Lock : \A w \in Prover : prover[w].job = l => proofJob[l].state = "active"
  BY RelayAssumption DEF JobsInv
<1>3. \A l \in Lock : proofJob[l].state = "active" =>
         status[l] # None /\ proofJob[l].left > 0
  BY DEF JobsInv, None
<1>4. ASSUME NEW l \in Lock
      PROVE  /\ proofJob'[l].left = proofJob[l].left
             /\ proofJob'[l] = proofJob[l] \/ proofJob[l].state = "active"
  <2> DEFINE job == [proofJob[l] EXCEPT !.state = "waiting"]
  <2>1. proofJob[l] \in [state: JobState, left: Int]
    BY ProverJob
  <2>2. job.left = proofJob[l].left
    BY <2>1
  <2> HIDE DEF job
  <2>3. \/ proofJob'[l] = proofJob[l]
        \/ proofJob'[l] = job /\ \E w \in Prover : prover[w].job = l
    BY <1>1 DEF job
  <2> QED
    BY <1>2, <2>2, <2>3
<1>5. \A w \in Prover : \/ prover'[w] = IdleProver
                        \/ prover'[w] = prover[w] /\ w \notin dead
  BY <1>1
<1>6. IdleProver.pc = "idle" /\ IdleProver.job = None
  BY DEF IdleProver
<1>7. \A w \in Prover : prover'[w].pc # "idle" => proofJob'[prover'[w].job].state = "active"
  <2> SUFFICES ASSUME NEW w \in Prover, prover'[w].pc # "idle"
               PROVE  proofJob'[prover'[w].job].state = "active"
    OBVIOUS
  <2>1. prover'[w] = prover[w] /\ w \notin dead /\ prover[w].job \in Lock
    BY <1>5, <1>6, ProverJob
  <2>2. \A v \in Prover \cap dead : prover[v].job # prover[w].job
    BY <2>1, RelayAssumption DEF JobsInv
  <2>3. proofJob'[prover[w].job] = proofJob[prover[w].job]
    BY <1>1, <2>1, <2>2
  <2> QED
    BY <2>1, <2>3 DEF JobsInv
<1>8. \A v, w \in Prover :
        prover'[v].pc # "idle" /\ prover'[w].pc # "idle" /\ prover'[v].job = prover'[w].job => v = w
  BY <1>5, <1>6 DEF JobsInv
<1>9. ASSUME NEW l \in Lock
      PROVE  /\ proofJob'[l].left \in 0..ProofAttempts
             /\ proofJob'[l].left > 0 \/ proofJob'[l].state = "failed"
             /\ status'[l] = None => proofJob'[l].state = None
  <2>1. CASE proofJob'[l] = proofJob[l]
    BY <1>1, <2>1 DEF JobsInv
  <2>2. CASE proofJob[l].state = "active"
    BY <1>1, <1>3, <1>4, <2>2 DEF JobsInv
  <2> QED
    BY <1>4, <2>1, <2>2
<1>10. \A w \in Prover : prover'[w].pc = "idle" => prover'[w].job = None
  BY <1>5, <1>6 DEF JobsInv
<1> QED
  BY <1>7, <1>8, <1>9, <1>10 DEF JobsInv

------------------------------------------------------------------------------
\* The processing sets, the recorded locks and the faults keep to their bounds.
BoundsInv ==
    /\ processing \subseteq Process \X SourceBlock
    /\ chainData \subseteq Lock
    /\ faults \in 0..MaxFaults

\* The relayer's calls leave the proof jobs alone.
SendSteps(s) == PollPending(s) \/ Submit(s) \/ SubmitFails(s) \/ WaitFails(s) \/ UnlockFails(s)

LEMMA SendJobs ==
    ASSUME RelayInv, JobsInv, NEW s \in Worker, SendSteps(s)
    PROVE  JobsInv'
<1>1. UNCHANGED <<proofJob, prover>>
  BY DEF SendSteps, Submit, PollPending, CheckChain, FormatLocks, SendRoot, RootConfirmed,
     MarkSubmitted, MarkRows, RootReverted, ReadUnlockRows, GetProof, SendUnlock,
     UnlockConfirmed, MarkUnlocked, UnlockReverted, SubmitFails, WaitFails, UnlockFails,
     sendFrame, rowFrame, queueVars
<1>2. \A l \in Lock : status'[l] = None => status[l] = None
  <2>1. \/ UNCHANGED status \/ MarkRows(s) \/ MarkUnlocked(s)
    BY DEF SendSteps, Submit, PollPending, CheckChain, FormatLocks, SendRoot, RootConfirmed,
       MarkSubmitted, RootReverted, ReadUnlockRows, GetProof, SendUnlock, UnlockConfirmed,
       UnlockReverted, SubmitFails, WaitFails, UnlockFails, sendFrame, rowVars
  <2>2. CASE MarkRows(s)
    BY <2>2 DEF MarkRows, None
  <2>3. CASE MarkUnlocked(s)
    BY <2>3 DEF MarkUnlocked, RelayInv, WorldInv, None
  <2> QED
    BY <2>1, <2>2, <2>3
<1> QED
  BY <1>1, <1>2, JobsKeep DEF JobsInv

LEMMA WorldJobs ==
    ASSUME RelayInv, JobsInv,
           \/ Mine \/ UNCHANGED relayVars
           \/ \E l \in Lock : SeeUnlock(l)
           \/ \E s \in Sender : \E job \in rootJobs : TakeRootJob(s, job)
    PROVE  JobsInv'
<1>1. UNCHANGED <<proofJob, prover>>
  BY DEF Mine, MineRoot, MineUnlock, SeeUnlock, TakeRootJob, relayVars, queueVars
<1>2. \A l \in Lock : status'[l] = None => status[l] = None
  BY DEF Mine, MineRoot, MineUnlock, SeeUnlock, TakeRootJob, relayVars, rowVars,
     RelayInv, WorldInv, None
<1> QED
  BY <1>1, <1>2, JobsKeep DEF JobsInv

LEMMA RelayStepJobs == RelayInv /\ JobsInv /\ [RelayNext]_relayVars => JobsInv'
<1> SUFFICES ASSUME RelayInv, JobsInv, [RelayNext]_relayVars PROVE JobsInv'
  OBVIOUS
<1>1. ASSUME NEW l \in Lock, Index(l) \/ SeeUnlock(l) PROVE JobsInv'
  BY <1>1, IndexJobs, WorldJobs
<1>2. ASSUME NEW w \in Prover, NEW l \in Lock, StartProof(w, l) PROVE JobsInv'
  BY <1>2, StartProofJobs
<1>3. ASSUME NEW w \in Prover, Prove(w) \/ ProverFails(w) PROVE JobsInv'
  BY <1>3, ProveKeepsJobs, ReturnJobs DEF Prove
<1>4. ASSUME NEW s \in Worker, SendSteps(s) PROVE JobsInv'
  BY <1>4, SendJobs
<1>5. CASE \/ Mine \/ UNCHANGED relayVars
           \/ \E s \in Sender : \E job \in rootJobs : TakeRootJob(s, job)
  BY <1>5, WorldJobs
<1>6. ASSUME NEW p \in Process, Crash(p) PROVE JobsInv'
  BY <1>6, CrashJobs
<1> QED
  BY <1>1, <1>2, <1>3, <1>4, <1>5, <1>6 DEF RelayNext, Failure, Worker, SendSteps

LEMMA BoundsKept == RelayInv /\ BoundsInv /\ [RelayNext]_relayVars => BoundsInv'
<1> SUFFICES ASSUME RelayInv, BoundsInv, [RelayNext]_relayVars PROVE BoundsInv'
  OBVIOUS
<1>1. processing' \subseteq Process \X SourceBlock
  <2>1. ASSUME NEW w \in Prover, NEW l \in Lock PROVE KeyOf(w, BlockOf[l]) \in Process \X SourceBlock
    BY RelayAssumption DEF KeyOf
  <2>2. \/ processing' \subseteq processing
        \/ \E w \in Prover, l \in Lock : processing' = processing \cup {KeyOf(w, BlockOf[l])}
    BY DEF RelayNext, Index, SeeUnlock, StartProof, Prove, ReadLocks, StoreProof, MarkProven,
       StoreRoot, AddRootJob, ProverReturns, ReleaseKey, ProverFails, TakeRootJob, PollPending,
       Submit, CheckChain, FormatLocks, SendRoot, RootConfirmed, MarkSubmitted, MarkRows,
       RootReverted, ReadUnlockRows, GetProof, SendUnlock, UnlockConfirmed, MarkUnlocked,
       UnlockReverted, Mine, MineRoot, MineUnlock, Failure, SubmitFails, WaitFails, UnlockFails,
       Crash, relayVars, sendFrame, rowFrame, queueVars
  <2> QED
    BY <2>1, <2>2 DEF BoundsInv
<1>2. chainData' \subseteq Lock
  <2>1. \/ UNCHANGED chainData
        \/ \E tx \in mempool : tx.kind = "root" /\ chainData' = chainData \cup tx.locks
    BY DEF RelayNext, Index, SeeUnlock, StartProof, Prove, ReadLocks, StoreProof, MarkProven,
       StoreRoot, AddRootJob, ProverFails, TakeRootJob, PollPending,
       Submit, CheckChain, FormatLocks, SendRoot, RootConfirmed, MarkSubmitted, MarkRows,
       RootReverted, ReadUnlockRows, GetProof, SendUnlock, UnlockConfirmed, MarkUnlocked,
       UnlockReverted, Mine, MineRoot, MineUnlock, Failure, SubmitFails, WaitFails, UnlockFails,
       Crash, relayVars, sendFrame, rowFrame, chainVars
  <2>2. \A tx \in mempool : tx.kind = "root" => tx.locks \subseteq Lock
    BY DEF RelayInv, TxInv, RootTx, UnlockTx
  <2> QED
    BY <2>1, <2>2 DEF BoundsInv
<1>3. faults' \in 0..MaxFaults
  <2>1. UNCHANGED faults \/ \E kind : Fault(kind)
    BY DEF RelayNext, Index, SeeUnlock, StartProof, Prove, ReadLocks, StoreProof, MarkProven,
       StoreRoot, AddRootJob, ProverFails, TakeRootJob, PollPending,
       Submit, CheckChain, FormatLocks, SendRoot, RootConfirmed, MarkSubmitted, MarkRows,
       RootReverted, ReadUnlockRows, GetProof, SendUnlock, UnlockConfirmed, MarkUnlocked,
       UnlockReverted, Mine, MineRoot, MineUnlock, Failure, SubmitFails, WaitFails, UnlockFails,
       Crash, relayVars, sendFrame, rowFrame
  <2> QED
    BY <2>1, RelayAssumption DEF BoundsInv, Fault
<1> QED
  BY <1>1, <1>2, <1>3 DEF BoundsInv

TypesInv == RelayInv /\ JobsInv /\ BoundsInv

\* Every variable of the relay keeps its type, whatever fails: a retry never
\* takes a job's attempts below zero, no block key is left of an unknown process,
\* and no leaf the contract records was ever anything but a lock.
THEOREM RelayTyped == RelaySpec => []RelayTypeOK
<1>1. RelayInit => JobsInv /\ BoundsInv
  BY RelayAssumption DEF RelayInit, JobsInv, BoundsInv, IdleProver, ProofAttempts, None
<1>2. RelayInit => TypesInv
  BY <1>1, RelayInitInv DEF TypesInv
<1>3. TypesInv /\ [RelayNext]_relayVars => TypesInv'
  BY RelayStepInv, RelayStepJobs, BoundsKept DEF TypesInv
<1>4. TypesInv => RelayTypeOK
  <2> SUFFICES ASSUME TypesInv PROVE RelayTypeOK
    OBVIOUS
  <2>1. proofJob \in [Lock -> [state: {None, "waiting", "active", "done", "failed"},
                               left: 0..ProofAttempts]]
    BY DEF TypesInv, RelayInv, WorldInv, JobsInv
  <2>2. \A w \in Prover : /\ prover[w].pc \in ProverStep
                          /\ prover[w].root \cup prover[w].todo \subseteq Lock
                          /\ prover[w].pc # "idle" => prover[w].job \in Lock
    BY DEF TypesInv, RelayInv, ProversInv, ProverRec, ProverOK
  <2>3. \A s \in Sender \cup Monitor :
          /\ sender[s].pc \in SenderStep
          /\ sender[s].root \cup sender[s].locks \cup sender[s].todo \subseteq Lock
          /\ sender[s].pc # "idle" => sender[s].block \in SourceBlock
          /\ sender[s].plan \subseteq Pending
    BY DEF TypesInv, RelayInv, SendersInv, SenderRec, SenderOK, Worker
  <2> QED
    BY <2>1, <2>2, <2>3 DEF TypesInv, RelayInv, WorldInv, BoundsInv, RelayTypeOK
<1> QED
  BY <1>2, <1>3, <1>4, PTL DEF RelaySpec
==============================================================================
