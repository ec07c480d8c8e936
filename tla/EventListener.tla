---------------------------- MODULE EventListener ----------------------------
(***************************************************************************)
(* services/eventListener.js for one chain, with the rows it writes        *)
(* (db/index.js) and the jobs it adds (proofQueue).  setInterval starts a  *)
(* poll whether or not the previous one has finished, so several workers   *)
(* of a process run the same asynchronous code, interleaved at its awaits, *)
(* over one lastProcessedBlock; every process of the cluster does so over  *)
(* the same rows and jobs.  A crash loses the variable and the workers of  *)
(* one process.                                                            *)
(*                                                                         *)
(* Definitions called Slip... are wrong on purpose and used by nothing:    *)
(* see BridgeTypes.                                                        *)
(***************************************************************************)
EXTENDS Integers, Sequences, FiniteSets

CONSTANTS
    Lock,              \* NFTLocked events of this chain
    Remote,            \* locks of the other chain whose NFTUnlocked is here
    Process,           \* processes that run a listener of this chain
    Overlap,           \* bound: polls of one process that may overlap
    MaxBlock,          \* bound: blocks mined
    MaxBlocksPerQuery, \* this.maxBlocksPerQuery
    Faults,            \* what may go wrong, a subset of FaultKind
    MaxFaults          \* bound: faults of a behaviour

\* rpc: a request fails; timeout: a request times out; boot: these also strike
\* during the catch-up; queue: Redis refuses a job; crash: a process dies;
\* orphan: an unlock may be seen before the row of its lock.
FaultKind == {"rpc", "timeout", "boot", "queue", "crash", "orphan"}

ASSUME ListenerAssumption ==
    /\ Lock \cap Remote = {}
    /\ {MaxBlock, MaxBlocksPerQuery, Overlap} \subseteq Nat \ {0}
    /\ MaxFaults \in Nat
    /\ Faults \subseteq FaultKind

VARIABLES
    blockOf,       \* the block of every event, fixed by the chain
    head,          \* the chain's block number
    indexed,       \* rows of lock_events for this chain
    remoteIndexed, \* rows of lock_events for the other chain
    jobs,          \* generate-proof jobs added for a lock
    unlockRows,    \* rows of unlock_events for a lock
    last,          \* this.lastProcessedBlock of every process
    phase,         \* of every process: start() not called, in catchUp, or polling
    worker,        \* the asynchronous calls of processBatch in progress
    base,          \* head when the listener of a process was first started
    faults         \* faults so far

listenerVars == <<blockOf, head, indexed, remoteIndexed, jobs, unlockRows,
                  last, phase, worker, base, faults>>
chainVars == <<blockOf, head>>
rowVars == <<indexed, jobs, unlockRows>>

\* Slot 0 of a process runs start(), the others its polls.
Boot(p) == <<p, 0>>
Poller == Process \X (1..Overlap)
Worker == Process \X (0..Overlap)
Home(w) == w[1]
NoEvent == "none"
NotStarted == -1
UnlockRowCap == 2   \* bound: further duplicates are not counted

Batch == [from: 1..MaxBlock, to: 1..MaxBlock, retry: BOOLEAN]
Smaller(a, b) == IF a < b THEN a ELSE b

SlipChunkEnd(end, to) == end
ChunkEnd(end, to) == Smaller(end, to)

\* processBatch's sub-batches of at most maxBlocksPerQuery blocks, and the
\* single blocks a timed-out batch is retried as.
Chunks(from, to) ==
    [i \in 1..((to - from + MaxBlocksPerQuery) \div MaxBlocksPerQuery) |->
        [from |-> from + (i - 1) * MaxBlocksPerQuery,
         to |-> ChunkEnd(from + i * MaxBlocksPerQuery - 1, to),
         retry |-> FALSE]]
Singles(r) ==
    [i \in 1..(r.to - r.from + 1) |->
        [from |-> r.from + i - 1, to |-> r.from + i - 1, retry |-> TRUE]]

EventsIn(events, r) == {e \in events : blockOf[e] \in r.from .. r.to}

Idle == [pc |-> "idle", plan |-> << >>, todo |-> {}, event |-> NoEvent]
\* Queries the lock events of the first batch of plan.
Enter(plan) ==
    IF plan = << >> THEN Idle
    ELSE [pc |-> "locks", plan |-> plan, event |-> NoEvent,
          todo |-> EventsIn(Lock, Head(plan))]

\* Events are handled in block order.
NextEvents(w) ==
    {e \in worker[w].todo : \A f \in worker[w].todo : blockOf[e] <= blockOf[f]}

ListenerTypeOK ==
    /\ blockOf \in [Lock \cup Remote -> 1..MaxBlock]
    /\ head \in 0..MaxBlock
    /\ indexed \subseteq Lock
    /\ remoteIndexed \subseteq Remote
    /\ jobs \in [Lock -> Nat]
    /\ unlockRows \in [Remote -> 0..UnlockRowCap]
    /\ last \in [Process -> 0..MaxBlock]
    /\ phase \in [Process -> {"stopped", "catchUp", "polling"}]
    /\ base \in [Process -> {NotStarted} \cup 0..MaxBlock]
    /\ faults \in 0..MaxFaults
    /\ \A w \in Worker :
         /\ worker[w].pc \in {"idle", "head", "locks", "enqueue", "unlocks"}
         /\ \A i \in DOMAIN worker[w].plan : worker[w].plan[i] \in Batch
         /\ worker[w].todo \subseteq Lock \cup Remote

ListenerInit ==
    /\ blockOf \in [Lock \cup Remote -> 1..MaxBlock]
    /\ head = 0
    /\ indexed = {}
    /\ remoteIndexed = IF "orphan" \in Faults THEN {} ELSE Remote
    /\ jobs = [l \in Lock |-> 0]
    /\ unlockRows = [r \in Remote |-> 0]
    /\ last = [p \in Process |-> 0]
    /\ phase = [p \in Process |-> "stopped"]
    /\ worker = [w \in Worker |-> Idle]
    /\ base = [p \in Process |-> NotStarted]
    /\ faults = 0

------------------------------------------------------------------------------
\* The chain and the other chain's listener.

MineBlock ==
    /\ head < MaxBlock
    /\ head' = head + 1
    /\ UNCHANGED <<blockOf, rowVars, remoteIndexed, last, phase, worker, base, faults>>

IndexRemote(r) ==
    /\ r \notin remoteIndexed
    /\ remoteIndexed' = remoteIndexed \cup {r}
    /\ UNCHANGED <<chainVars, rowVars, last, phase, worker, base, faults>>

------------------------------------------------------------------------------
\* start() and startPolling().

Fault == faults < MaxFaults /\ faults' = faults + 1

\* db.getLastProcessedBlock: the highest block of a lock_events row, if any.
LastProcessedBlock ==
    IF indexed = {} THEN head
    ELSE CHOOSE n \in {blockOf[l] : l \in indexed} :
            \A l \in indexed : blockOf[l] <= n

FirstStart(p) ==
    base' = IF base[p] = NotStarted THEN [base EXCEPT ![p] = head] ELSE base

Start(p) ==
    /\ phase[p] = "stopped"
    /\ phase' = [phase EXCEPT ![p] = "catchUp"]
    /\ last' = [last EXCEPT ![p] = LastProcessedBlock]
    /\ FirstStart(p)
    /\ worker' = [worker EXCEPT ![Boot(p)].pc = "head"]
    /\ UNCHANGED <<chainVars, rowVars, remoteIndexed, faults>>

\* The database or the chain fails before lastProcessedBlock is set: polling
\* starts from the current block, or from 0 if that cannot be had either.
StartFails(p) ==
    /\ phase[p] = "stopped"
    /\ "boot" \in Faults
    /\ Fault
    /\ phase' = [phase EXCEPT ![p] = "polling"]
    /\ \E n \in {0, head} : last' = [last EXCEPT ![p] = n]
    /\ FirstStart(p)
    /\ UNCHANGED <<chainVars, rowVars, remoteIndexed, worker>>

\* catchUp reads the block number once more.
CatchUp(p) ==
    /\ worker[Boot(p)].pc = "head"
    /\ worker' = [worker EXCEPT ![Boot(p)] = Enter(Chunks(last[p] + 1, head))]
    /\ UNCHANGED <<chainVars, rowVars, remoteIndexed, last, phase, base, faults>>

CaughtUp(p) ==
    /\ phase[p] = "catchUp"
    /\ worker[Boot(p)].pc = "idle"
    /\ phase' = [phase EXCEPT ![p] = "polling"]
    /\ UNCHANGED <<chainVars, rowVars, remoteIndexed, last, worker, base, faults>>

SlipBehind(p, current) == current > last[p] + 1
Behind(p, current) == current > last[p]

\* One tick of setInterval.  The block number was requested some time ago.
Poll(w, current) ==
    /\ phase[Home(w)] = "polling"
    /\ worker[w].pc = "idle"
    /\ current <= head
    /\ Behind(Home(w), current)
    /\ worker' = [worker EXCEPT ![w] = Enter(Chunks(last[Home(w)] + 1, current))]
    /\ UNCHANGED <<chainVars, rowVars, remoteIndexed, last, phase, base, faults>>

------------------------------------------------------------------------------
\* processBatch, handleLockEvent and handleUnlockEvent.

\* createLockEvent: ON CONFLICT DO NOTHING returns no row.
SlipCreatesRow(e) == TRUE
CreatesRow(e) == e \notin indexed

\* The handler returns early when there is no new row; otherwise it goes on
\* to add the job.
HandleLockEvent(w, e) ==
    /\ worker[w].pc = "locks"
    /\ e \in NextEvents(w)
    /\ indexed' = indexed \cup {e}
    /\ worker' = IF CreatesRow(e)
                 THEN [worker EXCEPT ![w].pc = "enqueue", ![w].event = e]
                 ELSE [worker EXCEPT ![w].todo = @ \ {e}]
    /\ UNCHANGED <<chainVars, remoteIndexed, jobs, unlockRows, last, phase, base, faults>>

AddJob(w) ==
    /\ worker[w].pc = "enqueue"
    /\ jobs' = [jobs EXCEPT ![worker[w].event] = @ + 1]
    /\ worker' = [worker EXCEPT ![w].pc = "locks", ![w].event = NoEvent,
                                ![w].todo = @ \ {worker[w].event}]
    /\ UNCHANGED <<chainVars, indexed, remoteIndexed, unlockRows, last, phase, base, faults>>

QueryUnlocks(w) ==
    /\ worker[w].pc = "locks"
    /\ worker[w].todo = {}
    /\ worker' = [worker EXCEPT ![w].pc = "unlocks",
                                ![w].todo = EventsIn(Remote, Head(worker[w].plan))]
    /\ UNCHANGED <<chainVars, rowVars, remoteIndexed, last, phase, base, faults>>

\* createUnlockEvent: a plain INSERT with a foreign key to lock_events.
CreateUnlockEvent(e) ==
    /\ e \in remoteIndexed
    /\ unlockRows' = [unlockRows EXCEPT ![e] = Smaller(@ + 1, UnlockRowCap)]

HandleUnlockEvent(w, e) ==
    /\ worker[w].pc = "unlocks"
    /\ e \in NextEvents(w)
    /\ CreateUnlockEvent(e)
    /\ worker' = [worker EXCEPT ![w].todo = @ \ {e}]
    /\ UNCHANGED <<chainVars, indexed, remoteIndexed, jobs, last, phase, base, faults>>

\* The batch is done: lastProcessedBlock moves to its end, whatever it is now.
Advance(w) ==
    /\ worker[w].pc = "unlocks"
    /\ worker[w].todo = {}
    /\ last' = [last EXCEPT ![Home(w)] = Head(worker[w].plan).to]
    /\ worker' = [worker EXCEPT ![w] = Enter(Tail(worker[w].plan))]
    /\ UNCHANGED <<chainVars, rowVars, remoteIndexed, phase, base, faults>>

------------------------------------------------------------------------------
\* Failures.

\* The catch of processBatch: a timed-out batch is retried block by block; a
\* failed retry returns to the caller, which goes on with its next batch.
Recovers(w, isTimeout) ==
    /\ worker[w].plan # << >>
    /\ LET batch == Head(worker[w].plan)
       IN  batch.retry \/ (isTimeout /\ batch.from < batch.to)
\* The retries of a plan are at its front.
Retries(plan) == Cardinality({i \in DOMAIN plan : plan[i].retry})
RecoveredPlan(w) ==
    LET plan == worker[w].plan
    IN  IF Head(plan).retry
        THEN SubSeq(plan, Retries(plan) + 1, Len(plan))
        ELSE Singles(Head(plan)) \o Tail(plan)

\* Any other error leaves processBatch: a poll gives up, and start() goes on
\* polling from the current block, or from where it was if even that block
\* number cannot be had.
SlipNextBatch(w) ==
    /\ worker' = [worker EXCEPT ![w] = Enter(Tail(worker[w].plan))]
    /\ UNCHANGED <<last, phase>>
GiveUp(w) ==
    /\ worker' = [worker EXCEPT ![w] = Idle]
    /\ IF w = Boot(Home(w))
       THEN /\ \E n \in {last[Home(w)], head} : last' = [last EXCEPT ![Home(w)] = n]
            /\ phase' = [phase EXCEPT ![Home(w)] = "polling"]
       ELSE UNCHANGED <<last, phase>>

Fail(w, isTimeout) ==
    IF Recovers(w, isTimeout)
    THEN /\ worker' = [worker EXCEPT ![w] = Enter(RecoveredPlan(w))]
         /\ UNCHANGED <<last, phase>>
    ELSE GiveUp(w)

RequestFails(w) ==
    /\ worker[w].pc \in {"head", "locks", "unlocks"}
    /\ "rpc" \in Faults
    /\ w = Boot(Home(w)) => "boot" \in Faults
    /\ Fault
    /\ Fail(w, FALSE)
    /\ UNCHANGED <<chainVars, rowVars, remoteIndexed, base>>

RequestTimesOut(w) ==
    /\ worker[w].pc \in {"head", "locks", "unlocks"}
    /\ "timeout" \in Faults
    /\ w = Boot(Home(w)) => "boot" \in Faults
    /\ Fault
    /\ Fail(w, TRUE)
    /\ UNCHANGED <<chainVars, rowVars, remoteIndexed, base>>

AddJobFails(w) ==
    /\ worker[w].pc = "enqueue"
    /\ "queue" \in Faults
    /\ Fault
    /\ Fail(w, FALSE)
    /\ UNCHANGED <<chainVars, rowVars, remoteIndexed, base>>

ForeignKeyFails(w) ==
    /\ worker[w].pc = "unlocks"
    /\ NextEvents(w) \ remoteIndexed # {}
    /\ Fail(w, FALSE)
    /\ UNCHANGED <<chainVars, rowVars, remoteIndexed, base, faults>>

\* A process dies; its supervisor starts it again.
Crash(p) ==
    /\ phase[p] # "stopped"
    /\ "crash" \in Faults
    /\ Fault
    /\ phase' = [phase EXCEPT ![p] = "stopped"]
    /\ last' = [last EXCEPT ![p] = 0]
    /\ worker' = [w \in Worker |-> IF Home(w) = p THEN Idle ELSE worker[w]]
    /\ UNCHANGED <<chainVars, rowVars, remoteIndexed, base>>

------------------------------------------------------------------------------
Work(w) ==
    \/ \E e \in Lock : HandleLockEvent(w, e)
    \/ AddJob(w)
    \/ QueryUnlocks(w)
    \/ \E e \in Remote : HandleUnlockEvent(w, e)
    \/ Advance(w)
    \/ ForeignKeyFails(w)

Environment ==
    \/ MineBlock
    \/ \E r \in Remote : IndexRemote(r)
    \/ \E w \in Worker : RequestFails(w) \/ RequestTimesOut(w) \/ AddJobFails(w)
    \/ \E p \in Process : StartFails(p) \/ Crash(p)

ListenerNext ==
    \/ \E p \in Process : Start(p) \/ CatchUp(p) \/ CaughtUp(p)
    \/ \E w \in Poller, current \in 1..MaxBlock : Poll(w, current)
    \/ \E w \in Worker : Work(w)
    \/ Environment

ListenerSpec == ListenerInit /\ [][ListenerNext]_listenerVars

\* The event loop runs every pending continuation and every timer, the
\* supervisor restarts a process, and the other listener indexes its locks.
Fairness ==
    /\ \A p \in Process :
          /\ WF_listenerVars(Start(p))
          /\ WF_listenerVars(CatchUp(p))
          /\ WF_listenerVars(CaughtUp(p))
          /\ WF_listenerVars(\E i \in 1..Overlap : Poll(<<p, i>>, head))
    /\ \A w \in Worker : WF_listenerVars(Work(w))
    /\ WF_listenerVars(MineBlock)
    /\ WF_listenerVars(\E r \in Remote : IndexRemote(r))

FairListenerSpec == ListenerSpec /\ Fairness

------------------------------------------------------------------------------
\* Properties.

\* Every lock in a block that a process counts as processed has its row, made
\* by this process or another: the README's "event listener never skips blocks".
Processed(p, l) == phase[p] # "stopped" /\ blockOf[l] \in (base[p] + 1)..last[p]
NoBlockSkipped == \A p \in Process, l \in Lock : Processed(p, l) => l \in indexed

\* A lock gets at most one job, although overlapping polls, retries and the
\* other processes of the cluster handle its event several times.
AtMostOneJob == \A l \in Lock : jobs[l] <= 1

\* A processed lock has its job: the README's "retries are safe" and
\* "idempotent lock event creation".
ProcessedLocksHaveJobs == \A p \in Process, l \in Lock : Processed(p, l) => jobs[l] = 1

\* Every lock made after a first start gets its job in the end.
EveryLockGetsJob ==
    \A p \in Process, l \in Lock :
        (base[p] # NotStarted /\ base[p] < blockOf[l]) ~> jobs[l] = 1
==============================================================================
