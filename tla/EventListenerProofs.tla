-------------------------- MODULE EventListenerProofs --------------------------
(***************************************************************************)
(* Proofs about EventListener, for any events, processes, blocks and       *)
(* overlapping polls: a lock gets at most one job and every variable keeps *)
(* its type whatever fails, and no block is skipped while requests are all *)
(* that fails.                                                             *)
(***************************************************************************)
EXTENDS EventListener, FiniteSetTheorems, WellFoundedInduction, SequenceTheorems, TLAPS

IsCall(r) ==
    \E pc, plan, todo, event :
        r = [pc |-> pc, plan |-> plan, todo |-> todo, event |-> event]
Enqueues(w) == worker[w].pc = "enqueue"

\* The inductive invariant behind AtMostOneJob.  A call that is about to add a
\* job has made the row of its lock itself, so no other call and no earlier one
\* adds a job for that lock.
JobInv ==
    /\ worker = [w \in Worker |-> worker[w]]
    /\ \A w \in Worker : IsCall(worker[w])
    /\ indexed \subseteq Lock
    /\ jobs \in [Lock -> 0..1]
    /\ \A l \in Lock \ indexed : jobs[l] = 0
    /\ \A w \in Worker : Enqueues(w) => worker[w].event \in indexed /\ jobs[worker[w].event] = 0
    /\ \A v, w \in Worker :
          Enqueues(v) /\ Enqueues(w) /\ worker[v].event = worker[w].event => v = w

\* Changing one local variable of a call leaves the others.
LEMMA CallExcept ==
    ASSUME NEW r, IsCall(r), NEW x
    PROVE  /\ IsCall([r EXCEPT !.pc = x])
           /\ [r EXCEPT !.pc = x].pc = x
           /\ [r EXCEPT !.pc = x].event = r.event
           /\ IsCall([r EXCEPT !.todo = x])
           /\ [r EXCEPT !.todo = x].pc = r.pc
           /\ [r EXCEPT !.todo = x].event = r.event
           /\ IsCall([r EXCEPT !.event = x])
           /\ [r EXCEPT !.event = x].pc = r.pc
           /\ [r EXCEPT !.event = x].event = x
<1>1. PICK pc, plan, todo, event :
          r = [pc |-> pc, plan |-> plan, todo |-> todo, event |-> event]
  BY DEF IsCall
<1>2. [r EXCEPT !.pc = x] = [pc |-> x, plan |-> plan, todo |-> todo, event |-> event]
  BY <1>1
<1>3. [r EXCEPT !.todo = x] = [pc |-> pc, plan |-> plan, todo |-> x, event |-> event]
  BY <1>1
<1>4. [r EXCEPT !.event = x] = [pc |-> pc, plan |-> plan, todo |-> todo, event |-> x]
  BY <1>1
<1>5. \A a, b, c, d : IsCall([pc |-> a, plan |-> b, todo |-> c, event |-> d])
  BY DEF IsCall
<1> QED
  BY <1>1, <1>2, <1>3, <1>4, <1>5

\* It holds initially.
LEMMA JobInitInv == ListenerInit => JobInv
<1> SUFFICES ASSUME ListenerInit PROVE JobInv
  OBVIOUS
<1>1. IsCall(Idle) /\ Idle.pc # "enqueue"
  BY DEF Idle, IsCall
<1>2. worker = [w \in Worker |-> Idle]
  BY DEF ListenerInit
<1> QED
  BY <1>1, <1>2 DEF ListenerInit, JobInv, Enqueues

\* A batch that is entered, or none, leaves a call that adds no job.
LEMMA EnterIsCall ==
    ASSUME NEW plan
    PROVE  IsCall(Enter(plan)) /\ Enter(plan).pc # "enqueue"
BY DEF Enter, Idle, IsCall

\* What most steps do: rows and jobs stay, and no call comes to add a job.
Quiet ==
    /\ UNCHANGED <<indexed, jobs>>
    /\ worker' = [w \in Worker |-> worker'[w]]
    /\ \A w \in Worker :
          IsCall(worker'[w]) /\ (worker'[w].pc = "enqueue" => worker'[w] = worker[w])

LEMMA QuietInv ==
    ASSUME JobInv, Quiet
    PROVE  JobInv'
BY DEF JobInv, Quiet, Enqueues

\* Replacing one call by one that adds no job is quiet.
LEMMA CallQuiet ==
    ASSUME JobInv, UNCHANGED <<indexed, jobs>>,
           NEW w, NEW r, IsCall(r), r.pc # "enqueue", worker' = [worker EXCEPT ![w] = r]
    PROVE  Quiet
<1>1. \A v \in Worker : worker'[v] = r \/ worker'[v] = worker[v]
  BY DEF JobInv
<1>2. worker' = [v \in Worker |-> worker'[v]]
  BY DEF JobInv
<1> QED
  BY <1>1, <1>2 DEF JobInv, Quiet

LEMMA EnterQuiet ==
    ASSUME JobInv, UNCHANGED <<indexed, jobs>>,
           NEW w, NEW plan, worker' = [worker EXCEPT ![w] = Enter(plan)]
    PROVE  Quiet
BY EnterIsCall, CallQuiet

\* start() and the polls.
LEMMA StartQuiet ==
    ASSUME JobInv, NEW p \in Process,
           Start(p) \/ StartFails(p) \/ CatchUp(p) \/ CaughtUp(p)
    PROVE  Quiet
<1>1. CASE Start(p)
  <2> DEFINE q == worker[Boot(p)]
             r == [q EXCEPT !.pc = "head"]
  <2>1. Boot(p) \in Worker
    BY ListenerAssumption DEF Boot, Worker
  <2>2. IsCall(q)
    BY <2>1 DEF JobInv
  <2>3. IsCall(r) /\ r.pc = "head"
    BY <2>2, CallExcept
  <2>4. worker' = [worker EXCEPT ![Boot(p)] = r]
    BY <1>1 DEF Start
  <2> HIDE DEF r
  <2> QED
    BY <1>1, <2>3, <2>4, CallQuiet DEF Start, rowVars
<1>2. CASE CatchUp(p)
  BY <1>2, EnterQuiet DEF CatchUp, rowVars
<1>3. CASE StartFails(p) \/ CaughtUp(p)
  BY <1>3 DEF StartFails, CaughtUp, rowVars, Quiet, JobInv
<1> QED
  BY <1>1, <1>2, <1>3

\* Failures: the call goes on with other batches, or ends.
LEMMA FailQuiet ==
    ASSUME JobInv, UNCHANGED <<indexed, jobs>>, NEW w \in Worker, NEW isTimeout,
           Fail(w, isTimeout)
    PROVE  Quiet
<1>1. Idle = Enter(<<>>)
  BY DEF Enter
<1>2. \E plan : worker' = [worker EXCEPT ![w] = Enter(plan)]
  BY <1>1 DEF Fail, GiveUp
<1> QED
  BY <1>2, EnterQuiet

LEMMA EnvironmentQuiet ==
    ASSUME JobInv, Environment
    PROVE  Quiet
<1>1. CASE MineBlock \/ \E r \in Remote : IndexRemote(r)
  BY <1>1 DEF MineBlock, IndexRemote, rowVars, Quiet, JobInv
<1>2. ASSUME NEW w \in Worker, RequestFails(w) \/ RequestTimesOut(w) \/ AddJobFails(w)
      PROVE  Quiet
  BY <1>2, FailQuiet DEF RequestFails, RequestTimesOut, AddJobFails, rowVars
<1>3. ASSUME NEW p \in Process, Crash(p)
      PROVE  Quiet
  <2>1. worker' = [w \in Worker |-> IF Home(w) = p THEN Idle ELSE worker[w]]
    BY <1>3 DEF Crash
  <2>2. IsCall(Idle) /\ Idle.pc # "enqueue"
    BY DEF Idle, IsCall
  <2> QED
    BY <1>3, <2>1, <2>2 DEF Crash, rowVars, Quiet, JobInv
<1> QED
  BY <1>1, <1>2, <1>3, StartQuiet DEF Environment

\* The steps of processBatch that neither make a row nor add a job.
LEMMA WorkQuiet ==
    ASSUME JobInv, NEW w \in Worker,
           \/ QueryUnlocks(w)
           \/ \E e \in Remote : HandleUnlockEvent(w, e)
           \/ Advance(w)
           \/ ForeignKeyFails(w)
    PROVE  Quiet
<1> DEFINE r == worker[w]
<1>0. IsCall(r)
  BY DEF JobInv
<1>1. CASE QueryUnlocks(w)
  <2> DEFINE s == [r EXCEPT !.pc = "unlocks"]
             t == [s EXCEPT !.todo = EventsIn(Remote, Head(r.plan))]
  <2>1. worker' = [worker EXCEPT ![w] = t]
    BY <1>1 DEF QueryUnlocks, JobInv
  <2>2. IsCall(s) /\ s.pc = "unlocks"
    BY <1>0, CallExcept
  <2>3. IsCall(t) /\ t.pc # "enqueue"
    BY <2>2, CallExcept
  <2> HIDE DEF t
  <2> QED
    BY <1>1, <2>1, <2>3, CallQuiet DEF QueryUnlocks, rowVars
<1>2. ASSUME NEW e \in Remote, HandleUnlockEvent(w, e)
      PROVE  Quiet
  <2> DEFINE t == [r EXCEPT !.todo = r.todo \ {e}]
  <2>1. worker' = [worker EXCEPT ![w] = t]
    BY <1>2 DEF HandleUnlockEvent, JobInv
  <2>2. IsCall(t) /\ t.pc # "enqueue"
    BY <1>2, CallExcept DEF HandleUnlockEvent, JobInv
  <2> HIDE DEF t
  <2> QED
    BY <1>2, <2>1, <2>2, CallQuiet DEF HandleUnlockEvent
<1>3. CASE Advance(w)
  BY <1>3, EnterQuiet DEF Advance, rowVars
<1>4. CASE ForeignKeyFails(w)
  BY <1>4, FailQuiet DEF ForeignKeyFails, rowVars
<1> QED
  BY <1>1, <1>2, <1>3, <1>4

\* A call that makes the row of a lock is the only one to go on to its job.
LEMMA HandleLockEventInv ==
    ASSUME JobInv, NEW w \in Worker, NEW e \in Lock, HandleLockEvent(w, e)
    PROVE  JobInv'
<1> DEFINE r == worker[w]
<1>0. IsCall(r)
  BY DEF JobInv
<1>1. CASE e \in indexed
  <2> DEFINE t == [r EXCEPT !.todo = r.todo \ {e}]
  <2>1. worker' = [worker EXCEPT ![w] = t]
    BY <1>1 DEF HandleLockEvent, CreatesRow
  <2>2. IsCall(t) /\ t.pc # "enqueue"
    BY CallExcept DEF HandleLockEvent, JobInv
  <2>3. UNCHANGED <<indexed, jobs>>
    BY <1>1 DEF HandleLockEvent
  <2> HIDE DEF t
  <2> QED
    BY <2>1, <2>2, <2>3, CallQuiet, QuietInv
<1>2. CASE e \notin indexed
  <2> DEFINE s == [r EXCEPT !.pc = "enqueue"]
             t == [s EXCEPT !.event = e]
  <2>1. worker' = [worker EXCEPT ![w] = t]
    BY <1>2 DEF HandleLockEvent, CreatesRow, JobInv
  <2>2. IsCall(s) /\ s.pc = "enqueue"
    BY <1>0, CallExcept
  <2>3. IsCall(t) /\ t.pc = "enqueue" /\ t.event = e
    BY <2>2, CallExcept
  <2>4. indexed' = indexed \cup {e} /\ jobs' = jobs
    BY DEF HandleLockEvent
  <2> HIDE DEF t
  <2>5. /\ worker' = [v \in Worker |-> worker'[v]]
        /\ worker'[w] = t
        /\ \A v \in Worker \ {w} : worker'[v] = worker[v]
    BY <2>1 DEF JobInv
  <2> QED
    BY <1>2, <2>3, <2>4, <2>5 DEF JobInv, Enqueues
<1> QED
  BY <1>1, <1>2

\* The job it adds is the first of its lock.
LEMMA AddJobInv ==
    ASSUME JobInv, NEW w \in Worker, AddJob(w)
    PROVE  JobInv'
<1> DEFINE r == worker[w]
           e == r.event
           s == [r EXCEPT !.pc = "locks"]
           t == [s EXCEPT !.event = NoEvent]
           u == [t EXCEPT !.todo = r.todo \ {e}]
<1>0. IsCall(r)
  BY DEF JobInv
<1>1. e \in indexed /\ e \in Lock /\ jobs[e] = 0 /\ Enqueues(w)
  BY DEF JobInv, AddJob, Enqueues
<1>2. IsCall(s) /\ s.pc = "locks"
  BY <1>0, CallExcept
<1>3. IsCall(t) /\ t.pc = "locks"
  BY <1>2, CallExcept
<1>4. IsCall(u) /\ u.pc = "locks"
  BY <1>3, CallExcept
<1>5. worker' = [worker EXCEPT ![w] = u]
  BY DEF AddJob, JobInv, IsCall
<1>6. indexed' = indexed /\ jobs' \in [Lock -> 0..1] /\ \A l \in Lock \ {e} : jobs'[l] = jobs[l]
  BY <1>1 DEF AddJob, JobInv
<1> HIDE DEF u
<1>7. /\ worker' = [v \in Worker |-> worker'[v]]
      /\ worker'[w] = u
      /\ \A v \in Worker \ {w} : worker'[v] = worker[v]
  BY <1>5 DEF JobInv
<1> QED
  BY <1>1, <1>4, <1>6, <1>7 DEF JobInv, Enqueues

\* Every step preserves the invariant.
LEMMA JobStepInv == JobInv /\ [ListenerNext]_listenerVars => JobInv'
<1> SUFFICES ASSUME JobInv, [ListenerNext]_listenerVars PROVE JobInv'
  OBVIOUS
<1>1. ASSUME NEW p \in Process, Start(p) \/ CatchUp(p) \/ CaughtUp(p) PROVE JobInv'
  BY <1>1, StartQuiet, QuietInv
<1>2. ASSUME NEW w \in Poller, NEW current \in 1..MaxBlock, Poll(w, current) PROVE JobInv'
  BY <1>2, EnterQuiet, QuietInv DEF Poll, rowVars
<1>3. ASSUME NEW w \in Worker, Work(w) PROVE JobInv'
  BY <1>3, WorkQuiet, QuietInv, HandleLockEventInv, AddJobInv DEF Work
<1>4. CASE Environment
  BY <1>4, EnvironmentQuiet, QuietInv
<1>5. CASE UNCHANGED listenerVars
  BY <1>5 DEF listenerVars, JobInv, Enqueues
<1> QED
  BY <1>1, <1>2, <1>3, <1>4, <1>5 DEF ListenerNext

\* The invariant holds in every behaviour of the listeners.
THEOREM JobInvariant == ListenerSpec => []JobInv
BY JobInitInv, JobStepInv, PTL DEF ListenerSpec

\* A lock gets at most one proof job, however many processes, overlapping
\* polls, retries and restarts read its event.
THEOREM OneJobPerLock == ListenerSpec => []AtMostOneJob
<1>1. JobInv => AtMostOneJob
  BY DEF JobInv, AtMostOneJob
<1> QED
  BY <1>1, JobInvariant, PTL
------------------------------------------------------------------------------
(***************************************************************************)
(* ListenerTypeOK, whatever fails.  The batches are those of blocks that   *)
(* were mined: chunks start at or before their last block, and a retry is  *)
(* a block of a batch.                                                     *)
(***************************************************************************)
TypedCall ==
    [pc : {"idle", "head", "locks", "enqueue", "unlocks"}, plan : Seq(Batch),
     todo : SUBSET (Lock \cup Remote), event : Lock \cup {NoEvent}]

\* A call that handles events has a batch in hand.
Fit(r) == r \in TypedCall /\ (r.plan = <<>> => r.pc \in {"idle", "head"})

ScalarsOK ==
    /\ blockOf \in [Lock \cup Remote -> 1..MaxBlock]
    /\ head \in 0..MaxBlock
    /\ indexed \subseteq Lock
    /\ remoteIndexed \subseteq Remote
    /\ jobs \in [Lock -> Nat]
    /\ unlockRows \in [Remote -> 0..UnlockRowCap]
    /\ last \in [Process -> 0..MaxBlock]
    /\ phase \in [Process -> {"stopped", "catchUp", "polling"}]
    /\ base \in [Process -> {NotStarted} \cup 0..MaxBlock]
    /\ faults \in 0..MaxFaults
CallsFit == worker = [w \in Worker |-> worker[w]] /\ \A w \in Worker : Fit(worker[w])

\* The inductive invariant behind ListenerTypeOK.
TypeInv == ScalarsOK /\ CallsFit

\* 1. The plans.
\* Arithmetic of the chunks.
LEMMA DivBound ==
    ASSUME NEW m \in Nat \ {0}, NEW a \in Int, NEW k \in Nat \ {0}, k <= a \div m
    PROVE  k * m <= a
OBVIOUS

\* A set of block numbers that is not empty has a largest element.
LEMMA LargestBlock ==
    ASSUME NEW S, S \subseteq 1..MaxBlock, S # {}
    PROVE  \E n \in S : \A m \in S : m <= n
<1> DEFINE T == {MaxBlock - n : n \in S}
           R == {r \in Nat \X Nat : r[1] < r[2]}
<1>0. MaxBlock \in Nat
  BY ListenerAssumption
<1>1. T \subseteq Nat /\ T # {}
  <2>1. \A n \in S : MaxBlock - n \in Nat
    BY <1>0
  <2>2. PICK n \in S : TRUE
    OBVIOUS
  <2>3. MaxBlock - n \in T
    OBVIOUS
  <2> QED
    BY <2>1, <2>3
<1>2. IsWellFoundedOn(R, Nat)
  BY NatLessThanWellFounded DEF OpToRel
<1>3. PICK k \in T : \A m \in T : <<m, k>> \notin R
  <2> HIDE DEF R, T
  <2> QED
    BY <1>1, <1>2, WFMin
<1>4. PICK n \in S : k = MaxBlock - n
  OBVIOUS
<1>5. \A m \in S : MaxBlock - m \in T /\ ~(MaxBlock - m < k)
  <2> TAKE m \in S
  <2>1. MaxBlock - m \in T
    OBVIOUS
  <2>2. <<MaxBlock - m, k>> \notin R
    BY <2>1, <1>3
  <2> QED
    BY <2>1, <2>2, <1>1
<1> HIDE DEF T, R
<1> QED
  BY <1>0, <1>4, <1>5

LEMMA ChunksTyped ==
    ASSUME NEW a \in 1..(MaxBlock + 1), NEW b \in 0..MaxBlock
    PROVE  Chunks(a, b) \in Seq(Batch)
<1> DEFINE M == MaxBlocksPerQuery
           n == (b - a + M) \div M
           chunk(i) == [from |-> a + (i - 1) * M, to |-> ChunkEnd(a + i * M - 1, b), retry |-> FALSE]
<1>1. M \in Nat \ {0} /\ MaxBlock \in Nat /\ n \in Int /\ a \in Int /\ b \in Int
  BY ListenerAssumption
<1>2. Chunks(a, b) = [i \in 1..n |-> chunk(i)]
  BY DEF Chunks
<1>3. ASSUME NEW i \in 1..n PROVE chunk(i) \in Batch
  <2>1. i * M <= b - a + M
    BY <1>1, DivBound
  <2>2. (i - 1) * M \in Nat /\ (i - 1) * M = i * M - M /\ i * M \in Nat
    BY <1>1
  <2>3. a + (i - 1) * M \in 1..MaxBlock
    BY <1>1, <2>1, <2>2
  <2>4. ChunkEnd(a + i * M - 1, b) \in 1..MaxBlock
    BY <1>1, <2>1, <2>2 DEF ChunkEnd, Smaller
  <2> QED
    BY <2>3, <2>4 DEF Batch
<1> HIDE DEF n, chunk
<1>4. CASE n \in Nat
  BY <1>2, <1>3, <1>4
<1>5. CASE n \notin Nat
  <2>1. 1..n = {}
    BY <1>1, <1>5
  <2>2. Chunks(a, b) = <<>>
    BY <1>2, <2>1
  <2> QED
    BY <2>2
<1> QED
  BY <1>4, <1>5

LEMMA SinglesTyped ==
    ASSUME NEW r \in Batch
    PROVE  Singles(r) \in Seq(Batch)
<1> DEFINE n == r.to - r.from + 1
           single(i) == [from |-> r.from + i - 1, to |-> r.from + i - 1, retry |-> TRUE]
<1>1. r.from \in 1..MaxBlock /\ r.to \in 1..MaxBlock /\ MaxBlock \in Nat
  BY ListenerAssumption DEF Batch
<1>2. Singles(r) = [i \in 1..n |-> single(i)]
  BY DEF Singles
<1>3. n \in Int /\ \A i \in 1..n : r.from + i - 1 \in 1..MaxBlock
  BY <1>1
<1>4. \A i \in 1..n : single(i) \in Batch
  BY <1>3 DEF Batch
<1> HIDE DEF n, single
<1>5. CASE n \in Nat
  BY <1>2, <1>4, <1>5
<1>6. CASE n \notin Nat
  <2>1. 1..n = {}
    BY <1>3, <1>6
  <2>2. Singles(r) = <<>>
    BY <1>2, <2>1
  <2> QED
    BY <2>2
<1> QED
  BY <1>5, <1>6

LEMMA RetriesType ==
    ASSUME NEW plan \in Seq(Batch)
    PROVE  Retries(plan) \in Nat
<1>1. Len(plan) \in Nat /\ DOMAIN plan = 1..Len(plan)
  OBVIOUS
<1>2. IsFiniteSet(1..Len(plan))
  BY <1>1, FS_Interval
<1>3. {i \in DOMAIN plan : plan[i].retry} \in SUBSET (1..Len(plan))
  BY <1>1
<1>4. IsFiniteSet({i \in DOMAIN plan : plan[i].retry})
  BY <1>2, <1>3, FS_Subset
<1> QED
  BY <1>4, FS_CardinalityType DEF Retries

LEMMA RecoveredTyped ==
    ASSUME NEW w, Fit(worker[w]), worker[w].plan # <<>>
    PROVE  RecoveredPlan(w) \in Seq(Batch)
<1> DEFINE plan == worker[w].plan
<1>1. plan \in Seq(Batch) /\ plan # <<>>
  BY DEF Fit, TypedCall
<1> HIDE DEF plan
<1>2. Head(plan) \in Batch /\ Tail(plan) \in Seq(Batch) /\ Len(plan) \in Nat
  BY <1>1
<1>3. Retries(plan) \in Nat
  BY <1>1, RetriesType
<1>4. SubSeq(plan, Retries(plan) + 1, Len(plan)) \in Seq(Batch)
  BY <1>1, <1>2, <1>3, SubSeqProperties
<1>5. Singles(Head(plan)) \o Tail(plan) \in Seq(Batch)
  <2>1. Singles(Head(plan)) \in Seq(Batch)
    BY <1>2, SinglesTyped
  <2> QED
    BY <1>2, <2>1
<1> QED
  BY <1>4, <1>5 DEF RecoveredPlan, plan

\* 2. The calls.
\* Changing one local variable of a call, and two or three of them.
LEMMA CallWith ==
    ASSUME NEW r, IsCall(r), NEW x
    PROVE  /\ [r EXCEPT !.pc = x]
              = [pc |-> x, plan |-> r.plan, todo |-> r.todo, event |-> r.event]
           /\ [r EXCEPT !.todo = x]
              = [pc |-> r.pc, plan |-> r.plan, todo |-> x, event |-> r.event]
           /\ [r EXCEPT !.event = x]
              = [pc |-> r.pc, plan |-> r.plan, todo |-> r.todo, event |-> x]
<1>1. PICK pc, plan, todo, event :
          r = [pc |-> pc, plan |-> plan, todo |-> todo, event |-> event]
  BY DEF IsCall
<1>2. r.pc = pc /\ r.plan = plan /\ r.todo = todo /\ r.event = event
  BY <1>1
<1>3. [r EXCEPT !.pc = x] = [pc |-> x, plan |-> plan, todo |-> todo, event |-> event]
  BY <1>1
<1>4. [r EXCEPT !.todo = x] = [pc |-> pc, plan |-> plan, todo |-> x, event |-> event]
  BY <1>1
<1>5. [r EXCEPT !.event = x] = [pc |-> pc, plan |-> plan, todo |-> todo, event |-> x]
  BY <1>1
<1> QED
  BY <1>2, <1>3, <1>4, <1>5

LEMMA CallWithTodo ==
    ASSUME NEW r, IsCall(r), NEW x, NEW y
    PROVE  [[r EXCEPT !.pc = x] EXCEPT !.todo = y]
           = [pc |-> x, plan |-> r.plan, todo |-> y, event |-> r.event]
<1> DEFINE s == [r EXCEPT !.pc = x]
<1>1. s = [pc |-> x, plan |-> r.plan, todo |-> r.todo, event |-> r.event]
  BY CallWith
<1> HIDE DEF s
<1>2. IsCall(s) /\ s.pc = x /\ s.plan = r.plan /\ s.event = r.event
  BY <1>1 DEF IsCall
<1>3. [s EXCEPT !.todo = y] = [pc |-> s.pc, plan |-> s.plan, todo |-> y, event |-> s.event]
  BY <1>2, CallWith
<1>4. [s EXCEPT !.todo = y] = [pc |-> x, plan |-> r.plan, todo |-> y, event |-> r.event]
  BY <1>2, <1>3
<1> QED
  BY <1>4 DEF s

LEMMA CallWithEvent ==
    ASSUME NEW r, IsCall(r), NEW x, NEW y
    PROVE  [[r EXCEPT !.pc = x] EXCEPT !.event = y]
           = [pc |-> x, plan |-> r.plan, todo |-> r.todo, event |-> y]
<1> DEFINE s == [r EXCEPT !.pc = x]
<1>1. s = [pc |-> x, plan |-> r.plan, todo |-> r.todo, event |-> r.event]
  BY CallWith
<1> HIDE DEF s
<1>2. IsCall(s) /\ s.pc = x /\ s.plan = r.plan /\ s.todo = r.todo
  BY <1>1 DEF IsCall
<1>3. [s EXCEPT !.event = y] = [pc |-> s.pc, plan |-> s.plan, todo |-> s.todo, event |-> y]
  BY <1>2, CallWith
<1>4. [s EXCEPT !.event = y] = [pc |-> x, plan |-> r.plan, todo |-> r.todo, event |-> y]
  BY <1>2, <1>3
<1> QED
  BY <1>4 DEF s

LEMMA CallWithJob ==
    ASSUME NEW r, IsCall(r), NEW x, NEW y, NEW z
    PROVE  [[[r EXCEPT !.pc = x] EXCEPT !.event = y] EXCEPT !.todo = z]
           = [pc |-> x, plan |-> r.plan, todo |-> z, event |-> y]
<1> DEFINE t == [[r EXCEPT !.pc = x] EXCEPT !.event = y]
<1>1. t = [pc |-> x, plan |-> r.plan, todo |-> r.todo, event |-> y]
  BY CallWithEvent
<1> HIDE DEF t
<1>2. IsCall(t) /\ t.pc = x /\ t.plan = r.plan /\ t.event = y
  BY <1>1 DEF IsCall
<1>3. [t EXCEPT !.todo = z] = [pc |-> t.pc, plan |-> t.plan, todo |-> z, event |-> t.event]
  BY <1>2, CallWith
<1>4. [t EXCEPT !.todo = z] = [pc |-> x, plan |-> r.plan, todo |-> z, event |-> y]
  BY <1>2, <1>3
<1> QED
  BY <1>4 DEF t

LEMMA IdleFits == Fit(Idle)
BY DEF Fit, Idle, TypedCall

LEMMA EnterFits ==
    ASSUME NEW plan \in Seq(Batch)
    PROVE  Fit(Enter(plan))
<1>1. EventsIn(Lock, Head(plan)) \subseteq Lock
  BY DEF EventsIn
<1> QED
  BY <1>1, IdleFits DEF Enter, Fit, TypedCall

\* A call with other local variables and the same plan.
LEMMA FitWith ==
    ASSUME NEW r, Fit(r), r.plan # <<>>,
           NEW pc \in {"locks", "enqueue", "unlocks"},
           NEW todo \in SUBSET (Lock \cup Remote), NEW event \in Lock \cup {NoEvent}
    PROVE  Fit([pc |-> pc, plan |-> r.plan, todo |-> todo, event |-> event])
BY DEF Fit, TypedCall

LEMMA FitFields ==
    ASSUME NEW r, Fit(r)
    PROVE  /\ IsCall(r)
           /\ r.pc \in {"idle", "head", "locks", "enqueue", "unlocks"}
           /\ r.pc \in {"locks", "enqueue", "unlocks"} => r.plan # <<>>
           /\ r.todo \in SUBSET (Lock \cup Remote) /\ r.event \in Lock \cup {NoEvent}
           /\ r.plan \in Seq(Batch)
BY DEF Fit, TypedCall, IsCall

LEMMA CallsFitStep ==
    ASSUME CallsFit, NEW w, NEW r, Fit(r), worker' = [worker EXCEPT ![w] = r]
    PROVE  CallsFit'
<1>1. \A v \in Worker : worker'[v] = r \/ worker'[v] = worker[v]
  BY DEF CallsFit
<1>2. worker' = [v \in Worker |-> worker'[v]]
  BY DEF CallsFit
<1> QED
  BY <1>1, <1>2 DEF CallsFit

LEMMA EnterFitStep ==
    ASSUME CallsFit, NEW w, NEW plan \in Seq(Batch), worker' = [worker EXCEPT ![w] = Enter(plan)]
    PROVE  CallsFit'
BY EnterFits, CallsFitStep

\* 3. The steps.
LEMMA TypeInitInv == ListenerInit => TypeInv
<1> SUFFICES ASSUME ListenerInit PROVE TypeInv
  OBVIOUS
<1>1. CallsFit
  BY IdleFits DEF ListenerInit, CallsFit
<1>2. ScalarsOK
  BY ListenerAssumption DEF ListenerInit, ScalarsOK, UnlockRowCap
<1> QED
  BY <1>1, <1>2 DEF TypeInv

LEMMA LastProcessedType ==
    ASSUME ScalarsOK
    PROVE  LastProcessedBlock \in 0..MaxBlock
<1> DEFINE S == {blockOf[l] : l \in indexed}
<1>1. CASE indexed = {}
  BY <1>1 DEF ScalarsOK, LastProcessedBlock
<1>2. CASE indexed # {}
  <2>1. S \subseteq 1..MaxBlock /\ S # {}
    BY <1>2 DEF ScalarsOK
  <2>2. \E n \in S : \A m \in S : m <= n
    <3> HIDE DEF S
    <3> QED
      BY <2>1, LargestBlock
  <2>3. \E n \in S : \A l \in indexed : blockOf[l] <= n
    BY <2>2
  <2>4. LastProcessedBlock = CHOOSE n \in S : \A l \in indexed : blockOf[l] <= n
    BY <1>2 DEF LastProcessedBlock
  <2> HIDE DEF S
  <2>5. LastProcessedBlock \in S
    BY <2>3, <2>4
  <2> QED
    BY <2>1, <2>5, ListenerAssumption
<1> QED
  BY <1>1, <1>2

LEMMA BootIsWorker ==
    ASSUME NEW p \in Process
    PROVE  Boot(p) \in Worker /\ Home(Boot(p)) = p
BY ListenerAssumption DEF Boot, Worker, Home

LEMMA HomeIsProcess ==
    ASSUME NEW w \in Worker
    PROVE  Home(w) \in Process
BY DEF Worker, Home

LEMMA StartType ==
    ASSUME TypeInv, NEW p \in Process, Start(p)
    PROVE  TypeInv'
<1> DEFINE q == worker[Boot(p)]
           r == [pc |-> "head", plan |-> q.plan, todo |-> q.todo, event |-> q.event]
<1>1. Fit(q)
  BY BootIsWorker DEF TypeInv, CallsFit
<1>2. Fit(r)
  BY <1>1 DEF Fit, TypedCall
<1>3. worker' = [worker EXCEPT ![Boot(p)] = [q EXCEPT !.pc = "head"]]
  BY DEF Start
<1>4. [q EXCEPT !.pc = "head"] = r
  <2> HIDE DEF q
  <2> QED
    BY <1>1, FitFields, CallWith
<1> HIDE DEF r
<1>5. CallsFit'
  BY <1>2, <1>3, <1>4, CallsFitStep DEF TypeInv
<1>6. LastProcessedBlock \in 0..MaxBlock
  BY LastProcessedType DEF TypeInv
<1>7. base' \in [Process -> {NotStarted} \cup 0..MaxBlock]
  BY DEF Start, FirstStart, TypeInv, ScalarsOK
<1>8. ScalarsOK'
  BY <1>6, <1>7 DEF Start, chainVars, rowVars, TypeInv, ScalarsOK
<1> QED
  BY <1>5, <1>8 DEF TypeInv

LEMMA FaultType ==
    ASSUME faults \in 0..MaxFaults, Fault
    PROVE  faults' \in 0..MaxFaults
BY ListenerAssumption DEF Fault

LEMMA StartFailsType ==
    ASSUME TypeInv, NEW p \in Process, StartFails(p)
    PROVE  TypeInv'
<1>1. faults' \in 0..MaxFaults
  BY FaultType DEF StartFails, TypeInv, ScalarsOK
<1>2. last' \in [Process -> 0..MaxBlock]
  <2>1. PICK n \in {0, head} : last' = [last EXCEPT ![p] = n]
    BY DEF StartFails
  <2>2. n \in 0..MaxBlock
    BY <2>1, ListenerAssumption DEF TypeInv, ScalarsOK
  <2> QED
    BY <2>1, <2>2 DEF TypeInv, ScalarsOK
<1>3. base' \in [Process -> {NotStarted} \cup 0..MaxBlock]
  BY DEF StartFails, FirstStart, TypeInv, ScalarsOK
<1> QED
  BY <1>1, <1>2, <1>3 DEF StartFails, chainVars, rowVars, TypeInv, ScalarsOK, CallsFit

LEMMA EnterBlocksType ==
    ASSUME TypeInv, NEW w, NEW p \in Process, NEW n \in 0..MaxBlock,
           worker' = [worker EXCEPT ![w] = Enter(Chunks(last[p] + 1, n))]
    PROVE  CallsFit'
<1>1. last[p] + 1 \in 1..(MaxBlock + 1)
  BY ListenerAssumption DEF TypeInv, ScalarsOK
<1>2. Chunks(last[p] + 1, n) \in Seq(Batch)
  BY <1>1, ChunksTyped
<1> QED
  BY <1>2, EnterFitStep DEF TypeInv

LEMMA CatchUpType ==
    ASSUME TypeInv, NEW p \in Process, CatchUp(p)
    PROVE  TypeInv'
<1>1. CallsFit'
  BY EnterBlocksType DEF CatchUp, TypeInv, ScalarsOK
<1> QED
  BY <1>1 DEF CatchUp, chainVars, rowVars, TypeInv, ScalarsOK

LEMMA CaughtUpType ==
    ASSUME TypeInv, NEW p \in Process, CaughtUp(p)
    PROVE  TypeInv'
BY DEF CaughtUp, chainVars, rowVars, TypeInv, ScalarsOK, CallsFit

LEMMA PollType ==
    ASSUME TypeInv, NEW w \in Poller, NEW current \in 1..MaxBlock, Poll(w, current)
    PROVE  TypeInv'
<1>1. Home(w) \in Process /\ current \in 0..MaxBlock
  BY ListenerAssumption DEF Poller, Home
<1>2. CallsFit'
  BY <1>1, EnterBlocksType DEF Poll
<1> QED
  BY <1>2 DEF Poll, chainVars, rowVars, TypeInv, ScalarsOK

LEMMA HandleLockEventType ==
    ASSUME TypeInv, NEW w \in Worker, NEW e \in Lock, HandleLockEvent(w, e)
    PROVE  TypeInv'
<1> DEFINE r == worker[w]
           s == [pc |-> "enqueue", plan |-> r.plan, todo |-> r.todo, event |-> e]
           t == [pc |-> "locks", plan |-> r.plan, todo |-> r.todo \ {e}, event |-> r.event]
<1>1. Fit(r) /\ r.pc = "locks"
  BY DEF TypeInv, CallsFit, HandleLockEvent
<1>2. worker' = [worker EXCEPT ![w] = [[r EXCEPT !.pc = "enqueue"] EXCEPT !.event = e]]
      \/ worker' = [worker EXCEPT ![w] = [r EXCEPT !.todo = r.todo \ {e}]]
  BY DEF HandleLockEvent, TypeInv, CallsFit
<1>3. IsCall(r) /\ r.plan # <<>> /\ r.todo \in SUBSET (Lock \cup Remote)
      /\ r.event \in Lock \cup {NoEvent}
  BY <1>1, FitFields
<1> HIDE DEF r
<1>4. [[r EXCEPT !.pc = "enqueue"] EXCEPT !.event = e] = s
      /\ [r EXCEPT !.todo = r.todo \ {e}] = t
  <2>0. IsCall(r)
    BY <1>3
  <2>1. [[r EXCEPT !.pc = "enqueue"] EXCEPT !.event = e] = s
    BY <2>0, CallWithEvent
  <2>2. [r EXCEPT !.todo = r.todo \ {e}]
        = [pc |-> r.pc, plan |-> r.plan, todo |-> r.todo \ {e}, event |-> r.event]
    BY <1>3, CallWith
  <2> QED
    BY <1>1, <2>1, <2>2
<1>5. Fit(s) /\ Fit(t)
  BY <1>1, <1>3, FitWith
<1> HIDE DEF s, t
<1>6. CallsFit'
  BY <1>2, <1>4, <1>5, CallsFitStep DEF TypeInv
<1> QED
  BY <1>6 DEF HandleLockEvent, chainVars, TypeInv, ScalarsOK

LEMMA AddJobType ==
    ASSUME TypeInv, NEW w \in Worker, AddJob(w)
    PROVE  TypeInv'
<1> DEFINE r == worker[w]
           s == [pc |-> "locks", plan |-> r.plan, todo |-> r.todo \ {r.event}, event |-> NoEvent]
<1>1. Fit(r) /\ r.pc = "enqueue"
  BY DEF TypeInv, CallsFit, AddJob
<1>2. worker' = [worker EXCEPT ![w] =
                    [[[r EXCEPT !.pc = "locks"] EXCEPT !.event = NoEvent] EXCEPT !.todo = r.todo \ {r.event}]]
  BY DEF AddJob, TypeInv, CallsFit
<1>3. IsCall(r) /\ r.plan # <<>> /\ r.todo \in SUBSET (Lock \cup Remote)
  BY <1>1, FitFields
<1> HIDE DEF r
<1>4. [[[r EXCEPT !.pc = "locks"] EXCEPT !.event = NoEvent] EXCEPT !.todo = r.todo \ {r.event}] = s
  BY <1>3, CallWithJob
<1>5. Fit(s)
  BY <1>1, <1>3, FitWith
<1> HIDE DEF s
<1>6. CallsFit'
  BY <1>2, <1>4, <1>5, CallsFitStep DEF TypeInv
<1>7. jobs' \in [Lock -> Nat]
  <2>1. jobs' = [jobs EXCEPT ![r.event] = jobs[r.event] + 1] /\ jobs \in [Lock -> Nat]
    BY DEF AddJob, TypeInv, ScalarsOK, r
  <2>2. CASE r.event \in Lock
    BY <2>1, <2>2
  <2>3. CASE r.event \notin Lock
    BY <2>1, <2>3
  <2> QED
    BY <2>2, <2>3
<1> QED
  BY <1>6, <1>7 DEF AddJob, chainVars, TypeInv, ScalarsOK

LEMMA QueryUnlocksType ==
    ASSUME TypeInv, NEW w \in Worker, QueryUnlocks(w)
    PROVE  TypeInv'
<1> DEFINE r == worker[w]
           u == EventsIn(Remote, Head(r.plan))
           s == [pc |-> "unlocks", plan |-> r.plan, todo |-> u, event |-> r.event]
<1>1. Fit(r) /\ r.pc = "locks"
  BY DEF TypeInv, CallsFit, QueryUnlocks
<1>2. worker' = [worker EXCEPT ![w] = [[r EXCEPT !.pc = "unlocks"] EXCEPT !.todo = u]]
  BY DEF QueryUnlocks, TypeInv, CallsFit
<1>3. IsCall(r) /\ r.plan # <<>> /\ r.event \in Lock \cup {NoEvent}
  BY <1>1, FitFields
<1>4. u \in SUBSET (Lock \cup Remote)
  BY DEF EventsIn
<1> HIDE DEF r, u
<1>5. [[r EXCEPT !.pc = "unlocks"] EXCEPT !.todo = u] = s
  BY <1>3, CallWithTodo
<1>6. Fit(s)
  BY <1>1, <1>3, <1>4, FitWith
<1> HIDE DEF s
<1>7. CallsFit'
  BY <1>2, <1>5, <1>6, CallsFitStep DEF TypeInv
<1> QED
  BY <1>7 DEF QueryUnlocks, chainVars, rowVars, TypeInv, ScalarsOK

LEMMA HandleUnlockEventType ==
    ASSUME TypeInv, NEW w \in Worker, NEW e \in Remote, HandleUnlockEvent(w, e)
    PROVE  TypeInv'
<1> DEFINE r == worker[w]
           s == [pc |-> "unlocks", plan |-> r.plan, todo |-> r.todo \ {e}, event |-> r.event]
<1>1. Fit(r) /\ r.pc = "unlocks"
  BY DEF TypeInv, CallsFit, HandleUnlockEvent
<1>2. worker' = [worker EXCEPT ![w] = [r EXCEPT !.todo = r.todo \ {e}]]
  BY DEF HandleUnlockEvent, TypeInv, CallsFit
<1>3. IsCall(r) /\ r.plan # <<>> /\ r.todo \in SUBSET (Lock \cup Remote)
      /\ r.event \in Lock \cup {NoEvent}
  BY <1>1, FitFields
<1> HIDE DEF r
<1>4. [r EXCEPT !.todo = r.todo \ {e}] = s
  BY <1>1, <1>3, CallWith
<1>5. Fit(s)
  BY <1>1, <1>3, FitWith
<1> HIDE DEF s
<1>6. CallsFit'
  BY <1>2, <1>4, <1>5, CallsFitStep DEF TypeInv
<1>7. unlockRows' \in [Remote -> 0..UnlockRowCap]
  BY DEF HandleUnlockEvent, CreateUnlockEvent, TypeInv, ScalarsOK, Smaller, UnlockRowCap
<1> QED
  BY <1>6, <1>7 DEF HandleUnlockEvent, chainVars, TypeInv, ScalarsOK

LEMMA AdvanceType ==
    ASSUME TypeInv, NEW w \in Worker, Advance(w)
    PROVE  TypeInv'
<1> DEFINE r == worker[w]
<1>1. Fit(r) /\ r.pc = "unlocks"
  BY DEF TypeInv, CallsFit, Advance
<1>2. r.plan \in Seq(Batch) /\ r.plan # <<>>
  BY <1>1, FitFields
<1>3. Tail(r.plan) \in Seq(Batch) /\ Head(r.plan) \in Batch
  BY <1>2
<1>4. Head(r.plan).to \in 0..MaxBlock
  BY <1>3, ListenerAssumption DEF Batch
<1>5. CallsFit'
  BY <1>3, EnterFitStep DEF Advance, TypeInv
<1>6. last' \in [Process -> 0..MaxBlock]
  <2> HIDE DEF r
  <2> QED
    BY <1>4, HomeIsProcess DEF Advance, r, TypeInv, ScalarsOK
<1> QED
  BY <1>5, <1>6 DEF Advance, chainVars, rowVars, TypeInv, ScalarsOK

LEMMA FailType ==
    ASSUME TypeInv, NEW w \in Worker, NEW isTimeout, Fail(w, isTimeout)
    PROVE  /\ CallsFit'
           /\ last' \in [Process -> 0..MaxBlock]
           /\ phase' \in [Process -> {"stopped", "catchUp", "polling"}]
<1>1. Home(w) \in Process /\ Fit(worker[w])
  BY HomeIsProcess DEF TypeInv, CallsFit
<1>2. CASE Recovers(w, isTimeout)
  <2>1. worker[w].plan # <<>>
    BY <1>2 DEF Recovers
  <2>2. RecoveredPlan(w) \in Seq(Batch)
    BY <1>1, <2>1, RecoveredTyped
  <2> QED
    BY <1>2, <2>2, EnterFitStep DEF Fail, TypeInv, ScalarsOK
<1>3. CASE ~Recovers(w, isTimeout)
  <2>1. GiveUp(w)
    BY <1>3 DEF Fail
  <2>2. CallsFit'
    BY <2>1, IdleFits, CallsFitStep DEF GiveUp, TypeInv
  <2>3. CASE w = Boot(Home(w))
    <3>1. PICK n \in {last[Home(w)], head} : last' = [last EXCEPT ![Home(w)] = n]
      BY <2>1, <2>3 DEF GiveUp
    <3>2. n \in 0..MaxBlock
      BY <1>1, <3>1 DEF TypeInv, ScalarsOK
    <3>3. phase' = [phase EXCEPT ![Home(w)] = "polling"]
      BY <2>1, <2>3 DEF GiveUp
    <3> QED
      BY <1>1, <2>2, <3>1, <3>2, <3>3 DEF TypeInv, ScalarsOK
  <2>4. CASE w # Boot(Home(w))
    BY <2>1, <2>2, <2>4 DEF GiveUp, TypeInv, ScalarsOK
  <2> QED
    BY <2>3, <2>4
<1> QED
  BY <1>2, <1>3

LEMMA FailuresType ==
    ASSUME TypeInv, NEW w \in Worker,
           \/ RequestFails(w) \/ RequestTimesOut(w) \/ AddJobFails(w) \/ ForeignKeyFails(w)
    PROVE  TypeInv'
<1>1. faults' \in 0..MaxFaults
  BY FaultType DEF RequestFails, RequestTimesOut, AddJobFails, ForeignKeyFails, TypeInv, ScalarsOK
<1>2. \E isTimeout : Fail(w, isTimeout)
  BY DEF RequestFails, RequestTimesOut, AddJobFails, ForeignKeyFails
<1>3. /\ CallsFit'
      /\ last' \in [Process -> 0..MaxBlock]
      /\ phase' \in [Process -> {"stopped", "catchUp", "polling"}]
  BY <1>2, FailType
<1>4. UNCHANGED <<chainVars, rowVars, remoteIndexed, base>>
  BY DEF RequestFails, RequestTimesOut, AddJobFails, ForeignKeyFails
<1> QED
  BY <1>1, <1>3, <1>4 DEF chainVars, rowVars, TypeInv, ScalarsOK

LEMMA CrashType ==
    ASSUME TypeInv, NEW p \in Process, Crash(p)
    PROVE  TypeInv'
<1>1. faults' \in 0..MaxFaults
  BY FaultType DEF Crash, TypeInv, ScalarsOK
<1>2. worker' = [w \in Worker |-> IF Home(w) = p THEN Idle ELSE worker[w]]
  BY DEF Crash
<1>3. CallsFit'
  BY <1>2, IdleFits DEF TypeInv, CallsFit
<1>4. /\ last' \in [Process -> 0..MaxBlock]
      /\ phase' \in [Process -> {"stopped", "catchUp", "polling"}]
      /\ UNCHANGED <<chainVars, rowVars, remoteIndexed, base>>
  BY ListenerAssumption DEF Crash, TypeInv, ScalarsOK
<1> QED
  BY <1>1, <1>3, <1>4 DEF chainVars, rowVars, TypeInv, ScalarsOK

LEMMA ChainType ==
    ASSUME TypeInv, MineBlock \/ \E r \in Remote : IndexRemote(r)
    PROVE  TypeInv'
<1>1. head' \in 0..MaxBlock
  BY ListenerAssumption DEF MineBlock, IndexRemote, chainVars, TypeInv, ScalarsOK
<1>2. remoteIndexed' \subseteq Remote
  BY DEF MineBlock, IndexRemote, TypeInv, ScalarsOK
<1> QED
  BY <1>1, <1>2 DEF MineBlock, IndexRemote, chainVars, rowVars, TypeInv, ScalarsOK, CallsFit

\* Every step preserves the invariant.
LEMMA TypeStepInv == TypeInv /\ [ListenerNext]_listenerVars => TypeInv'
<1> SUFFICES ASSUME TypeInv, [ListenerNext]_listenerVars PROVE TypeInv'
  OBVIOUS
<1>1. ASSUME NEW p \in Process, Start(p) \/ CatchUp(p) \/ CaughtUp(p) PROVE TypeInv'
  BY <1>1, StartType, CatchUpType, CaughtUpType
<1>2. ASSUME NEW w \in Poller, NEW current \in 1..MaxBlock, Poll(w, current) PROVE TypeInv'
  BY <1>2, PollType
<1>3. ASSUME NEW w \in Worker, Work(w) PROVE TypeInv'
  BY <1>3, HandleLockEventType, AddJobType, QueryUnlocksType, HandleUnlockEventType, AdvanceType,
     FailuresType DEF Work
<1>4. CASE Environment
  BY <1>4, ChainType, FailuresType, StartFailsType, CrashType DEF Environment
<1>5. CASE UNCHANGED listenerVars
  BY <1>5 DEF listenerVars, TypeInv, ScalarsOK, CallsFit
<1> QED
  BY <1>1, <1>2, <1>3, <1>4, <1>5 DEF ListenerNext

\* Every variable of the listeners keeps its type whatever fails: no batch
\* names a block beyond the chain's bound or before its first, and none is
\* counted as processed.
THEOREM ListenerTyped == ListenerSpec => []ListenerTypeOK
<1>1. TypeInv => ListenerTypeOK
  BY DEF TypeInv, ScalarsOK, CallsFit, Fit, TypedCall, ListenerTypeOK
<1>2. ListenerInit => TypeInv
  BY TypeInitInv
<1>3. TypeInv /\ [ListenerNext]_listenerVars => TypeInv'
  BY TypeStepInv
<1> QED
  BY <1>1, <1>2, <1>3, PTL DEF ListenerSpec
------------------------------------------------------------------------------
(***************************************************************************)
(* NoBlockSkipped, for listeners whose polls overlap in any way and fail   *)
(* in any number of requests, or in one that times out and is retried.  A  *)
(* second failure after a time-out, or one of start() followed by polling  *)
(* from the current block, breaks it.                                      *)
(***************************************************************************)

Chunk == [from : Int, to : Int, retry : BOOLEAN]

\* A plan works through the blocks from a to b without a gap.
Gapless(plan, a, b) ==
    /\ plan \in Seq(Chunk)
    /\ plan # <<>> => plan[1].from = a
    /\ \A i \in 1..Len(plan) : plan[i].to <= b
    /\ \A i \in 1..(Len(plan) - 1) : plan[i + 1].from = plan[i].to + 1

NoneRetried(plan) == \A i \in 1..Len(plan) : ~plan[i].retry

LEMMA ChunksGapless ==
    ASSUME NEW a \in Int, NEW b \in Int
    PROVE  Gapless(Chunks(a, b), a, b) /\ NoneRetried(Chunks(a, b))
<1> DEFINE M == MaxBlocksPerQuery
           n == (b - a + M) \div M
           chunk(i) == [from |-> a + (i - 1) * M, to |-> ChunkEnd(a + i * M - 1, b), retry |-> FALSE]
<1>1. M \in Nat \ {0} /\ n \in Int
  BY ListenerAssumption
<1>2. Chunks(a, b) = [i \in 1..n |-> chunk(i)]
  BY DEF Chunks
<1>3. \A i \in 1..n : chunk(i) \in Chunk /\ chunk(i).to <= b /\ ~chunk(i).retry
  BY <1>1 DEF Chunk, ChunkEnd, Smaller
<1>4. ASSUME NEW i \in 1..(n - 1) PROVE chunk(i).to = a + i * M - 1
  <2>1. (i + 1) * M <= b - a + M
    BY <1>1, DivBound
  <2>2. i * M <= b - a
    BY <1>1, <2>1
  <2> QED
    BY <1>1, <2>2 DEF ChunkEnd, Smaller
<1>5. CASE n \in Nat
  <2>1. Chunks(a, b) \in Seq(Chunk) /\ Len(Chunks(a, b)) = n
    <3> HIDE DEF n, chunk
    <3> QED
      BY <1>2, <1>3, <1>5
  <2>2. \A i \in 1..n : Chunks(a, b)[i] = chunk(i)
    BY <1>2
  <2>3. \A i \in 1..(n - 1) : chunk(i + 1).from = a + i * M
    BY <1>1
  <2>4. n >= 1 => chunk(1).from = a
    BY <1>1
  <2> HIDE DEF n, chunk, M
  <2>5. \A i \in 1..n : Chunks(a, b)[i].to <= b /\ ~Chunks(a, b)[i].retry
    BY <1>3, <2>2
  <2>6. ASSUME NEW i \in 1..(n - 1)
        PROVE  Chunks(a, b)[i + 1].from = Chunks(a, b)[i].to + 1
    <3>1. i \in 1..n /\ i + 1 \in 1..n
      BY <1>1
    <3>2. chunk(i).to = a + i * M - 1 /\ chunk(i + 1).from = a + i * M
      BY <1>4, <2>3
    <3>3. i * M \in Int
      BY <1>1
    <3> QED
      BY <2>2, <3>1, <3>2, <3>3
  <2>7. Chunks(a, b) # <<>> => Chunks(a, b)[1].from = a
    BY <1>5, <2>1, <2>2, <2>4
  <2> QED
    BY <2>1, <2>5, <2>6, <2>7 DEF Gapless, NoneRetried
<1>6. CASE n \notin Nat
  <2>1. 1..n = {}
    BY <1>1, <1>6
  <2>2. Chunks(a, b) = <<>>
    BY <1>2, <2>1
  <2> QED
    BY <2>2 DEF Gapless, NoneRetried
<1> QED
  BY <1>5, <1>6

\* The inductive invariant.
Call == [pc : {"idle", "head", "locks", "enqueue", "unlocks"}, plan : Seq(Chunk),
         todo : SUBSET (Lock \cup Remote), event : Lock \cup {NoEvent}]

\* Every lock from the block after first to block n has its row.
Covered(blocks, first, n, rows) == \A l \in Lock : blocks[l] \in (first + 1)..n => l \in rows

\* The locks of the batch in hand.
Due(r, blocks) == {l \in Lock : blocks[l] \in r.plan[1].from .. r.plan[1].to}

\* A call has covered what lies before its batch, and of its batch all but todo;
\* it retries nothing while the behaviour has a fault left (f are the faults so
\* far), so that no retry fails.
CallOK(r, blocks, first, n, rows, f) ==
    /\ Gapless(r.plan, r.plan[1].from, n)
    /\ f < MaxFaults => NoneRetried(r.plan)
    /\ r.plan # <<>> => Covered(blocks, first, r.plan[1].from - 1, rows)
    /\ r.plan = <<>> <=> r.pc \in {"idle", "head"}
    /\ r.pc \in {"locks", "enqueue"} =>
          Due(r, blocks) \subseteq rows \cup r.todo /\ r.todo \subseteq Due(r, blocks)
    /\ r.pc = "enqueue" => r.event \in rows
    /\ r.pc = "unlocks" => Due(r, blocks) \subseteq rows /\ r.todo \subseteq Remote

\* The inductive invariant behind NoBlockSkipped.
SkipInv ==
    /\ blockOf \in [Lock \cup Remote -> 1..MaxBlock]
    /\ head \in Nat
    /\ indexed \subseteq Lock
    /\ remoteIndexed = Remote
    /\ phase \in [Process -> {"stopped", "catchUp", "polling"}]
    /\ last \in [Process -> Int]
    /\ base \in [Process -> Int]
    /\ worker \in [Worker -> Call]
    /\ faults \in Nat
    /\ \A l \in indexed : blockOf[l] <= head
    /\ \A w \in Worker : CallOK(worker[w], blockOf, base[Home(w)], head, indexed, faults)
    /\ \A p \in Process :
          IF phase[p] = "stopped"
          THEN base[p] = NotStarted /\ \A w \in Worker : Home(w) = p => worker[w].pc = "idle"
          ELSE Covered(blockOf, base[p], last[p], indexed)

\* No failures of start(), no refused jobs, no restarts, no orphaned unlocks,
\* and a time-out only as the one fault of a behaviour: a failure during the
\* retry of a time-out does skip blocks.
OnlyRequestsFail ==
    /\ Faults \subseteq {"rpc", "timeout"}
    /\ "timeout" \in Faults => MaxFaults <= 1

LEMMA SkipInitInv == OnlyRequestsFail /\ ListenerInit => SkipInv
<1> SUFFICES ASSUME OnlyRequestsFail, ListenerInit PROVE SkipInv
  OBVIOUS
<1>1. Idle \in Call
  BY DEF Idle, Call
<1>2. \A blocks, first, n, rows, f : CallOK(Idle, blocks, first, n, rows, f)
  BY DEF CallOK, Idle, Gapless, NoneRetried
<1>3. worker = [w \in Worker |-> Idle] /\ Idle.pc = "idle"
  BY DEF ListenerInit, Idle
<1>4. remoteIndexed = Remote
  BY DEF ListenerInit, OnlyRequestsFail
<1> QED
  BY <1>1, <1>2, <1>3, <1>4 DEF ListenerInit, SkipInv, NotStarted

\* Rows and blocks only grow, which leaves every call as right as it was.
LEMMA CallGrows ==
    ASSUME NEW r \in Call, NEW blocks, NEW first,
           NEW n \in Int, NEW more \in Int, n <= more, NEW rows, NEW grown, rows \subseteq grown,
           NEW f \in Nat, NEW g \in Nat, f <= g,
           CallOK(r, blocks, first, n, rows, f)
    PROVE  CallOK(r, blocks, first, more, grown, g)
<1>0. r.plan \in Seq(Chunk)
  BY DEF Call
<1>1. \A i \in 1..Len(r.plan) : r.plan[i].to \in Int
  <2>1. \A i \in 1..Len(r.plan) : r.plan[i] \in Chunk
    BY <1>0
  <2> QED
    BY <2>1 DEF Chunk
<1>2. Gapless(r.plan, r.plan[1].from, more)
  BY <1>1 DEF CallOK, Gapless
<1>3. g < MaxFaults => NoneRetried(r.plan)
  BY ListenerAssumption DEF CallOK
<1> QED
  BY <1>2, <1>3 DEF CallOK, Covered

\* A batch that is entered has all its locks to do.
LEMMA EnterOK ==
    ASSUME NEW plan, NEW a, NEW n, NEW first, NEW rows, NEW f,
           Gapless(plan, a, n), f < MaxFaults => NoneRetried(plan),
           plan # <<>> => Covered(blockOf, first, a - 1, rows)
    PROVE  Enter(plan) \in Call /\ CallOK(Enter(plan), blockOf, first, n, rows, f)
<1>1. CASE plan = <<>>
  BY <1>1 DEF Enter, Idle, Call, CallOK, Gapless, NoneRetried
<1>2. CASE plan # <<>>
  <2> DEFINE r == Enter(plan)
  <2>1. plan \in Seq(Chunk) /\ Head(plan) = plan[1] /\ plan[1].from = a
    BY <1>2 DEF Gapless
  <2>2. r = [pc |-> "locks", plan |-> plan, event |-> NoEvent, todo |-> EventsIn(Lock, plan[1])]
    BY <1>2, <2>1 DEF Enter
  <2>3. Due(r, blockOf) = r.todo /\ r.todo \subseteq Lock
    BY <2>2 DEF Due, EventsIn
  <2>4. r \in Call
    BY <2>1, <2>2, <2>3 DEF Call
  <2>5. r.plan = plan /\ r.pc = "locks"
    BY <2>2
  <2> HIDE DEF r
  <2>6. Gapless(r.plan, r.plan[1].from, n) /\ Covered(blockOf, first, r.plan[1].from - 1, rows)
    BY <1>2, <2>1, <2>5
  <2>7. CallOK(r, blockOf, first, n, rows, f)
    BY <1>2, <2>3, <2>5, <2>6 DEF CallOK
  <2> QED
    BY <2>4, <2>7 DEF r
<1> QED
  BY <1>1, <1>2

\* A step of one call of a process that has been started.
LEMMA CallStep ==
    ASSUME SkipInv, NEW w \in Worker, NEW r \in Call,
           worker' = [worker EXCEPT ![w] = r],
           UNCHANGED <<blockOf, head, remoteIndexed, phase, base>>,
           faults' \in Nat, faults <= faults',
           phase[Home(w)] # "stopped",
           indexed \subseteq indexed', indexed' \subseteq Lock,
           \A l \in indexed' : blockOf[l] <= head,
           CallOK(r, blockOf, base[Home(w)], head, indexed', faults'),
           last' \in [Process -> Int],
           \A p \in Process : \/ last'[p] = last[p]
                              \/ Covered(blockOf, base[p], last'[p], indexed')
    PROVE  SkipInv'
<1>1. worker' \in [Worker -> Call]
  BY DEF SkipInv
<1>2. \A v \in Worker : worker'[v] = IF v = w THEN r ELSE worker[v]
  BY DEF SkipInv
<1>3. ASSUME NEW v \in Worker
      PROVE  CallOK(worker'[v], blockOf, base[Home(v)], head, indexed', faults')
  <2>1. CASE v = w
    BY <2>1, <1>2
  <2>2. CASE v # w
    <3>1. worker[v] \in Call /\ CallOK(worker[v], blockOf, base[Home(v)], head, indexed, faults)
      BY DEF SkipInv
    <3>2. head \in Int /\ head <= head /\ faults \in Nat
      BY DEF SkipInv
    <3> QED
      BY <2>2, <1>2, <3>1, <3>2, CallGrows
  <2> QED
    BY <2>1, <2>2
<1>4. ASSUME NEW p \in Process
      PROVE  IF phase[p] = "stopped"
             THEN base[p] = NotStarted /\ \A v \in Worker : Home(v) = p => worker'[v].pc = "idle"
             ELSE Covered(blockOf, base[p], last'[p], indexed')
  <2>1. CASE phase[p] = "stopped"
    BY <2>1, <1>2 DEF SkipInv
  <2>2. CASE phase[p] # "stopped"
    BY <2>2 DEF SkipInv, Covered
  <2> QED
    BY <2>1, <2>2
<1> QED
  BY <1>1, <1>3, <1>4 DEF SkipInv

LEMMA FaultsKept ==
    ASSUME SkipInv, UNCHANGED faults
    PROVE  faults' \in Nat /\ faults <= faults'
BY DEF SkipInv

\* A call that does something belongs to a process that has been started.
LEMMA BusyStarted ==
    ASSUME SkipInv, NEW w \in Worker, worker[w].pc # "idle"
    PROVE  Home(w) \in Process /\ phase[Home(w)] # "stopped"
BY DEF SkipInv, Worker, Home

\* A plan up to one block is one up to any later block.
LEMMA GaplessGrows ==
    ASSUME NEW plan, NEW a, NEW b \in Int, NEW c \in Int, b <= c, Gapless(plan, a, b)
    PROVE  Gapless(plan, a, c)
<1>1. \A i \in 1..Len(plan) : plan[i] \in Chunk
  BY DEF Gapless
<1>2. \A i \in 1..Len(plan) : plan[i].to \in Int
  BY <1>1 DEF Chunk
<1> QED
  BY <1>2 DEF Gapless

\* A call between two batches is right whatever the rows are.
LEMMA NoBatchOK ==
    ASSUME NEW r \in Call, r.pc \in {"idle", "head"}, r.plan = <<>>,
           NEW blocks, NEW first, NEW n, NEW rows, NEW f
    PROVE  CallOK(r, blocks, first, n, rows, f)
BY DEF CallOK, Gapless, NoneRetried

\* The first batch of a call.
LEMMA BatchType ==
    ASSUME NEW r \in Call, r.plan # <<>>
    PROVE  /\ Head(r.plan) = r.plan[1] /\ r.plan[1] \in Chunk
           /\ r.plan[1].from \in Int /\ r.plan[1].to \in Int
<1>1. r.plan \in Seq(Chunk)
  BY DEF Call
<1>2. r.plan[1] \in Chunk /\ Head(r.plan) = r.plan[1]
  BY <1>1
<1> QED
  BY <1>2 DEF Chunk

\* What the rows say of the last processed block is not ahead of the chain.
LEMMA LastProcessedBound ==
    ASSUME SkipInv
    PROVE  LastProcessedBlock \in Int /\ LastProcessedBlock <= head
<1> DEFINE S == {blockOf[l] : l \in indexed}
<1>1. CASE indexed = {}
  BY <1>1 DEF SkipInv, LastProcessedBlock
<1>2. CASE indexed # {}
  <2>1. S \subseteq 1..MaxBlock /\ S # {} /\ \A n \in S : n \in Int /\ n <= head
    BY <1>2, ListenerAssumption DEF SkipInv
  <2>2. \E n \in S : \A m \in S : m <= n
    <3> HIDE DEF S
    <3> QED
      BY <2>1, LargestBlock
  <2>3. \E n \in S : \A l \in indexed : blockOf[l] <= n
    BY <2>2
  <2>4. LastProcessedBlock = CHOOSE n \in S : \A l \in indexed : blockOf[l] <= n
    BY <1>2 DEF LastProcessedBlock
  <2> HIDE DEF S
  <2>5. LastProcessedBlock \in S
    BY <2>3, <2>4
  <2> QED
    BY <2>1, <2>5
<1> QED
  BY <1>1, <1>2

LEMMA StartSkip ==
    ASSUME SkipInv, NEW p \in Process, Start(p)
    PROVE  SkipInv'
<1> DEFINE b == Boot(p)
           r == [worker[b] EXCEPT !.pc = "head"]
<1>1. b \in Worker /\ Home(b) = p
  BY ListenerAssumption DEF Boot, Worker, Home
<1>2. phase[p] = "stopped" /\ base[p] = NotStarted
      /\ \A v \in Worker : Home(v) = p => worker[v].pc = "idle"
  BY DEF SkipInv, Start
<1>3. \A v \in Worker : Home(v) = p => worker[v] \in Call /\ worker[v].pc = "idle" /\ worker[v].plan = <<>>
  BY <1>2 DEF SkipInv, CallOK
<1>4. r \in Call /\ r.pc = "head" /\ r.plan = <<>>
  BY <1>1, <1>3 DEF Call
<1>5. worker' \in [Worker -> Call] /\ \A v \in Worker : worker'[v] = IF v = b THEN r ELSE worker[v]
  <2>1. worker' = [worker EXCEPT ![b] = r]
    BY DEF Start
  <2> HIDE DEF r, b
  <2> QED
    BY <1>4, <2>1 DEF SkipInv
<1>6. base' = [base EXCEPT ![p] = head]
  BY <1>2 DEF Start, FirstStart
<1>7. last' = [last EXCEPT ![p] = LastProcessedBlock]
      /\ phase' = [phase EXCEPT ![p] = "catchUp"]
      /\ UNCHANGED <<blockOf, head, indexed, remoteIndexed, faults>>
  BY DEF Start, chainVars, rowVars
<1> HIDE DEF r, b
<1>8. ASSUME NEW v \in Worker
      PROVE  CallOK(worker'[v], blockOf, base'[Home(v)], head, indexed, faults)
  <2>1. CASE Home(v) = p
    <3>1. worker'[v] \in Call /\ worker'[v].pc \in {"idle", "head"} /\ worker'[v].plan = <<>>
      BY <2>1, <1>3, <1>4, <1>5
    <3> QED
      BY <3>1, NoBatchOK
  <2>2. CASE Home(v) # p
    <3>1. worker'[v] = worker[v]
      BY <2>2, <1>1, <1>5
    <3>2. Home(v) \in Process
      BY DEF Worker, Home
    <3>3. base'[Home(v)] = base[Home(v)]
      BY <2>2, <3>2, <1>6 DEF SkipInv
    <3> QED
      BY <3>1, <3>3 DEF SkipInv
  <2> QED
    BY <2>1, <2>2
<1>9. ASSUME NEW q \in Process
      PROVE  IF phase'[q] = "stopped"
             THEN base'[q] = NotStarted /\ \A v \in Worker : Home(v) = q => worker'[v].pc = "idle"
             ELSE Covered(blockOf, base'[q], last'[q], indexed)
  <2>1. CASE q = p
    <3>1. phase'[p] # "stopped" /\ base'[p] = head /\ last'[p] = LastProcessedBlock
      BY <1>6, <1>7 DEF SkipInv
    <3>2. Covered(blockOf, head, LastProcessedBlock, indexed)
      BY LastProcessedBound DEF Covered, SkipInv
    <3> QED
      BY <2>1, <3>1, <3>2
  <2>2. CASE q # p
    <3>1. phase'[q] = phase[q] /\ base'[q] = base[q] /\ last'[q] = last[q]
      BY <2>2, <1>6, <1>7 DEF SkipInv
    <3>2. \A v \in Worker : Home(v) = q => worker'[v] = worker[v]
      BY <2>2, <1>1, <1>5
    <3> QED
      BY <3>1, <3>2 DEF SkipInv
  <2> QED
    BY <2>1, <2>2
<1>10. last' \in [Process -> Int] /\ base' \in [Process -> Int]
       /\ phase' \in [Process -> {"stopped", "catchUp", "polling"}]
  BY <1>6, <1>7, LastProcessedBound DEF SkipInv
<1> QED
  BY <1>5, <1>7, <1>8, <1>9, <1>10 DEF SkipInv

\* A call that enters the blocks after lastProcessedBlock.
LEMMA EnterBlocks ==
    ASSUME SkipInv, NEW w \in Worker, phase[Home(w)] # "stopped",
           NEW n \in Int, n <= head
    PROVE  LET r == Enter(Chunks(last[Home(w)] + 1, n))
           IN  r \in Call /\ CallOK(r, blockOf, base[Home(w)], head, indexed, faults)
<1> DEFINE p == Home(w)
           a == last[p] + 1
           plan == Chunks(a, n)
<1>1. p \in Process /\ last[p] \in Int /\ a \in Int /\ a - 1 = last[p] /\ head \in Int
  BY DEF Worker, Home, SkipInv
<1>2. Covered(blockOf, base[p], a - 1, indexed)
  BY <1>1 DEF SkipInv
<1> HIDE DEF a, p
<1>3. Gapless(plan, a, head) /\ NoneRetried(plan)
  BY <1>1, ChunksGapless, GaplessGrows
<1> HIDE DEF plan
<1>4. Enter(plan) \in Call /\ CallOK(Enter(plan), blockOf, base[p], head, indexed, faults)
  BY <1>2, <1>3, EnterOK
<1> QED
  BY <1>4 DEF p, a, plan

\* What a step of call w leaves of the invariant when it changes only w.
LEMMA QuietCallStep ==
    ASSUME SkipInv, NEW w \in Worker, NEW r \in Call,
           worker' = [worker EXCEPT ![w] = r],
           UNCHANGED <<blockOf, head, remoteIndexed, phase, base, indexed, last, faults>>,
           phase[Home(w)] # "stopped",
           CallOK(r, blockOf, base[Home(w)], head, indexed, faults)
    PROVE  SkipInv'
<1>1. \A p \in Process : last'[p] = last[p]
  OBVIOUS
<1>2. indexed \subseteq indexed' /\ indexed' \subseteq Lock /\ last' \in [Process -> Int]
  BY DEF SkipInv
<1>3. \A l \in indexed' : blockOf[l] <= head
  BY DEF SkipInv
<1>4. CallOK(r, blockOf, base[Home(w)], head, indexed', faults')
  OBVIOUS
<1> QED
  BY <1>1, <1>2, <1>3, <1>4, CallStep, FaultsKept

\* A step of call w that is a fault.
LEMMA FaultyCallStep ==
    ASSUME SkipInv, NEW w \in Worker, NEW r \in Call,
           worker' = [worker EXCEPT ![w] = r],
           UNCHANGED <<blockOf, head, remoteIndexed, phase, base, indexed, last>>,
           Fault,
           phase[Home(w)] # "stopped",
           CallOK(r, blockOf, base[Home(w)], head, indexed, faults')
    PROVE  SkipInv'
<1>1. \A p \in Process : last'[p] = last[p]
  OBVIOUS
<1>2. indexed \subseteq indexed' /\ indexed' \subseteq Lock /\ last' \in [Process -> Int]
  BY DEF SkipInv
<1>3. \A l \in indexed' : blockOf[l] <= head
  BY DEF SkipInv
<1>4. CallOK(r, blockOf, base[Home(w)], head, indexed', faults')
  OBVIOUS
<1>5. faults' \in Nat /\ faults <= faults'
  BY DEF SkipInv, Fault
<1> QED
  BY <1>1, <1>2, <1>3, <1>4, <1>5, CallStep

LEMMA CatchUpSkip ==
    ASSUME SkipInv, NEW p \in Process, CatchUp(p)
    PROVE  SkipInv'
<1> DEFINE b == Boot(p)
           r == Enter(Chunks(last[p] + 1, head))
<1>1. b \in Worker /\ Home(b) = p
  BY ListenerAssumption DEF Boot, Worker, Home
<1>2. worker[b].pc = "head"
  BY DEF CatchUp
<1>3. worker' = [worker EXCEPT ![b] = r]
      /\ UNCHANGED <<blockOf, head, remoteIndexed, phase, base, indexed, last, faults>>
  BY DEF CatchUp, chainVars, rowVars
<1>4. head \in Int /\ head <= head
  BY DEF SkipInv
<1> HIDE DEF b
<1>5. phase[Home(b)] # "stopped"
  BY <1>1, <1>2, BusyStarted
<1>6. r \in Call /\ CallOK(r, blockOf, base[Home(b)], head, indexed, faults)
  BY <1>1, <1>4, <1>5, EnterBlocks
<1> HIDE DEF r
<1> QED
  BY <1>1, <1>3, <1>5, <1>6, QuietCallStep

LEMMA PollSkip ==
    ASSUME SkipInv, NEW w \in Poller, NEW current \in 1..MaxBlock, Poll(w, current)
    PROVE  SkipInv'
<1> DEFINE r == Enter(Chunks(last[Home(w)] + 1, current))
<1>1. w \in Worker
  BY ListenerAssumption DEF Poller, Worker
<1>2. phase[Home(w)] # "stopped" /\ current <= head /\ current \in Int
  BY ListenerAssumption DEF Poll
<1>3. worker' = [worker EXCEPT ![w] = r]
      /\ UNCHANGED <<blockOf, head, remoteIndexed, phase, base, indexed, last, faults>>
  BY DEF Poll, chainVars, rowVars
<1>4. r \in Call /\ CallOK(r, blockOf, base[Home(w)], head, indexed, faults)
  BY <1>1, <1>2, EnterBlocks
<1> HIDE DEF r
<1> QED
  BY <1>1, <1>2, <1>3, <1>4, QuietCallStep

LEMMA CaughtUpSkip ==
    ASSUME SkipInv, NEW p \in Process, CaughtUp(p)
    PROVE  SkipInv'
<1>1. phase' = [phase EXCEPT ![p] = "polling"] /\ phase[p] # "stopped"
      /\ UNCHANGED <<blockOf, head, remoteIndexed, worker, base, indexed, last, faults>>
  BY DEF CaughtUp, chainVars, rowVars
<1>2. \A q \in Process : phase'[q] = "stopped" <=> phase[q] = "stopped"
  BY <1>1 DEF SkipInv
<1>3. phase' \in [Process -> {"stopped", "catchUp", "polling"}]
  BY <1>1 DEF SkipInv
<1>4. \A q \in Process :
          IF phase'[q] = "stopped"
          THEN base[q] = NotStarted /\ \A w \in Worker : Home(w) = q => worker[w].pc = "idle"
          ELSE Covered(blockOf, base[q], last[q], indexed)
  BY <1>2 DEF SkipInv
<1> QED
  BY <1>1, <1>3, <1>4 DEF SkipInv

LEMMA MineBlockSkip ==
    ASSUME SkipInv, MineBlock
    PROVE  SkipInv'
<1>1. head' = head + 1 /\ head \in Int /\ head' \in Int /\ head <= head' /\ head' \in Nat
  BY DEF MineBlock, SkipInv
<1>2. UNCHANGED <<blockOf, remoteIndexed, worker, base, indexed, last, phase, faults>>
  BY DEF MineBlock, rowVars
<1>3. \A w \in Worker : CallOK(worker[w], blockOf, base[Home(w)], head', indexed, faults)
  <2> TAKE w \in Worker
  <2>1. worker[w] \in Call /\ CallOK(worker[w], blockOf, base[Home(w)], head, indexed, faults)
    BY DEF SkipInv
  <2>2. faults \in Nat /\ faults <= faults
    BY DEF SkipInv
  <2> QED
    BY <1>1, <2>1, <2>2, CallGrows
<1>4. \A l \in indexed : blockOf[l] <= head'
  BY <1>1 DEF SkipInv
<1> QED
  BY <1>1, <1>2, <1>3, <1>4 DEF SkipInv

\* Facts about a call with a batch in hand.
LEMMA BusyCall ==
    ASSUME SkipInv, NEW w \in Worker, worker[w].pc \in {"locks", "enqueue", "unlocks"}
    PROVE  /\ worker[w] \in Call
           /\ worker[w].plan # <<>>
           /\ CallOK(worker[w], blockOf, base[Home(w)], head, indexed, faults)
           /\ phase[Home(w)] # "stopped"
<1>1. worker[w] \in Call /\ CallOK(worker[w], blockOf, base[Home(w)], head, indexed, faults)
  BY DEF SkipInv
<1>2. worker[w].plan # <<>>
  BY <1>1 DEF CallOK
<1>3. phase[Home(w)] # "stopped"
  BY BusyStarted
<1> QED
  BY <1>1, <1>2, <1>3

\* The locks of the batch in hand are in blocks the chain has.
LEMMA DueMined ==
    ASSUME SkipInv, NEW r \in Call, NEW first,
           CallOK(r, blockOf, first, head, indexed, faults), r.plan # <<>>
    PROVE  \A l \in Due(r, blockOf) : l \in Lock /\ blockOf[l] <= head
<1>1. r.plan \in Seq(Chunk) /\ 1 \in 1..Len(r.plan)
  BY DEF Call
<1>2. r.plan[1].to <= head
  BY <1>1 DEF CallOK, Gapless
<1>3. r.plan[1].to \in Int /\ r.plan[1].from \in Int
  BY BatchType
<1>4. MaxBlock \in Int /\ head \in Int
  BY ListenerAssumption DEF SkipInv
<1> QED
  BY <1>2, <1>3, <1>4 DEF Due, SkipInv

\* A call that still has the same batches, with other local variables.
LEMMA SamePlan ==
    ASSUME NEW r \in Call, NEW pc \in {"locks", "enqueue", "unlocks"},
           NEW todo \in SUBSET (Lock \cup Remote), NEW event \in Lock \cup {NoEvent},
           NEW s, s = [pc |-> pc, plan |-> r.plan, todo |-> todo, event |-> event]
    PROVE  /\ s \in Call
           /\ s.plan = r.plan /\ s.pc = pc /\ s.todo = todo /\ s.event = event
           /\ \A blocks : Due(s, blocks) = Due(r, blocks)
BY DEF Call, Due

LEMMA CallFields ==
    ASSUME NEW r \in Call
    PROVE  /\ IsCall(r)
           /\ r.pc \in {"idle", "head", "locks", "enqueue", "unlocks"}
           /\ r.todo \in SUBSET (Lock \cup Remote) /\ r.event \in Lock \cup {NoEvent}
BY DEF Call, IsCall

LEMMA HandleLockEventSkip ==
    ASSUME SkipInv, NEW w \in Worker, NEW e \in Lock, HandleLockEvent(w, e)
    PROVE  SkipInv'
<1> DEFINE r == worker[w]
           s == [pc |-> "enqueue", plan |-> r.plan, todo |-> r.todo, event |-> e]
           t == [pc |-> "locks", plan |-> r.plan, todo |-> r.todo \ {e}, event |-> r.event]
<1>1. r.pc = "locks" /\ e \in r.todo /\ indexed' = indexed \cup {e}
      /\ UNCHANGED <<blockOf, head, remoteIndexed, phase, base, last, faults>>
  BY DEF HandleLockEvent, NextEvents, chainVars
<1>2. r \in Call /\ CallOK(r, blockOf, base[Home(w)], head, indexed, faults)
      /\ phase[Home(w)] # "stopped" /\ r.plan # <<>>
  BY <1>1, BusyCall
<1>3. worker' = IF CreatesRow(e) THEN [worker EXCEPT ![w].pc = "enqueue", ![w].event = e]
                ELSE [worker EXCEPT ![w].todo = @ \ {e}]
  BY DEF HandleLockEvent
<1>4. worker' = IF CreatesRow(e) THEN [worker EXCEPT ![w] = [[r EXCEPT !.pc = "enqueue"] EXCEPT !.event = e]]
                ELSE [worker EXCEPT ![w] = [r EXCEPT !.todo = r.todo \ {e}]]
  BY <1>3 DEF SkipInv
<1>5. worker' = IF CreatesRow(e) THEN [worker EXCEPT ![w] = s] ELSE [worker EXCEPT ![w] = t]
  <2>1. r \in Call
    BY <1>2
  <2>2. [[r EXCEPT !.pc = "enqueue"] EXCEPT !.event = e] = s
    <3> HIDE DEF r
    <3> QED
      BY <2>1, CallFields, CallWithEvent
  <2>3. [r EXCEPT !.todo = r.todo \ {e}]
        = [pc |-> r.pc, plan |-> r.plan, todo |-> r.todo \ {e}, event |-> r.event]
    <3> HIDE DEF r
    <3> QED
      BY <2>1, CallFields, CallWith
  <2>4. [r EXCEPT !.todo = r.todo \ {e}] = t
    BY <1>1, <2>3
  <2> QED
    BY <1>4, <2>2, <2>4
<1>6. r.todo \in SUBSET (Lock \cup Remote) /\ r.event \in Lock \cup {NoEvent}
  BY <1>2, CallFields
<1>7. e \in Due(r, blockOf)
  BY <1>1, <1>2 DEF CallOK
<1>8. blockOf[e] <= head
  BY <1>2, <1>7, DueMined
<1>9. s \in Call /\ s.plan = r.plan /\ s.pc = "enqueue" /\ s.todo = r.todo /\ s.event = e
      /\ Due(s, blockOf) = Due(r, blockOf)
  <2> HIDE DEF r
  <2> QED
    BY <1>2, <1>6, SamePlan
<1>10. t \in Call /\ t.plan = r.plan /\ t.pc = "locks" /\ t.todo = r.todo \ {e}
       /\ Due(t, blockOf) = Due(r, blockOf)
  <2>1. r.todo \ {e} \in SUBSET (Lock \cup Remote)
    BY <1>6
  <2> HIDE DEF r
  <2> QED
    BY <1>2, <1>6, <2>1, SamePlan
<1> HIDE DEF r, s, t
<1>11. CallOK(r, blockOf, base[Home(w)], head, indexed', faults')
  BY <1>1, <1>2 DEF CallOK, Covered
<1>12. CallOK(s, blockOf, base[Home(w)], head, indexed', faults')
  BY <1>1, <1>2, <1>9, <1>11 DEF CallOK
<1>13. CallOK(t, blockOf, base[Home(w)], head, indexed', faults')
  BY <1>1, <1>2, <1>10, <1>11 DEF CallOK
<1>14. indexed \subseteq indexed' /\ indexed' \subseteq Lock
       /\ (\A l \in indexed' : blockOf[l] <= head) /\ last' \in [Process -> Int]
       /\ \A p \in Process : last'[p] = last[p]
  BY <1>1, <1>8 DEF SkipInv
<1>15. CASE CreatesRow(e)
  <2>1. worker' = [worker EXCEPT ![w] = s]
    BY <1>15, <1>5
  <2> QED
    BY <2>1, <1>1, <1>2, <1>9, <1>12, <1>14, CallStep, FaultsKept
<1>16. CASE ~CreatesRow(e)
  <2>1. worker' = [worker EXCEPT ![w] = t]
    BY <1>16, <1>5
  <2> QED
    BY <2>1, <1>1, <1>2, <1>10, <1>13, <1>14, CallStep, FaultsKept
<1> QED
  BY <1>15, <1>16

LEMMA AddJobSkip ==
    ASSUME SkipInv, NEW w \in Worker, AddJob(w)
    PROVE  SkipInv'
<1> DEFINE r == worker[w]
           s == [pc |-> "locks", plan |-> r.plan, todo |-> r.todo \ {r.event}, event |-> NoEvent]
<1>1. r.pc = "enqueue" /\ UNCHANGED <<blockOf, head, remoteIndexed, phase, base, indexed, last, faults>>
  BY DEF AddJob, chainVars
<1>2. r \in Call /\ CallOK(r, blockOf, base[Home(w)], head, indexed, faults)
      /\ phase[Home(w)] # "stopped" /\ r.plan # <<>>
  BY <1>1, BusyCall
<1>3. worker' = [worker EXCEPT ![w] =
                    [[[r EXCEPT !.pc = "locks"] EXCEPT !.event = NoEvent] EXCEPT !.todo = r.todo \ {r.event}]]
  BY DEF AddJob, SkipInv
<1>4. worker' = [worker EXCEPT ![w] = s]
  <2>1. [[[r EXCEPT !.pc = "locks"] EXCEPT !.event = NoEvent] EXCEPT !.todo = r.todo \ {r.event}] = s
    <3>1. r \in Call
      BY <1>2
    <3> HIDE DEF r
    <3> QED
      BY <3>1, CallFields, CallWithJob
  <2> QED
    BY <1>3, <2>1
<1>5. r.todo \ {r.event} \in SUBSET (Lock \cup Remote) /\ NoEvent \in Lock \cup {NoEvent}
  BY <1>2, CallFields
<1>6. s \in Call /\ s.plan = r.plan /\ s.pc = "locks" /\ s.todo = r.todo \ {r.event}
      /\ Due(s, blockOf) = Due(r, blockOf)
  <2> HIDE DEF r
  <2> QED
    BY <1>2, <1>5, SamePlan
<1> HIDE DEF r, s
<1>7. CallOK(s, blockOf, base[Home(w)], head, indexed, faults)
  BY <1>1, <1>2, <1>6 DEF CallOK
<1> QED
  BY <1>1, <1>2, <1>4, <1>6, <1>7, QuietCallStep

LEMMA QueryUnlocksSkip ==
    ASSUME SkipInv, NEW w \in Worker, QueryUnlocks(w)
    PROVE  SkipInv'
<1> DEFINE r == worker[w]
           u == EventsIn(Remote, Head(r.plan))
           s == [pc |-> "unlocks", plan |-> r.plan, todo |-> u, event |-> r.event]
<1>1. r.pc = "locks" /\ r.todo = {}
      /\ UNCHANGED <<blockOf, head, remoteIndexed, phase, base, indexed, last, faults>>
  BY DEF QueryUnlocks, chainVars, rowVars
<1>2. r \in Call /\ CallOK(r, blockOf, base[Home(w)], head, indexed, faults)
      /\ phase[Home(w)] # "stopped" /\ r.plan # <<>>
  BY <1>1, BusyCall
<1>3. worker' = [worker EXCEPT ![w] = [[r EXCEPT !.pc = "unlocks"] EXCEPT !.todo = u]]
  BY DEF QueryUnlocks, SkipInv
<1>4. worker' = [worker EXCEPT ![w] = s]
  <2>1. [[r EXCEPT !.pc = "unlocks"] EXCEPT !.todo = u] = s
    <3> HIDE DEF r, u
    <3> QED
      BY <1>1, <1>2, CallFields, CallWithTodo
  <2> QED
    BY <1>3, <2>1
<1>5. u \subseteq Remote /\ u \in SUBSET (Lock \cup Remote) /\ r.event \in Lock \cup {NoEvent}
  BY <1>2, CallFields DEF EventsIn
<1>6. s \in Call /\ s.plan = r.plan /\ s.pc = "unlocks" /\ s.todo = u
      /\ Due(s, blockOf) = Due(r, blockOf)
  <2> HIDE DEF r, u
  <2> QED
    BY <1>2, <1>5, SamePlan
<1> HIDE DEF r, s, u
<1>7. CallOK(s, blockOf, base[Home(w)], head, indexed, faults)
  BY <1>1, <1>2, <1>5, <1>6 DEF CallOK
<1> QED
  BY <1>1, <1>2, <1>4, <1>6, <1>7, QuietCallStep

LEMMA HandleUnlockEventSkip ==
    ASSUME SkipInv, NEW w \in Worker, NEW e \in Remote, HandleUnlockEvent(w, e)
    PROVE  SkipInv'
<1> DEFINE r == worker[w]
           s == [pc |-> "unlocks", plan |-> r.plan, todo |-> r.todo \ {e}, event |-> r.event]
<1>1. r.pc = "unlocks" /\ UNCHANGED <<blockOf, head, remoteIndexed, phase, base, indexed, last, faults>>
  BY DEF HandleUnlockEvent, chainVars
<1>2. r \in Call /\ CallOK(r, blockOf, base[Home(w)], head, indexed, faults)
      /\ phase[Home(w)] # "stopped" /\ r.plan # <<>>
  BY <1>1, BusyCall
<1>3. worker' = [worker EXCEPT ![w] = [r EXCEPT !.todo = r.todo \ {e}]]
  BY DEF HandleUnlockEvent, SkipInv
<1>4. worker' = [worker EXCEPT ![w] = s]
  <2>1. [r EXCEPT !.todo = r.todo \ {e}] = s
    <3> HIDE DEF r
    <3> QED
      BY <1>1, <1>2, CallFields, CallWith
  <2> QED
    BY <1>3, <2>1
<1>5. r.todo \ {e} \in SUBSET (Lock \cup Remote) /\ r.event \in Lock \cup {NoEvent}
  BY <1>2, CallFields
<1>6. s \in Call /\ s.plan = r.plan /\ s.pc = "unlocks" /\ s.todo = r.todo \ {e}
      /\ Due(s, blockOf) = Due(r, blockOf)
  <2> HIDE DEF r
  <2> QED
    BY <1>2, <1>5, SamePlan
<1> HIDE DEF r, s
<1>7. CallOK(s, blockOf, base[Home(w)], head, indexed, faults)
  BY <1>1, <1>2, <1>6 DEF CallOK
<1> QED
  BY <1>1, <1>2, <1>4, <1>6, <1>7, QuietCallStep

\* What follows the batch in hand.
LEMMA GaplessTail ==
    ASSUME NEW r \in Call, r.plan # <<>>, NEW n, Gapless(r.plan, r.plan[1].from, n)
    PROVE  /\ Gapless(Tail(r.plan), r.plan[1].to + 1, n)
           /\ NoneRetried(r.plan) => NoneRetried(Tail(r.plan))
<1> DEFINE plan == r.plan
           rest == Tail(plan)
<1>1. plan \in Seq(Chunk) /\ plan # <<>>
  BY DEF Call
<1> HIDE DEF plan
<1>2. /\ rest \in Seq(Chunk) /\ Len(rest) = Len(plan) - 1
      /\ \A i \in 1..Len(rest) : rest[i] = plan[i + 1] /\ i + 1 \in 1..Len(plan)
      /\ Len(plan) \in Nat
  BY <1>1
<1>3. /\ \A i \in 1..Len(plan) : plan[i].to <= n
      /\ \A i \in 1..(Len(plan) - 1) : plan[i + 1].from = plan[i].to + 1
  BY DEF plan, Gapless
<1> HIDE DEF rest
<1>4. \A i \in 1..Len(rest) : rest[i].to <= n
  BY <1>2, <1>3
<1>5. rest # <<>> => rest[1].from = plan[1].to + 1
  <2> SUFFICES ASSUME rest # <<>> PROVE rest[1].from = plan[1].to + 1
    OBVIOUS
  <2>1. 1 \in 1..Len(rest)
    BY <1>2
  <2>2. rest[1] = plan[2] /\ 1 \in 1..(Len(plan) - 1)
    BY <2>1, <1>2
  <2> QED
    BY <2>2, <1>3
<1>6. ASSUME NEW i \in 1..(Len(rest) - 1) PROVE rest[i + 1].from = rest[i].to + 1
  <2>1. i \in 1..Len(rest) /\ i + 1 \in 1..Len(rest) /\ i + 1 \in 1..(Len(plan) - 1)
    BY <1>2
  <2>2. rest[i] = plan[i + 1] /\ rest[i + 1] = plan[(i + 1) + 1]
    BY <2>1, <1>2
  <2> QED
    BY <2>1, <2>2, <1>3
<1> QED
  BY <1>2, <1>4, <1>5, <1>6 DEF Gapless, NoneRetried, plan, rest

LEMMA AdvanceSkip ==
    ASSUME SkipInv, NEW w \in Worker, Advance(w)
    PROVE  SkipInv'
<1> DEFINE r == worker[w]
           p == Home(w)
           to == r.plan[1].to
           s == Enter(Tail(r.plan))
<1>1. r.pc = "unlocks" /\ r.todo = {}
      /\ UNCHANGED <<blockOf, head, remoteIndexed, phase, base, indexed, faults>>
  BY DEF Advance, chainVars, rowVars
<1>2. r \in Call /\ CallOK(r, blockOf, base[p], head, indexed, faults) /\ phase[p] # "stopped" /\ r.plan # <<>>
  BY <1>1, BusyCall
<1>3. worker' = [worker EXCEPT ![w] = s]
  BY DEF Advance
<1>4. p \in Process
  BY DEF Worker, Home
<1>5. Head(r.plan) = r.plan[1] /\ to \in Int /\ r.plan[1].from \in Int
  <2> HIDE DEF r
  <2> QED
    BY <1>2, BatchType
<1>6. last' = [last EXCEPT ![p] = to]
  BY <1>5 DEF Advance
<1>7. Covered(blockOf, base[p], r.plan[1].from - 1, indexed) /\ Due(r, blockOf) \subseteq indexed
      /\ Gapless(r.plan, r.plan[1].from, head)
  BY <1>1, <1>2 DEF CallOK
<1>8. Covered(blockOf, base[p], to, indexed)
  <2>1. \A l \in Lock : blockOf[l] \in Int
    BY ListenerAssumption DEF SkipInv
  <2>2. base[p] \in Int
    BY <1>4 DEF SkipInv
  <2>3. \A l \in Lock : blockOf[l] \in r.plan[1].from .. to => l \in indexed
    BY <1>7 DEF Due
  <2>4. \A l \in Lock : blockOf[l] \in (base[p] + 1) .. (r.plan[1].from - 1) => l \in indexed
    BY <1>7 DEF Covered
  <2> HIDE DEF r, p, to
  <2>5. \A l \in Lock : blockOf[l] \in (base[p] + 1) .. to => l \in indexed
    BY <1>5, <2>1, <2>2, <2>3, <2>4
  <2> QED
    BY <2>5 DEF Covered
<1>9. Gapless(Tail(r.plan), to + 1, head) /\ (faults < MaxFaults => NoneRetried(Tail(r.plan)))
  <2>1. faults < MaxFaults => NoneRetried(r.plan)
    BY <1>2 DEF CallOK
  <2> HIDE DEF r
  <2> QED
    BY <1>2, <1>7, <2>1, GaplessTail DEF to
<1>10. Covered(blockOf, base[p], (to + 1) - 1, indexed)
  <2> HIDE DEF to
  <2>1. (to + 1) - 1 = to
    BY <1>5
  <2> QED
    BY <1>8, <2>1
<1> HIDE DEF r, to
<1>11. s \in Call /\ CallOK(s, blockOf, base[p], head, indexed, faults)
  BY <1>9, <1>10, EnterOK
<1> HIDE DEF s
<1>12. last' \in [Process -> Int]
       /\ \A q \in Process : last'[q] = last[q] \/ Covered(blockOf, base[q], last'[q], indexed)
  <2> HIDE DEF p
  <2> QED
    BY <1>4, <1>5, <1>6, <1>8 DEF SkipInv
<1>13. indexed \subseteq indexed' /\ indexed' \subseteq Lock
       /\ (\A l \in indexed' : blockOf[l] <= head) /\ indexed' = indexed
  BY <1>1 DEF SkipInv
<1> QED
  BY <1>1, <1>2, <1>3, <1>11, <1>12, <1>13, CallStep, FaultsKept

\* A request that fails for good ends the poll it belongs to.
LEMMA GiveUpSkip ==
    ASSUME SkipInv, NEW w \in Worker, worker[w].pc # "idle", w # Boot(Home(w)), GiveUp(w),
           UNCHANGED <<blockOf, head, remoteIndexed, base, indexed>>, Fault
    PROVE  SkipInv'
<1>1. phase[Home(w)] # "stopped"
  BY BusyStarted
<1>2. worker' = [worker EXCEPT ![w] = Idle] /\ UNCHANGED <<last, phase>>
  BY DEF GiveUp
<1>3. Idle \in Call /\ CallOK(Idle, blockOf, base[Home(w)], head, indexed, faults')
  BY DEF Idle, Call, CallOK, Gapless, NoneRetried
<1> QED
  BY <1>1, <1>2, <1>3, FaultyCallStep

LEMMA RequestFailsSkip ==
    ASSUME SkipInv, OnlyRequestsFail, NEW w \in Worker, RequestFails(w)
    PROVE  SkipInv'
<1>1. w # Boot(Home(w)) /\ worker[w].pc # "idle" /\ Fault
  BY DEF RequestFails, OnlyRequestsFail
<1>2. worker[w] \in Call /\ CallOK(worker[w], blockOf, base[Home(w)], head, indexed, faults)
  BY DEF SkipInv
<1>3. ~Recovers(w, FALSE)
  <2>1. CASE worker[w].plan = <<>>
    BY <2>1 DEF Recovers
  <2>2. CASE worker[w].plan # <<>>
    <3>1. NoneRetried(worker[w].plan)
      BY <1>1, <1>2 DEF CallOK, Fault
    <3>2. worker[w].plan \in Seq(Chunk)
      BY <1>2 DEF Call
    <3>3. 1 \in 1..Len(worker[w].plan) /\ Head(worker[w].plan) = worker[w].plan[1]
      BY <2>2, <3>2
    <3> QED
      BY <3>1, <3>3 DEF Recovers, NoneRetried
  <2> QED
    BY <2>1, <2>2
<1>4. GiveUp(w) /\ UNCHANGED <<blockOf, head, remoteIndexed, base, indexed>>
  BY <1>3 DEF RequestFails, Fail, chainVars, rowVars
<1> QED
  BY <1>1, <1>4, GiveUpSkip

\* The retries of a batch, then the rest of its plan.
LEMMA RetriesGapless ==
    ASSUME NEW plan, NEW n \in Int, plan # <<>>, Gapless(plan, plan[1].from, n),
           plan[1].from < plan[1].to, Gapless(Tail(plan), plan[1].to + 1, n)
    PROVE  Gapless(Singles(plan[1]) \o Tail(plan), plan[1].from, n)
<1> DEFINE a == plan[1].from
           b == plan[1].to
           k == b - a + 1
           rest == Tail(plan)
           single(i) == [from |-> a + i - 1, to |-> a + i - 1, retry |-> TRUE]
           all == Singles(plan[1]) \o rest
<1>1. /\ a \in Int /\ b \in Int /\ b <= n /\ rest \in Seq(Chunk)
  <2>1. plan \in Seq(Chunk) /\ plan # <<>>
    BY DEF Gapless
  <2>2. plan[1] \in Chunk /\ 1 \in 1..Len(plan)
    BY <2>1
  <2>3. plan[1].to <= n
    BY <2>2 DEF Gapless
  <2> QED
    BY <2>1, <2>2, <2>3 DEF Chunk
<1>2. k \in Nat /\ a < b
  BY <1>1
<1>3. Singles(plan[1]) = [i \in 1..k |-> single(i)]
  BY DEF Singles
<1>4. \A i \in 1..k : single(i) \in Chunk /\ single(i).from = a + i - 1 /\ single(i).to = a + i - 1
  BY <1>1 DEF Chunk
<1>5. Gapless(rest, b + 1, n)
  OBVIOUS
<1> HIDE DEF single, a, b, rest
<1>6. /\ Singles(plan[1]) \in Seq(Chunk) /\ Len(Singles(plan[1])) = k
      /\ \A i \in 1..k : Singles(plan[1])[i] = single(i)
  <2> HIDE DEF k
  <2> QED
    BY <1>2, <1>3, <1>4
<1> DEFINE m == Len(rest)
<1>7. m \in Nat
  BY <1>1
<1>8. /\ all \in Seq(Chunk) /\ Len(all) = k + m
      /\ \A i \in 1..k : all[i] = single(i)
      /\ \A i \in 1..m : all[k + i] = rest[i]
  <2> HIDE DEF k
  <2>1. all \in Seq(Chunk) /\ Len(all) = k + m
    BY <1>1, <1>6
  <2>2. ASSUME NEW i \in 1..k PROVE all[i] = single(i)
    BY <1>1, <1>2, <1>6
  <2>3. ASSUME NEW i \in 1..m PROVE all[k + i] = rest[i]
    <3>1. k + i \in 1..(k + m) /\ ~(k + i <= k) /\ k + i - k = i
      BY <1>2, <1>7
    <3> QED
      BY <3>1, <1>1, <1>2, <1>6
  <2> QED
    BY <2>1, <2>2, <2>3
<1>9. /\ \A i \in 1..m : rest[i].to <= n
      /\ \A i \in 1..(m - 1) : rest[i + 1].from = rest[i].to + 1
      /\ m >= 1 => rest[1].from = b + 1
  BY <1>1, <1>5, <1>7 DEF Gapless
<1> HIDE DEF all, m
<1>10. all # <<>> => all[1].from = a
  BY <1>1, <1>2, <1>4, <1>8
<1>11. ASSUME NEW i \in 1..(k + m) PROVE all[i].to <= n
  <2>1. CASE i <= k
    BY <2>1, <1>1, <1>2, <1>4, <1>7, <1>8
  <2>2. CASE i > k
    <3>1. i - k \in 1..m /\ k + (i - k) = i
      BY <2>2, <1>2, <1>7
    <3> QED
      BY <3>1, <1>8, <1>9
  <2> QED
    BY <2>1, <2>2, <1>2, <1>7
<1>12. ASSUME NEW i \in 1..(k + m - 1) PROVE all[i + 1].from = all[i].to + 1
  <2>1. CASE i < k
    <3>1. i \in 1..k /\ i + 1 \in 1..k
      BY <2>1, <1>2, <1>7
    <3> QED
      BY <3>1, <1>1, <1>4, <1>8
  <2>2. CASE i = k
    <3>1. k \in 1..k /\ 1 \in 1..m
      BY <2>2, <1>1, <1>2, <1>7
    <3>2. all[k].to = b
      BY <3>1, <1>1, <1>4, <1>8
    <3> QED
      BY <2>2, <3>1, <3>2, <1>8, <1>9, <1>7
  <2>3. CASE i > k
    <3> DEFINE j == i - k
    <3>1. j \in 1..(m - 1) /\ j \in 1..m /\ j + 1 \in 1..m /\ k + j = i /\ k + (j + 1) = i + 1
      BY <2>3, <1>2, <1>7
    <3> HIDE DEF j
    <3> QED
      BY <3>1, <1>8, <1>9
  <2> QED
    BY <2>1, <2>2, <2>3, <1>2, <1>7
<1>13. all \in Seq(Chunk) /\ Len(all) = k + m
  BY <1>8
<1>14. \A i \in 1..Len(all) : all[i].to <= n
  BY <1>11, <1>13
<1>15. \A i \in 1..(Len(all) - 1) : all[i + 1].from = all[i].to + 1
  <2> TAKE i \in 1..(Len(all) - 1)
  <2> HIDE DEF k
  <2>1. i \in 1..(k + m - 1)
    BY <1>2, <1>7, <1>13
  <2> QED
    BY <2>1, <1>12
<1>16. Gapless(all, a, n)
  BY <1>10, <1>13, <1>14, <1>15 DEF Gapless
<1> QED
  BY <1>16 DEF a, all, rest

\* A request that times out starts the retries of its batch, or ends the poll;
\* it is the only fault there is.
LEMMA RequestTimesOutSkip ==
    ASSUME SkipInv, OnlyRequestsFail, NEW w \in Worker, RequestTimesOut(w)
    PROVE  SkipInv'
<1> DEFINE r == worker[w]
           p == Home(w)
           s == Enter(Singles(r.plan[1]) \o Tail(r.plan))
<1>1. w # Boot(p) /\ r.pc # "idle" /\ Fault
      /\ UNCHANGED <<blockOf, head, remoteIndexed, base, indexed>> /\ Fail(w, TRUE)
  BY DEF RequestTimesOut, OnlyRequestsFail, chainVars, rowVars
<1>2. r \in Call /\ CallOK(r, blockOf, base[p], head, indexed, faults)
      /\ head \in Int /\ faults \in Nat
  BY DEF SkipInv
<1>3. CASE ~Recovers(w, TRUE)
  BY <1>1, <1>3, GiveUpSkip DEF Fail
<1>4. CASE Recovers(w, TRUE)
  <2>1. r.plan # <<>> /\ worker' = [worker EXCEPT ![w] = Enter(RecoveredPlan(w))]
        /\ UNCHANGED <<last, phase>>
    BY <1>1, <1>4 DEF Recovers, Fail
  <2>2. NoneRetried(r.plan) /\ Gapless(r.plan, r.plan[1].from, head)
        /\ Covered(blockOf, base[p], r.plan[1].from - 1, indexed)
    BY <1>1, <1>2, <2>1 DEF CallOK, Fault
  <2>3. Head(r.plan) = r.plan[1] /\ 1 \in 1..Len(r.plan)
    <3>1. r.plan \in Seq(Chunk)
      BY <1>2 DEF Call
    <3> QED
      BY <2>1, <3>1
  <2>4. ~r.plan[1].retry
    BY <2>2, <2>3 DEF NoneRetried
  <2>5. r.plan[1].from < r.plan[1].to
    BY <1>4, <2>3, <2>4 DEF Recovers
  <2>6. worker' = [worker EXCEPT ![w] = s]
    BY <2>1, <2>3, <2>4 DEF RecoveredPlan
  <2>7. ~(faults' < MaxFaults)
    BY <1>1, <1>2, ListenerAssumption DEF Fault, OnlyRequestsFail, RequestTimesOut
  <2> HIDE DEF r, p
  <2>8. Gapless(Tail(r.plan), r.plan[1].to + 1, head)
    BY <1>2, <2>1, <2>2, GaplessTail
  <2>9. Gapless(Singles(r.plan[1]) \o Tail(r.plan), r.plan[1].from, head)
    BY <1>2, <2>1, <2>2, <2>5, <2>8, RetriesGapless
  <2>10. s \in Call /\ CallOK(s, blockOf, base[p], head, indexed, faults')
    BY <2>2, <2>7, <2>9, EnterOK
  <2> HIDE DEF s
  <2>11. phase[Home(w)] # "stopped"
    BY <1>1, BusyStarted DEF r
  <2> QED
    BY <1>1, <2>1, <2>6, <2>10, <2>11, FaultyCallStep DEF p
<1> QED
  BY <1>3, <1>4

\* The lock of every unlock has its row here.
LEMMA NoForeignKeyFailure ==
    ASSUME SkipInv, NEW w \in Worker
    PROVE  ~ForeignKeyFails(w)
<1> SUFFICES ASSUME ForeignKeyFails(w) PROVE FALSE
  OBVIOUS
<1>1. worker[w].pc = "unlocks"
  BY DEF ForeignKeyFails
<1>2. CallOK(worker[w], blockOf, base[Home(w)], head, indexed, faults)
  BY <1>1, BusyCall
<1>3. worker[w].todo \subseteq Remote
  BY <1>1, <1>2 DEF CallOK
<1> QED
  BY <1>3 DEF ForeignKeyFails, NextEvents, SkipInv

\* Every step preserves the invariant.
LEMMA SkipStepInv == OnlyRequestsFail /\ SkipInv /\ [ListenerNext]_listenerVars => SkipInv'
<1> SUFFICES ASSUME OnlyRequestsFail, SkipInv, [ListenerNext]_listenerVars PROVE SkipInv'
  OBVIOUS
<1>1. ASSUME NEW p \in Process, Start(p) \/ CatchUp(p) \/ CaughtUp(p) PROVE SkipInv'
  BY <1>1, StartSkip, CatchUpSkip, CaughtUpSkip
<1>2. ASSUME NEW w \in Poller, NEW current \in 1..MaxBlock, Poll(w, current) PROVE SkipInv'
  BY <1>2, PollSkip
<1>3. ASSUME NEW w \in Worker, Work(w) PROVE SkipInv'
  <2>1. ASSUME NEW e \in Lock, HandleLockEvent(w, e) PROVE SkipInv'
    BY <2>1, HandleLockEventSkip
  <2>2. CASE AddJob(w)
    BY <2>2, AddJobSkip
  <2>3. CASE QueryUnlocks(w)
    BY <2>3, QueryUnlocksSkip
  <2>4. ASSUME NEW e \in Remote, HandleUnlockEvent(w, e) PROVE SkipInv'
    BY <2>4, HandleUnlockEventSkip
  <2>5. CASE Advance(w)
    BY <2>5, AdvanceSkip
  <2>6. ~ForeignKeyFails(w)
    BY NoForeignKeyFailure
  <2> QED
    BY <1>3, <2>1, <2>2, <2>3, <2>4, <2>5, <2>6 DEF Work
<1>4. CASE Environment
  <2>1. CASE MineBlock
    BY <2>1, MineBlockSkip
  <2>2. \A r \in Remote : ~IndexRemote(r)
    BY DEF IndexRemote, SkipInv
  <2>3. ASSUME NEW w \in Worker, RequestFails(w) PROVE SkipInv'
    BY <2>3, RequestFailsSkip
  <2>4. ASSUME NEW w \in Worker, RequestTimesOut(w) PROVE SkipInv'
    BY <2>4, RequestTimesOutSkip
  <2>5. (\A w \in Worker : ~AddJobFails(w)) /\ (\A p \in Process : ~StartFails(p) /\ ~Crash(p))
    BY DEF OnlyRequestsFail, AddJobFails, StartFails, Crash
  <2> QED
    BY <1>4, <2>1, <2>2, <2>3, <2>4, <2>5 DEF Environment
<1>5. CASE UNCHANGED listenerVars
  BY <1>5 DEF listenerVars, SkipInv
<1> QED
  BY <1>1, <1>2, <1>3, <1>4, <1>5 DEF ListenerNext

\* No lock of a processed block lacks its row, while requests are all that
\* fails: however many processes, however their polls overlap, and however
\* often a batch is given up, or once retried block by block.
THEOREM NoBlockSkippedByPolls == ASSUME OnlyRequestsFail PROVE ListenerSpec => []NoBlockSkipped
<1>1. SkipInv => NoBlockSkipped
  BY DEF SkipInv, NoBlockSkipped, Processed, Covered
<1>2. ListenerInit => SkipInv
  BY SkipInitInv
<1>3. SkipInv /\ [ListenerNext]_listenerVars => SkipInv'
  BY SkipStepInv
<1> QED
  BY <1>1, <1>2, <1>3, PTL DEF ListenerSpec
==============================================================================
