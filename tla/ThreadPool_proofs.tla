-------------------------- MODULE ThreadPool_proofs --------------------------
(***************************************************************************)
(* Invariance proofs for ThreadPool, for every number of workers, every    *)
(* capacity, every finite set of submitters and every set of tasks, and    *)
(* the proof that the pool implements TaskPool: ring buffer, mutex and     *)
(* condition variables behave like a FIFO queue whose tasks are started    *)
(* once and finish once.                                                   *)
(***************************************************************************)
EXTENDS ThreadPool, FiniteSetTheorems, SequenceTheorems, TLAPS

-----------------------------------------------------------------------------
(* Constants and index arithmetic                                          *)

(* The defaults of thread_pool_create leave at least one worker and one    *)
(* slot.                                                                   *)
LEMMA SizesPositive ==
    /\ WorkerCount \in Nat \ {0}
    /\ Capacity \in Nat \ {0}
  BY PoolAssumption DEF WorkerCount, Capacity

(* Advancing a ring index keeps it inside the array.                       *)
LEMMA RingStep ==
    ASSUME NEW i \in Slots
    PROVE  /\ (i + 1) % Capacity \in Slots
           /\ (i + 1) % Capacity = IF i = Capacity - 1 THEN 0 ELSE i + 1
  BY SizesPositive DEF Slots

(* A signal moves at most one waiter to the mutex and nobody else.         *)
LEMMA SignalCases ==
    ASSUME NEW pc, NEW waiters, NEW next \in Signal(pc, waiters)
    PROVE  \/ waiters = {} /\ next = pc
           \/ \E t \in waiters : next = [pc EXCEPT ![t] = "lock"]
  BY DEF Signal

-----------------------------------------------------------------------------
(* Type correctness                                                        *)

(* A zeroed pool is well typed.                                            *)
LEMMA TypeInit == Init => TypeOK
  <1> SUFFICES ASSUME Init PROVE TypeOK
    OBVIOUS
  <1> USE PoolAssumption, SizesPositive DEF Init
  <1>1. /\ queue \in [Slots -> Tasks \cup {NoTask}]
        /\ head \in Slots /\ tail \in Slots /\ count \in 0 .. Capacity
        /\ created \in 0 .. WorkerCount /\ joined \in 0 .. WorkerCount
    BY DEF Slots
  <1>2. /\ stopping \in BOOLEAN
        /\ phase \in {"create", "open", "join", "freed"}
        /\ submitted \subseteq Tasks /\ finished \subseteq Tasks
    OBVIOUS
  <1>3. /\ wpc \in [Workers -> WorkerPcs] /\ wtask \in [Workers -> Tasks \cup {NoTask}]
        /\ spc \in [Submitters -> SubmitPcs] /\ sarg \in [Submitters -> Tasks \cup {NoTask}]
    BY DEF WorkerPcs, SubmitPcs
  <1> QED
    BY <1>1, <1>2, <1>3 DEF TypeOK

(* A running worker holds a task somebody submitted (a part of             *)
(* TasksInOnePlace), so finishing it keeps the history well typed.         *)
LEMMA TypeStep == TypeOK /\ TasksInOnePlace /\ [Next]_vars => TypeOK'
  <1> SUFFICES ASSUME TypeOK, TasksInOnePlace, [Next]_vars
               PROVE  TypeOK'
    OBVIOUS
  <1> USE PoolAssumption, SizesPositive
  <1>1. CASE CreateFails
    BY <1>1 DEF TypeOK, CreateFails, ringVars, ownerVars, workerVars, submitVars, history
  <1>2. ASSUME BeginDestroy PROVE TypeOK'
    BY <1>2 DEF TypeOK, BeginDestroy, Broadcast, WorkerPcs, SubmitPcs, ringVars, history
  <1>3. CASE OwnerStep
    <2>1. CASE CreateWorker
      BY <2>1 DEF TypeOK, CreateWorker, Workers, WorkerPcs, ringVars, workerVars, submitVars, history
    <2>2. CASE Join
      BY <2>2 DEF TypeOK, Join, Workers, ringVars, workerVars, submitVars, history
    <2>3. CASE Free
      BY <2>3 DEF TypeOK, Free, ringVars, workerVars, submitVars, history
    <2> QED BY <1>3, <2>1, <2>2, <2>3 DEF OwnerStep
  <1>4. ASSUME NEW s \in Submitters, NEW t \in Tasks, CallSubmit(s, t)
        PROVE  TypeOK'
    BY <1>4 DEF TypeOK, CallSubmit, SubmitPcs, ringVars, ownerVars, workerVars
  <1>5. ASSUME NEW s \in Submitters, SubmitWait(s) \/ SubmitRefused(s)
        PROVE  TypeOK'
    BY <1>5 DEF TypeOK, SubmitWait, SubmitRefused, SubmitPcs,
                ringVars, ownerVars, workerVars, history
  <1>6. ASSUME NEW s \in Submitters, SubmitPush(s)
        PROVE  TypeOK'
    <2>1. wpc' \in [Workers -> WorkerPcs]
      BY <1>6, SignalCases DEF TypeOK, SubmitPush, WorkerPcs, WaitingWorkers
    <2>2. tail' \in Slots /\ count' \in 0 .. Capacity
      BY <1>6, RingStep DEF TypeOK, SubmitPush, Slots
    <2>3. QED
      BY <1>6, <2>1, <2>2 DEF TypeOK, SubmitPush, SubmitPcs, ownerVars, history
  <1>7. ASSUME NEW s \in Submitters, SpuriousSubmitterWakeup(s) \/ SubmitterUsesFreedPool(s)
        PROVE  TypeOK'
    BY <1>7 DEF TypeOK, SpuriousSubmitterWakeup, SubmitterUsesFreedPool, SubmitPcs,
                ringVars, ownerVars, workerVars, history
  <1>8. ASSUME NEW w \in Workers, WorkerWait(w) \/ WorkerExit(w) \/ SpuriousWorkerWakeup(w)
        PROVE  TypeOK'
    BY <1>8 DEF TypeOK, WorkerWait, WorkerExit, SpuriousWorkerWakeup, WorkerPcs,
                ringVars, ownerVars, submitVars, history
  <1>9. ASSUME NEW w \in Workers, WorkerPop(w)
        PROVE  TypeOK'
    <2>1. spc' \in [Submitters -> SubmitPcs]
      BY <1>9, SignalCases DEF TypeOK, WorkerPop, SubmitPcs, WaitingSubmitters
    <2>2. head' \in Slots /\ count' \in 0 .. Capacity
      BY <1>9, RingStep DEF TypeOK, WorkerPop, Slots
    <2>3. QED
      BY <1>9, <2>1, <2>2 DEF TypeOK, WorkerPop, WorkerPcs, ownerVars, history
  <1>10. ASSUME NEW w \in Workers, WorkerFinish(w)
         PROVE  TypeOK'
    <2>1. wtask[w] \in Tasks
      BY <1>10 DEF TypeOK, TasksInOnePlace, WorkerFinish
    <2>2. QED
      BY <1>10, <2>1 DEF TypeOK, WorkerFinish, WorkerPcs, ringVars, ownerVars, submitVars
  <1>11. CASE UNCHANGED vars
    BY <1>11 DEF TypeOK, vars, ringVars, ownerVars, workerVars, submitVars, history
  <1>12. QED
    BY <1>1, <1>2, <1>3, <1>4, <1>5, <1>6, <1>7, <1>8, <1>9, <1>10, <1>11
       DEF Next, CreateWorkerFails, Destroy, SubmitterStep, WorkerStep, Rest

-----------------------------------------------------------------------------
(* The ring                                                                *)

(* Only a push and a pop touch the ring.                                   *)
LEMMA RingUnchanged ==
    ASSUME [Next]_vars
    PROVE  \/ \E s \in Submitters : SubmitPush(s)
           \/ \E w \in Workers : WorkerPop(w)
           \/ UNCHANGED ringVars
  BY DEF Next, CreateFails, CreateWorkerFails, BeginDestroy, OwnerStep, CreateWorker, Join,
         Free, Destroy, CallSubmit, SubmitterStep, SubmitWait, SubmitRefused,
         SpuriousSubmitterWakeup, SubmitterUsesFreedPool, WorkerStep, WorkerWait,
         WorkerExit, WorkerFinish, SpuriousWorkerWakeup, Rest, vars

(* What a push and a pop do to the indexes, without modulo.                *)
LEMMA PushIndexes ==
    ASSUME TypeOK, NEW s \in Submitters, SubmitPush(s)
    PROVE  /\ head' = head /\ count' = count + 1 /\ count < Capacity
           /\ tail' = IF tail = Capacity - 1 THEN 0 ELSE tail + 1
  <1>1. count < Capacity
    BY SizesPositive DEF TypeOK, SubmitPush
  <1>2. tail' = IF tail = Capacity - 1 THEN 0 ELSE tail + 1
    BY RingStep DEF TypeOK, SubmitPush
  <1>3. QED
    BY <1>1, <1>2 DEF SubmitPush

(* The same for a pop: count drops by one and head moves on.               *)
LEMMA PopIndexes ==
    ASSUME TypeOK, NEW w \in Workers, WorkerPop(w)
    PROVE  /\ tail' = tail /\ count' = count - 1 /\ count > 0
           /\ head' = IF head = Capacity - 1 THEN 0 ELSE head + 1
  <1>1. count > 0
    BY SizesPositive DEF TypeOK, WorkerPop
  <1>2. head' = IF head = Capacity - 1 THEN 0 ELSE head + 1
    BY RingStep DEF TypeOK, WorkerPop
  <1>3. QED
    BY <1>1, <1>2 DEF WorkerPop

(* The ranges of the indexes, apart from the rest of TypeOK.               *)
LEMMA IndexTypes ==
    ASSUME TypeOK
    PROVE  /\ head \in 0 .. Capacity - 1 /\ tail \in 0 .. Capacity - 1
           /\ count \in 0 .. Capacity /\ Capacity \in Nat \ {0}
  BY SizesPositive DEF TypeOK, Slots

(* head, tail and count stay consistent.                                   *)
LEMMA RingConsistentStep ==
    TypeOK /\ RingConsistent /\ [Next]_vars => RingConsistent'
  <1> SUFFICES ASSUME TypeOK, RingConsistent, [Next]_vars
               PROVE  RingConsistent'
    OBVIOUS
  <1>1. ASSUME NEW s \in Submitters, SubmitPush(s)
        PROVE  RingConsistent'
    BY <1>1, PushIndexes, IndexTypes DEF RingConsistent
  <1>2. ASSUME NEW w \in Workers, WorkerPop(w)
        PROVE  RingConsistent'
    BY <1>2, PopIndexes, IndexTypes DEF RingConsistent
  <1>3. CASE UNCHANGED ringVars
    BY <1>3 DEF RingConsistent, ringVars
  <1>4. QED
    BY <1>1, <1>2, <1>3, RingUnchanged

(* A push occupies the slot at tail, which was free, and no other.         *)
LEMMA PushOccupies ==
    ASSUME TypeOK, RingConsistent, NEW s \in Submitters, SubmitPush(s)
    PROVE  /\ ~Occupied(tail)
           /\ \A i \in Slots : Occupied(i)' <=> Occupied(i) \/ i = tail
  BY PushIndexes, IndexTypes DEF RingConsistent, Occupied, Slots

(* A pop frees the slot at head, which was occupied, and no other.         *)
LEMMA PopFrees ==
    ASSUME TypeOK, RingConsistent, NEW w \in Workers, WorkerPop(w)
    PROVE  /\ Occupied(head)
           /\ \A i \in Slots : Occupied(i)' <=> Occupied(i) /\ i # head
  BY PopIndexes, IndexTypes DEF RingConsistent, Occupied, Slots
-----------------------------------------------------------------------------
(* Tasks                                                                   *)

(* No step puts a task in a second place.                                  *)
LEMMA TasksInOnePlaceStep ==
    TypeOK /\ RingConsistent /\ OwnerProgress /\ TasksInOnePlace /\ [Next]_vars
        => TasksInOnePlace'
  <1> SUFFICES ASSUME TypeOK, RingConsistent, OwnerProgress, TasksInOnePlace, [Next]_vars
               PROVE  TasksInOnePlace'
    OBVIOUS
  <1>1. CASE CreateFails
    BY <1>1 DEF TasksInOnePlace, InSubmit, Occupied, CreateFails, ringVars, workerVars,
                submitVars, history
  <1>2. ASSUME BeginDestroy PROVE TasksInOnePlace'
    <2>1. /\ \A w \in Workers : wpc'[w] = "running" <=> wpc[w] = "running"
          /\ \A s \in Submitters : InSubmit(s)' <=> InSubmit(s)
      BY <1>2 DEF BeginDestroy, Broadcast, TypeOK, InSubmit
    <2>2. UNCHANGED <<queue, head, tail, count, wtask, sarg, submitted, finished>>
      BY <1>2 DEF BeginDestroy, ringVars, history
    <2>3. QED
      BY <2>1, <2>2 DEF TasksInOnePlace, Occupied
  <1>3. CASE CreateWorker
    <2>1. \A w \in Workers : wpc'[w] = "running" <=> wpc[w] = "running"
      BY <1>3 DEF CreateWorker, TypeOK, OwnerProgress, Workers
    <2>2. /\ UNCHANGED <<queue, head, tail, count, wtask, sarg, submitted, finished>>
          /\ \A s \in Submitters : InSubmit(s)' <=> InSubmit(s)
      BY <1>3 DEF CreateWorker, ringVars, submitVars, history, InSubmit
    <2>3. QED
      BY <2>1, <2>2 DEF TasksInOnePlace, Occupied
  <1>4. CASE Join \/ Free
    BY <1>4 DEF TasksInOnePlace, InSubmit, Occupied, Join, Free, ringVars, workerVars,
                submitVars, history
  <1>5. ASSUME NEW s \in Submitters, NEW t \in Tasks, CallSubmit(s, t)
        PROVE  TasksInOnePlace'
    <2>1. /\ UNCHANGED <<queue, head, tail, count, wpc, wtask, finished>>
          /\ submitted' = submitted \cup {t} /\ t \notin submitted
          /\ sarg' = [sarg EXCEPT ![s] = t] /\ spc' = [spc EXCEPT ![s] = "lock"]
      BY <1>5 DEF CallSubmit, ringVars, workerVars
    <2>2. finished \subseteq submitted
      BY DEF TasksInOnePlace
    <2>3. /\ InSubmit(s)' /\ sarg'[s] = t
          /\ \A r \in Submitters \ {s} : (InSubmit(r)' <=> InSubmit(r)) /\ sarg'[r] = sarg[r]
      BY <2>1 DEF InSubmit, TypeOK
    <2>4. QED
      BY <2>1, <2>2, <2>3 DEF TasksInOnePlace, Occupied
  <1>6. ASSUME NEW s \in Submitters, SubmitWait(s) \/ SpuriousSubmitterWakeup(s)
        PROVE  TasksInOnePlace'
    <2>1. UNCHANGED <<queue, head, tail, count, wpc, wtask, sarg, submitted, finished>>
      BY <1>6 DEF SubmitWait, SpuriousSubmitterWakeup, ringVars, workerVars, history
    <2>2. \A r \in Submitters : InSubmit(r)' <=> InSubmit(r)
      BY <1>6 DEF SubmitWait, SpuriousSubmitterWakeup, InSubmit, TypeOK
    <2>3. QED
      BY <2>1, <2>2 DEF TasksInOnePlace, Occupied
  <1>7. ASSUME NEW s \in Submitters, SubmitRefused(s) \/ SubmitterUsesFreedPool(s)
        PROVE  TasksInOnePlace'
    <2>1. UNCHANGED <<queue, head, tail, count, wpc, wtask, submitted, finished>>
      BY <1>7 DEF SubmitRefused, SubmitterUsesFreedPool, ringVars, workerVars, history
    <2>2. \A r \in Submitters : InSubmit(r)' => InSubmit(r) /\ sarg'[r] = sarg[r]
      BY <1>7 DEF SubmitRefused, SubmitterUsesFreedPool, InSubmit, TypeOK
    <2>3. QED
      BY <2>1, <2>2 DEF TasksInOnePlace, Occupied
  <1>8. ASSUME NEW s \in Submitters, SubmitPush(s)
        PROVE  TasksInOnePlace'
    <2>1. UNCHANGED <<wtask, submitted, finished>>
      BY <1>8 DEF SubmitPush, history
    <2>2. \A w \in Workers : wpc'[w] = "running" <=> wpc[w] = "running"
      BY <1>8, SignalCases DEF SubmitPush, TypeOK, WaitingWorkers
    <2>3. InSubmit(s) /\ \A r \in Submitters :
             InSubmit(r)' => InSubmit(r) /\ r # s /\ sarg'[r] = sarg[r]
      BY <1>8 DEF SubmitPush, InSubmit, TypeOK
    <2>4. /\ queue'[tail] = sarg[s] /\ tail \in Slots
          /\ \A i \in Slots \ {tail} : queue'[i] = queue[i]
      BY <1>8 DEF SubmitPush, TypeOK
    <2>5. /\ ~Occupied(tail)
          /\ \A i \in Slots : Occupied(i)' <=> Occupied(i) \/ i = tail
      BY <1>8, PushOccupies
    <2>6. \A i \in Slots : Occupied(i) => queue'[i] = queue[i]
      BY <2>4, <2>5
    <2>7. QED
      BY <2>1, <2>2, <2>3, <2>4, <2>5, <2>6 DEF TasksInOnePlace
  <1>9. ASSUME NEW w \in Workers, WorkerWait(w) \/ WorkerExit(w) \/ SpuriousWorkerWakeup(w)
        PROVE  TasksInOnePlace'
    <2>1. UNCHANGED <<queue, head, tail, count, wtask, spc, sarg, submitted, finished>>
      BY <1>9 DEF WorkerWait, WorkerExit, SpuriousWorkerWakeup, ringVars, submitVars, history
    <2>2. \A v \in Workers : wpc'[v] = "running" <=> wpc[v] = "running"
      BY <1>9 DEF WorkerWait, WorkerExit, SpuriousWorkerWakeup, TypeOK
    <2>3. QED
      BY <2>1, <2>2 DEF TasksInOnePlace, Occupied, InSubmit
  <1>10. ASSUME NEW w \in Workers, WorkerPop(w)
         PROVE  TasksInOnePlace'
    <2>1. UNCHANGED <<queue, sarg, submitted, finished>>
      BY <1>10 DEF WorkerPop, history
    <2>2. \A s \in Submitters : InSubmit(s)' <=> InSubmit(s)
      BY <1>10, SignalCases DEF WorkerPop, TypeOK, WaitingSubmitters, InSubmit
    <2>3. /\ wpc[w] # "running" /\ wpc'[w] = "running" /\ wtask'[w] = queue[head]
          /\ \A v \in Workers \ {w} : wpc'[v] = wpc[v] /\ wtask'[v] = wtask[v]
      BY <1>10 DEF WorkerPop, TypeOK
    <2>4. /\ head \in Slots /\ Occupied(head)
          /\ \A i \in Slots : Occupied(i)' <=> Occupied(i) /\ i # head
      BY <1>10, PopFrees DEF TypeOK
    <2>5. QED
      BY <2>1, <2>2, <2>3, <2>4 DEF TasksInOnePlace
  <1>11. ASSUME NEW w \in Workers, WorkerFinish(w)
         PROVE  TasksInOnePlace'
    <2>1. UNCHANGED <<queue, head, tail, count, spc, sarg, submitted>>
      BY <1>11 DEF WorkerFinish, ringVars, submitVars
    <2>2. /\ wpc[w] = "running" /\ wpc'[w] # "running"
          /\ finished' = finished \cup {wtask[w]}
          /\ \A v \in Workers \ {w} : wpc'[v] = wpc[v] /\ wtask'[v] = wtask[v]
      BY <1>11 DEF WorkerFinish, TypeOK
    <2>3. QED
      BY <2>1, <2>2 DEF TasksInOnePlace, Occupied, InSubmit
  <1>12. CASE UNCHANGED vars
    BY <1>12 DEF TasksInOnePlace, Occupied, InSubmit, vars, ringVars, workerVars,
                 submitVars, history
  <1>13. QED
    BY <1>1, <1>2, <1>3, <1>4, <1>5, <1>6, <1>7, <1>8, <1>9, <1>10, <1>11, <1>12
       DEF Next, CreateWorkerFails, Destroy, OwnerStep, SubmitterStep, WorkerStep, Rest
-----------------------------------------------------------------------------
(* The Owner's program and shutdown                                        *)

(* The phases of the Owner fit the states of the threads.                  *)
LEMMA OwnerProgressStep ==
    TypeOK /\ OwnerProgress /\ NobodySleepsThroughShutdown /\ [Next]_vars => OwnerProgress'
  <1> SUFFICES ASSUME TypeOK, OwnerProgress, NobodySleepsThroughShutdown, [Next]_vars
               PROVE  OwnerProgress'
    OBVIOUS
  <1> USE PoolAssumption, SizesPositive
  <1>1. CASE CreateFails
    BY <1>1 DEF OwnerProgress, TypeOK, CreateFails, ringVars, workerVars, submitVars, history
  <1>2. ASSUME BeginDestroy, phase = "create" \/ phase = "open", spc[Owner] = "outside"
        PROVE  OwnerProgress'
    <2>1. /\ \A w \in Workers : wpc'[w] = "unborn" <=> wpc[w] = "unborn"
          /\ \A w \in Workers : wpc'[w] = "exited" <=> wpc[w] = "exited"
          /\ \A s \in Submitters : spc'[s] = "outside" <=> spc[s] = "outside"
          /\ \A s \in Submitters : spc'[s] = "undefined" <=> spc[s] = "undefined"
      BY <1>2 DEF BeginDestroy, Broadcast, TypeOK
    <2>2. /\ stopping' = TRUE /\ phase' = "join"
          /\ UNCHANGED <<count, created, joined>>
      BY <1>2 DEF BeginDestroy, ringVars
    <2>3. \A w \in 1 .. joined : w \in Workers
      BY DEF TypeOK, Workers
    <2>4. QED
      BY <1>2, <2>1, <2>2, <2>3 DEF OwnerProgress, TypeOK
  <1>3. CASE CreateWorker
    <2>1. /\ created' = created + 1 /\ created + 1 \in Workers
          /\ wpc'[created + 1] = "lock"
          /\ \A w \in Workers \ {created + 1} : wpc'[w] = wpc[w]
          /\ UNCHANGED <<count, stopping, joined, spc>>
      BY <1>3 DEF CreateWorker, TypeOK, Workers, ringVars, submitVars
    <2>2. phase = "create" /\ created < WorkerCount
          /\ phase' = IF created + 1 = WorkerCount THEN "open" ELSE "create"
      BY <1>3 DEF CreateWorker
    <2>3. \A w \in 1 .. joined : w \in Workers \ {created + 1}
      BY DEF TypeOK, Workers, OwnerProgress
    <2>4. \A w \in Workers : w \in Nat
      BY DEF Workers
    <2>5. \A s \in Submitters : spc[s] = "outside"
      BY <2>2 DEF OwnerProgress
    <2>6. \A w \in Workers : wpc'[w] = "unborn" <=> w > created'
      BY <2>1, <2>4 DEF OwnerProgress, TypeOK
    <2>7. QED
      BY <2>1, <2>2, <2>3, <2>5, <2>6 DEF OwnerProgress, TypeOK
  <1>4. CASE Join
    <2>1. \A w \in 1 .. joined' : w \in 1 .. joined \/ w = joined + 1
      BY <1>4 DEF Join, TypeOK
    <2>2. QED
      BY <1>4, <2>1 DEF Join, OwnerProgress, TypeOK, ringVars, workerVars, submitVars
  <1>5. CASE Free
    BY <1>5 DEF Free, OwnerProgress, TypeOK, ringVars, workerVars, submitVars
  <1>6. ASSUME NEW s \in Submitters, NEW t \in Tasks, CallSubmit(s, t)
        PROVE  OwnerProgress'
    BY <1>6 DEF CallSubmit, OwnerProgress, TypeOK, ringVars, ownerVars, workerVars
  <1>7. ASSUME NEW s \in Submitters,
               SubmitWait(s) \/ SubmitRefused(s) \/ SpuriousSubmitterWakeup(s)
        PROVE  OwnerProgress'
    BY <1>7 DEF SubmitWait, SubmitRefused, SpuriousSubmitterWakeup, OwnerProgress, TypeOK,
                ringVars, ownerVars, workerVars
  <1>8. ASSUME NEW s \in Submitters, SubmitterUsesFreedPool(s)
        PROVE  OwnerProgress'
    BY <1>8 DEF SubmitterUsesFreedPool, OwnerProgress, TypeOK,
                ringVars, ownerVars, workerVars
  <1>9. ASSUME NEW s \in Submitters, SubmitPush(s)
        PROVE  OwnerProgress'
    <2>1. /\ \A w \in Workers : wpc'[w] = "unborn" <=> wpc[w] = "unborn"
          /\ \A w \in Workers : wpc'[w] = "exited" <=> wpc[w] = "exited"
      BY <1>9, SignalCases DEF SubmitPush, TypeOK, WaitingWorkers
    <2>2. \A w \in 1 .. joined : w \in Workers
      BY DEF TypeOK, Workers
    <2>3. /\ UNCHANGED <<stopping, phase, created, joined>> /\ ~stopping
          /\ spc[s] = "lock" /\ spc' = [spc EXCEPT ![s] = "outside"]
      BY <1>9 DEF SubmitPush, ownerVars
    <2>4. QED
      BY <2>1, <2>2, <2>3 DEF OwnerProgress, TypeOK
  <1>10. ASSUME NEW w \in Workers, WorkerWait(w) \/ SpuriousWorkerWakeup(w) \/ WorkerFinish(w)
         PROVE  OwnerProgress'
    <2>1. /\ wpc[w] \notin {"unborn", "exited"} /\ wpc'[w] \notin {"unborn", "exited"}
          /\ \A v \in Workers \ {w} : wpc'[v] = wpc[v]
          /\ UNCHANGED <<count, stopping, phase, created, joined, spc>>
      BY <1>10 DEF WorkerWait, SpuriousWorkerWakeup, WorkerFinish, TypeOK,
                   ringVars, ownerVars, submitVars
    <2>2. \A v \in 1 .. joined : v \in Workers
      BY DEF TypeOK, Workers
    <2>3. QED
      BY <2>1, <2>2 DEF OwnerProgress, TypeOK
  <1>11. ASSUME NEW w \in Workers, WorkerExit(w)
         PROVE  OwnerProgress'
    <2>1. /\ wpc[w] = "lock" /\ wpc'[w] = "exited" /\ stopping /\ count = 0
          /\ \A v \in Workers \ {w} : wpc'[v] = wpc[v]
          /\ UNCHANGED <<count, stopping, phase, created, joined, spc>>
      BY <1>11 DEF WorkerExit, TypeOK, ringVars, ownerVars, submitVars
    <2>2. \A v \in 1 .. joined : v \in Workers
      BY DEF TypeOK, Workers
    <2>3. QED
      BY <2>1, <2>2 DEF OwnerProgress, TypeOK
  <1>12. ASSUME NEW w \in Workers, WorkerPop(w)
         PROVE  OwnerProgress'
    <2>1. /\ \A s \in Submitters : spc'[s] = "outside" <=> spc[s] = "outside"
          /\ \A s \in Submitters : spc'[s] = "undefined" <=> spc[s] = "undefined"
      BY <1>12, SignalCases DEF WorkerPop, TypeOK, WaitingSubmitters
    <2>2. /\ wpc[w] = "lock" /\ wpc'[w] = "running" /\ count # 0
          /\ \A v \in Workers \ {w} : wpc'[v] = wpc[v]
          /\ UNCHANGED <<stopping, phase, created, joined>>
      BY <1>12 DEF WorkerPop, TypeOK, ownerVars
    <2>3. \A v \in 1 .. joined : v \in Workers
      BY DEF TypeOK, Workers
    <2>4. QED
      BY <2>1, <2>2, <2>3 DEF OwnerProgress, TypeOK
  <1>13. CASE UNCHANGED vars
    BY <1>13 DEF OwnerProgress, vars, ringVars, ownerVars, workerVars, submitVars
  <1>14. CreateWorkerFails \/ Destroy => OwnerProgress'
    BY <1>2 DEF CreateWorkerFails, Destroy, OwnerProgress
  <1>15. QED
    BY <1>1, <1>3, <1>4, <1>5, <1>6, <1>7, <1>8, <1>9, <1>10, <1>11, <1>12, <1>13, <1>14
       DEF Next, OwnerStep, SubmitterStep, WorkerStep, Rest

(* The broadcast empties both wait sets and nobody waits again.            *)
LEMMA NobodySleepsStep ==
    TypeOK /\ OwnerProgress /\ NobodySleepsThroughShutdown /\ [Next]_vars
        => NobodySleepsThroughShutdown'
  <1> SUFFICES ASSUME TypeOK, OwnerProgress, NobodySleepsThroughShutdown, [Next]_vars,
                      stopping'
               PROVE  WaitingWorkers' = {} /\ WaitingSubmitters' = {}
    BY DEF NobodySleepsThroughShutdown
  <1>1. ASSUME BeginDestroy PROVE WaitingWorkers' = {} /\ WaitingSubmitters' = {}
    BY <1>1 DEF BeginDestroy, Broadcast, TypeOK, WaitingWorkers, WaitingSubmitters
  <1>2. CASE ~stopping
    <2>1. BeginDestroy
      BY <1>2 DEF Next, CreateFails, CreateWorkerFails, OwnerStep, CreateWorker, Join,
             Free, Destroy, CallSubmit, SubmitterStep, SubmitWait, SubmitRefused, SubmitPush,
             SpuriousSubmitterWakeup, SubmitterUsesFreedPool, WorkerStep, WorkerWait,
             WorkerPop, WorkerExit, WorkerFinish, SpuriousWorkerWakeup, Rest, vars, ownerVars
    <2>2. QED
      BY <1>1, <2>1
  <1>3. CASE stopping
    <2>1. \A w \in Workers : wpc[w] # "waiting"
      BY <1>3 DEF NobodySleepsThroughShutdown, WaitingWorkers
    <2>2. \A s \in Submitters : spc[s] # "waiting"
      BY <1>3 DEF NobodySleepsThroughShutdown, WaitingSubmitters
    <2> SUFFICES /\ \A w \in Workers : wpc'[w] # "waiting"
                 /\ \A s \in Submitters : spc'[s] # "waiting"
      BY DEF WaitingWorkers, WaitingSubmitters
    <2>3. CASE CreateFails \/ Join \/ Free \/ UNCHANGED vars
      BY <2>1, <2>2, <2>3 DEF CreateFails, Join, Free, vars, workerVars, submitVars
    <2>4. CASE CreateWorker
      BY <2>1, <2>2, <2>4 DEF CreateWorker, TypeOK, submitVars
    <2>5. ASSUME NEW s \in Submitters, NEW t \in Tasks, CallSubmit(s, t)
          PROVE  /\ \A w \in Workers : wpc'[w] # "waiting"
                 /\ \A r \in Submitters : spc'[r] # "waiting"
      BY <2>1, <2>2, <2>5 DEF CallSubmit, TypeOK, workerVars
    <2>6. ASSUME NEW s \in Submitters,
                 SubmitterStep(s) \/ SpuriousSubmitterWakeup(s) \/ SubmitterUsesFreedPool(s)
          PROVE  /\ \A w \in Workers : wpc'[w] # "waiting"
                 /\ \A r \in Submitters : spc'[r] # "waiting"
      BY <1>3, <2>1, <2>2, <2>6
         DEF SubmitterStep, SubmitWait, SubmitRefused, SubmitPush, SpuriousSubmitterWakeup,
             SubmitterUsesFreedPool, TypeOK, workerVars
    <2>7. ASSUME NEW w \in Workers, WorkerPop(w)
          PROVE  /\ \A v \in Workers : wpc'[v] # "waiting"
                 /\ \A r \in Submitters : spc'[r] # "waiting"
      BY <2>1, <2>2, <2>7, SignalCases DEF WorkerPop, TypeOK, WaitingSubmitters
    <2>8. ASSUME NEW w \in Workers,
                 WorkerWait(w) \/ WorkerExit(w) \/ WorkerFinish(w) \/ SpuriousWorkerWakeup(w)
          PROVE  /\ \A v \in Workers : wpc'[v] # "waiting"
                 /\ \A r \in Submitters : spc'[r] # "waiting"
      BY <1>3, <2>1, <2>2, <2>8
         DEF WorkerWait, WorkerExit, WorkerFinish, SpuriousWorkerWakeup, TypeOK, submitVars
    <2>9. ~CreateWorkerFails /\ ~Destroy
      BY <1>3 DEF OwnerProgress, CreateWorkerFails, Destroy
    <2>10. QED
      BY <2>3, <2>4, <2>5, <2>6, <2>7, <2>8, <2>9
         DEF Next, OwnerStep, WorkerStep, Rest
  <1>4. QED
    BY <1>2, <1>3 DEF TypeOK
-----------------------------------------------------------------------------
(* Wakeups                                                                 *)

(* The sets of awake threads are finite, so they can be counted.           *)
LEMMA LockSetsFinite ==
    /\ IsFiniteSet(LockingWorkers) /\ Cardinality(LockingWorkers) \in Nat
    /\ IsFiniteSet(LockingSubmitters) /\ Cardinality(LockingSubmitters) \in Nat
  <1>1. IsFiniteSet(Workers)
    BY FS_Interval, SizesPositive DEF Workers
  <1>2. IsFiniteSet(LockingWorkers) /\ IsFiniteSet(LockingSubmitters)
    BY <1>1, FS_Subset, PoolAssumption DEF LockingWorkers, LockingSubmitters
  <1>3. QED
    BY <1>2, FS_CardinalityType

(* The same after a step.                                                  *)
LEMMA LockSetsFinitePrimed ==
    /\ IsFiniteSet(LockingWorkers') /\ Cardinality(LockingWorkers') \in Nat
    /\ IsFiniteSet(LockingSubmitters') /\ Cardinality(LockingSubmitters') \in Nat
  <1>1. IsFiniteSet(Workers)
    BY FS_Interval, SizesPositive DEF Workers
  <1>2. IsFiniteSet(LockingWorkers') /\ IsFiniteSet(LockingSubmitters')
    BY <1>1, FS_Subset, PoolAssumption DEF LockingWorkers, LockingSubmitters
  <1>3. QED
    BY <1>2, FS_CardinalityType

(* While a worker sleeps, awake workers outnumber the queued tasks.        *)
LEMMA WorkerWakeupStep ==
    TypeOK /\ OwnerProgress /\ NobodySleepsThroughShutdown /\ NoLostWorkerWakeup /\ [Next]_vars
        => NoLostWorkerWakeup'
  <1> SUFFICES ASSUME TypeOK, OwnerProgress, NobodySleepsThroughShutdown, NoLostWorkerWakeup,
                      [Next]_vars, WaitingWorkers' # {}
               PROVE  count' <= Cardinality(LockingWorkers')
    BY DEF NoLostWorkerWakeup
  <1> DEFINE Goal == count' <= Cardinality(LockingWorkers')
  <1> USE LockSetsFinite, LockSetsFinitePrimed
  <1>0. count \in Nat
    BY SizesPositive DEF TypeOK
  <1>1. ASSUME LockingWorkers \subseteq LockingWorkers', count' = count,
               WaitingWorkers # {}
        PROVE  Goal
    <2>1. Cardinality(LockingWorkers) <= Cardinality(LockingWorkers')
      BY <1>1, FS_Subset
    <2>2. QED
      BY <1>0, <1>1, <2>1 DEF NoLostWorkerWakeup
  <1>2. CASE UNCHANGED <<count, wpc>>
    BY <1>1, <1>2 DEF LockingWorkers, WaitingWorkers
  <1>3. ASSUME BeginDestroy PROVE FALSE
    BY <1>3 DEF BeginDestroy, Broadcast, TypeOK, WaitingWorkers
  <1>4. CASE CreateWorker
    <2>1. UNCHANGED count /\ wpc' = [wpc EXCEPT ![created + 1] = "lock"]
      BY <1>4 DEF CreateWorker, ringVars
    <2>2. LockingWorkers \subseteq LockingWorkers' /\ WaitingWorkers # {}
      BY <2>1 DEF LockingWorkers, WaitingWorkers, TypeOK
    <2>3. QED
      BY <1>1, <2>1, <2>2
  <1>5. ASSUME NEW s \in Submitters, SubmitPush(s) PROVE Goal
    <2>1. PICK w \in WaitingWorkers : wpc' = [wpc EXCEPT ![w] = "lock"]
      <3>1. \/ WaitingWorkers = {} /\ wpc' = wpc
            \/ \E t \in WaitingWorkers : wpc' = [wpc EXCEPT ![t] = "lock"]
        BY <1>5, SignalCases DEF SubmitPush
      <3>2. WaitingWorkers = {} /\ wpc' = wpc => WaitingWorkers' = {}
        BY DEF WaitingWorkers
      <3>3. QED
        BY <3>1, <3>2
    <2>2. LockingWorkers' = LockingWorkers \cup {w} /\ w \notin LockingWorkers
      BY <2>1 DEF LockingWorkers, WaitingWorkers, TypeOK
    <2>3. Cardinality(LockingWorkers') = Cardinality(LockingWorkers) + 1
      BY <2>2, FS_AddElement
    <2>4. count' = count + 1
      BY <1>5 DEF SubmitPush
    <2>5. count <= Cardinality(LockingWorkers)
      BY <2>1 DEF NoLostWorkerWakeup
    <2>6. QED
      BY <1>0, <2>3, <2>4, <2>5
  <1>6. ASSUME NEW w \in Workers, WorkerWait(w) PROVE Goal
    BY <1>6 DEF WorkerWait, ringVars
  <1>7. ASSUME NEW w \in Workers, WorkerExit(w) PROVE FALSE
    BY <1>7 DEF WorkerExit, NobodySleepsThroughShutdown, WaitingWorkers, TypeOK
  <1>8. ASSUME NEW w \in Workers, WorkerPop(w) PROVE Goal
    <2>1. LockingWorkers' = LockingWorkers \ {w} /\ w \in LockingWorkers
          /\ WaitingWorkers # {}
      BY <1>8 DEF WorkerPop, LockingWorkers, WaitingWorkers, TypeOK
    <2>2. Cardinality(LockingWorkers') = Cardinality(LockingWorkers) - 1
      BY <2>1, FS_RemoveElement
    <2>3. count' = count - 1
      BY <1>8 DEF WorkerPop
    <2>4. count <= Cardinality(LockingWorkers)
      BY <2>1 DEF NoLostWorkerWakeup
    <2>5. QED
      BY <1>0, <2>2, <2>3, <2>4
  <1>9. ASSUME NEW w \in Workers, WorkerFinish(w) \/ SpuriousWorkerWakeup(w) PROVE Goal
    <2>1. UNCHANGED count /\ wpc' = [wpc EXCEPT ![w] = "lock"]
      BY <1>9 DEF WorkerFinish, SpuriousWorkerWakeup, ringVars
    <2>2. LockingWorkers \subseteq LockingWorkers' /\ WaitingWorkers # {}
      BY <2>1 DEF LockingWorkers, WaitingWorkers, TypeOK
    <2>3. QED
      BY <1>1, <2>1, <2>2
  <1>10. CASE \/ CreateFails \/ Join \/ Free \/ Rest
              \/ \E s \in Submitters : \/ SubmitWait(s) \/ SubmitRefused(s)
                                        \/ SpuriousSubmitterWakeup(s)
                                        \/ SubmitterUsesFreedPool(s)
                                        \/ \E t \in Tasks : CallSubmit(s, t)
    BY <1>2, <1>10
       DEF CreateFails, Join, Free, Rest, SubmitWait, SubmitRefused, SpuriousSubmitterWakeup,
           SubmitterUsesFreedPool, CallSubmit, vars, ringVars, workerVars
  <1>11. CASE UNCHANGED vars
    BY <1>2, <1>11 DEF vars, ringVars, workerVars
  <1>12. QED
    BY <1>3, <1>4, <1>5, <1>6, <1>7, <1>8, <1>9, <1>10, <1>11
       DEF Next, OwnerStep, CreateWorkerFails, Destroy, SubmitterStep, WorkerStep

(* While a submitter sleeps, awake submitters outnumber the free slots.    *)
LEMMA SubmitterWakeupStep ==
    TypeOK /\ OwnerProgress /\ NobodySleepsThroughShutdown /\ NoLostSubmitterWakeup /\ [Next]_vars
        => NoLostSubmitterWakeup'
  <1> SUFFICES ASSUME TypeOK, OwnerProgress, NobodySleepsThroughShutdown, NoLostSubmitterWakeup,
                      [Next]_vars, WaitingSubmitters' # {}
               PROVE  Capacity - count' <= Cardinality(LockingSubmitters')
    BY DEF NoLostSubmitterWakeup
  <1> DEFINE Goal == Capacity - count' <= Cardinality(LockingSubmitters')
  <1> USE LockSetsFinite, LockSetsFinitePrimed
  <1>0. count \in Nat /\ Capacity \in Nat
    BY SizesPositive DEF TypeOK
  <1>1. ASSUME LockingSubmitters \subseteq LockingSubmitters', count' = count,
               WaitingSubmitters # {}
        PROVE  Goal
    <2>1. Cardinality(LockingSubmitters) <= Cardinality(LockingSubmitters')
      BY <1>1, FS_Subset
    <2>2. QED
      BY <1>0, <1>1, <2>1 DEF NoLostSubmitterWakeup
  <1>2. CASE UNCHANGED <<count, spc>>
    BY <1>1, <1>2 DEF LockingSubmitters, WaitingSubmitters
  <1>3. ASSUME BeginDestroy PROVE FALSE
    BY <1>3 DEF BeginDestroy, Broadcast, TypeOK, WaitingSubmitters
  <1>4. ASSUME NEW s \in Submitters, NEW t \in Tasks, CallSubmit(s, t) PROVE Goal
    <2>1. UNCHANGED count /\ spc' = [spc EXCEPT ![s] = "lock"]
      BY <1>4 DEF CallSubmit, ringVars
    <2>2. LockingSubmitters \subseteq LockingSubmitters' /\ WaitingSubmitters # {}
      BY <1>4, <2>1 DEF CallSubmit, LockingSubmitters, WaitingSubmitters, TypeOK
    <2>3. QED
      BY <1>1, <2>1, <2>2
  <1>5. ASSUME NEW s \in Submitters, SubmitWait(s) PROVE Goal
    <2>1. count' = Capacity
      BY <1>5 DEF SubmitWait, ringVars
    <2>2. QED
      BY <1>0, <2>1
  <1>6. ASSUME NEW s \in Submitters, SubmitRefused(s) PROVE FALSE
    BY <1>6 DEF SubmitRefused, NobodySleepsThroughShutdown, WaitingSubmitters, TypeOK
  <1>7. ASSUME NEW s \in Submitters, SubmitterUsesFreedPool(s) PROVE FALSE
    <2>1. stopping \/ \A r \in Submitters : spc[r] = "outside"
      BY <1>7, SizesPositive DEF SubmitterUsesFreedPool, OwnerProgress
    <2>2. stopping
      BY <1>7, <2>1 DEF SubmitterUsesFreedPool
    <2>3. \A r \in Submitters : spc[r] # "waiting"
      BY <2>2 DEF NobodySleepsThroughShutdown, WaitingSubmitters
    <2>4. \A r \in Submitters : spc'[r] # "waiting"
      BY <1>7, <2>3 DEF SubmitterUsesFreedPool, TypeOK
    <2>5. QED
      BY <2>4 DEF WaitingSubmitters
  <1>8. ASSUME NEW s \in Submitters, SubmitPush(s) PROVE Goal
    <2>1. LockingSubmitters' = LockingSubmitters \ {s} /\ s \in LockingSubmitters
          /\ WaitingSubmitters # {}
      BY <1>8 DEF SubmitPush, LockingSubmitters, WaitingSubmitters, TypeOK
    <2>2. Cardinality(LockingSubmitters') = Cardinality(LockingSubmitters) - 1
      BY <2>1, FS_RemoveElement
    <2>3. count' = count + 1
      BY <1>8 DEF SubmitPush
    <2>4. Capacity - count <= Cardinality(LockingSubmitters)
      BY <2>1 DEF NoLostSubmitterWakeup
    <2>5. QED
      BY <1>0, <2>2, <2>3, <2>4
  <1>9. ASSUME NEW s \in Submitters, SpuriousSubmitterWakeup(s) PROVE Goal
    <2>1. UNCHANGED count /\ spc' = [spc EXCEPT ![s] = "lock"]
      BY <1>9 DEF SpuriousSubmitterWakeup, ringVars
    <2>2. LockingSubmitters \subseteq LockingSubmitters' /\ WaitingSubmitters # {}
      BY <2>1 DEF LockingSubmitters, WaitingSubmitters, TypeOK
    <2>3. QED
      BY <1>1, <2>1, <2>2
  <1>10. ASSUME NEW w \in Workers, WorkerPop(w) PROVE Goal
    <2>1. PICK s \in WaitingSubmitters : spc' = [spc EXCEPT ![s] = "lock"]
      <3>1. \/ WaitingSubmitters = {} /\ spc' = spc
            \/ \E t \in WaitingSubmitters : spc' = [spc EXCEPT ![t] = "lock"]
        BY <1>10, SignalCases DEF WorkerPop
      <3>2. WaitingSubmitters = {} /\ spc' = spc => WaitingSubmitters' = {}
        BY DEF WaitingSubmitters
      <3>3. QED
        BY <3>1, <3>2
    <2>2. LockingSubmitters' = LockingSubmitters \cup {s} /\ s \notin LockingSubmitters
      BY <2>1 DEF LockingSubmitters, WaitingSubmitters, TypeOK
    <2>3. Cardinality(LockingSubmitters') = Cardinality(LockingSubmitters) + 1
      BY <2>2, FS_AddElement
    <2>4. count' = count - 1
      BY <1>10 DEF WorkerPop
    <2>5. Capacity - count <= Cardinality(LockingSubmitters)
      BY <2>1 DEF NoLostSubmitterWakeup
    <2>6. QED
      BY <1>0, <2>3, <2>4, <2>5
  <1>11. CASE \/ CreateFails \/ CreateWorker \/ Join \/ Free \/ Rest
              \/ \E w \in Workers : \/ WorkerWait(w) \/ WorkerExit(w)
                                     \/ WorkerFinish(w) \/ SpuriousWorkerWakeup(w)
    BY <1>2, <1>11
       DEF CreateFails, CreateWorker, Join, Free, Rest, WorkerWait, WorkerExit, WorkerFinish,
           SpuriousWorkerWakeup, vars, ringVars, submitVars
  <1>12. CASE UNCHANGED vars
    BY <1>2, <1>12 DEF vars, ringVars, submitVars
  <1>13. QED
    BY <1>3, <1>4, <1>5, <1>6, <1>7, <1>8, <1>9, <1>10, <1>11, <1>12
       DEF Next, OwnerStep, CreateWorkerFails, Destroy, SubmitterStep, WorkerStep

-----------------------------------------------------------------------------
(* The theorems                                                            *)

(* The inductive invariant holds before the first thread exists.           *)
LEMMA IndInvInit == Init => IndInv
  <1> SUFFICES ASSUME Init PROVE IndInv
    OBVIOUS
  <1> USE PoolAssumption, SizesPositive
  <1>1. TypeOK
    BY TypeInit
  <1>2. RingConsistent
    BY DEF Init, RingConsistent
  <1>3. \A i \in Slots : ~Occupied(i)
    BY DEF Init, Occupied, Slots
  <1>4. TasksInOnePlace
    BY <1>3 DEF Init, TasksInOnePlace, InSubmit
  <1>5. OwnerProgress
    BY DEF Init, OwnerProgress, Workers
  <1>6. WaitingWorkers = {} /\ WaitingSubmitters = {}
    BY DEF Init, WaitingWorkers, WaitingSubmitters
  <1>7. QED
    BY <1>1, <1>2, <1>4, <1>5, <1>6
       DEF IndInv, NobodySleepsThroughShutdown, NoLostWorkerWakeup, NoLostSubmitterWakeup

(* IndInv is an inductive invariant of the thread pool.                    *)
THEOREM Invariance == Spec => []IndInv
  <1>1. IndInv /\ [Next]_vars => IndInv'
    BY TypeStep, RingConsistentStep, TasksInOnePlaceStep, OwnerProgressStep, NobodySleepsStep,
       WorkerWakeupStep, SubmitterWakeupStep DEF IndInv
  <1>2. QED
    BY <1>1, IndInvInit, PTL DEF Spec

(* Type correctness: the ring indexes and count never leave the array      *)
(* (thread_pool.c 147-155, 194-196, 322-325).                              *)
THEOREM TypeCorrectness == Spec => []TypeOK
  BY Invariance, PTL DEF IndInv

(* One cond_signal per push loses no wakeup of a worker, for any number of *)
(* workers and any capacity (thread_pool.c 183-197, 316-326).              *)
THEOREM WorkersAreWoken == Spec => []NoLostWorkerWakeup
  BY Invariance, PTL DEF IndInv

(* One cond_signal per pop loses no wakeup of a blocked submitter.         *)
THEOREM SubmittersAreWoken == Spec => []NoLostSubmitterWakeup
  BY Invariance, PTL DEF IndInv

(* No task is duplicated, overwritten in the ring or run twice.            *)
THEOREM TasksKeptApart == Spec => []TasksInOnePlace
  BY Invariance, PTL DEF IndInv

(* thread_pool_destroy frees the pool only when it is drained, and this    *)
(* also when thread_pool_create calls it after a failed pthread_create.    *)
THEOREM DestroyDrains == Spec => []FreedMeansDrained
  <1>1. IndInv => FreedMeansDrained
    <2> SUFFICES ASSUME IndInv, phase = "freed"
                 PROVE  count = 0 /\ \A w \in Workers : wpc[w] \in {"unborn", "exited"}
      BY DEF FreedMeansDrained
    <2> USE SizesPositive DEF IndInv
    <2>1. \A w \in Workers : wpc[w] \in {"unborn", "exited"}
      BY DEF OwnerProgress, TypeOK, Workers
    <2>2. CASE created < WorkerCount
      BY <2>1, <2>2 DEF OwnerProgress
    <2>3. CASE created = WorkerCount
      <3>1. 1 \in Workers /\ wpc[1] = "exited"
        BY <2>1, <2>3 DEF Workers, OwnerProgress
      <3>2. QED
        BY <2>1, <3>1 DEF OwnerProgress
    <2>4. QED
      BY <2>2, <2>3 DEF TypeOK
  <1>2. QED
    BY <1>1, Invariance, PTL

(* head, tail and count describe the same ring after any number of pushes  *)
(* and pops, for every capacity.                                           *)
THEOREM RingAgrees == Spec => []RingConsistent
  BY Invariance, PTL DEF IndInv

(* The broadcast of thread_pool_destroy reaches every sleeper, and nobody  *)
(* goes to sleep after it.                                                 *)
THEOREM ShutdownWakesAll == Spec => []NobodySleepsThroughShutdown
  BY Invariance, PTL DEF IndInv

(* Neither a worker nor the thread that destroys the pool is inside the    *)
(* pool's code once it is freed.                                           *)
THEOREM FreedIsUnused == Spec => []NoUseAfterFree
  <1>1. IndInv => NoUseAfterFree
    BY DEF IndInv, NoUseAfterFree, OwnerProgress, TypeOK, Workers
  <1>2. QED
    BY <1>1, Invariance, PTL

(* As api_server_run uses it, with one thread that submits and destroys,   *)
(* no thread at all is inside the pool's code once it is freed.            *)
THEOREM NoUseAfterFreeInServer ==
    ASSUME Submitters = {Owner}
    PROVE  Spec => [](phase = "freed" =>
                         /\ \A w \in Workers : wpc[w] \in {"unborn", "exited"}
                         /\ \A s \in Submitters : spc[s] = "outside")
  <1>1. NoUseAfterFree => (phase = "freed" =>
                              /\ \A w \in Workers : wpc[w] \in {"unborn", "exited"}
                              /\ \A s \in Submitters : spc[s] = "outside")
    BY DEF NoUseAfterFree
  <1>2. QED
    BY <1>1, FreedIsUnused, PTL

-----------------------------------------------------------------------------
(* The queue's content as a sequence                                       *)

(* An index that has run past the end of the array wraps once.             *)
LEMMA RingIndex ==
    ASSUME NEW C \in Nat \ {0}, NEW k \in 0 .. 2 * C - 1
    PROVE  k % C = IF k < C THEN k ELSE k - C
  <1>1. CASE k < C
    BY <1>1
  <1>2. CASE k >= C
    <2>1. k = C * 1 + (k - C) /\ k - C \in 0 .. C - 1
      BY <1>2
    <2>2. QED
      BY <1>2, <2>1
  <1>3. QED
    BY <1>1, <1>2

(* The slot of the i-th oldest task, without modulo.                       *)
SlotOf(i) == IF head + i - 1 < Capacity THEN head + i - 1 ELSE head + i - 1 - Capacity

(* What Window is: a sequence of count submitted tasks, in occupied slots. *)
WindowFacts ==
    /\ Window \in Seq(Tasks)
    /\ Len(Window) = count
    /\ count \in 0 .. Capacity
    /\ \A i \in 1 .. count :
          /\ SlotOf(i) \in Slots
          /\ Occupied(SlotOf(i))
          /\ Window[i] = queue[SlotOf(i)]

(* The ring read from head for count places, with modulo as in the code,   *)
(* visits the occupied slots.                                              *)
LEMMA WindowIsSeq == TypeOK /\ TasksInOnePlace => WindowFacts
  <1> SUFFICES ASSUME TypeOK, TasksInOnePlace PROVE WindowFacts
    OBVIOUS
  <1>1. count \in 0 .. Capacity
    BY IndexTypes
  <1>2. ASSUME NEW i \in 1 .. count
        PROVE  /\ SlotOf(i) \in Slots /\ Occupied(SlotOf(i))
               /\ (head + i - 1) % Capacity = SlotOf(i)
    <2> DEFINE k == head + i - 1
    <2>1. k \in 0 .. 2 * Capacity - 1
      BY IndexTypes
    <2> HIDE DEF k
    <2>2. k % Capacity = IF k < Capacity THEN k ELSE k - Capacity
      BY <2>1, RingIndex, SizesPositive
    <2> USE DEF k
    <2>3. (head + i - 1) % Capacity = SlotOf(i)
      BY <2>1, <2>2, IndexTypes DEF SlotOf
    <2>4. QED
      BY <2>1, <2>3, IndexTypes DEF Slots, Occupied, SlotOf
  <1>3. \A i \in 1 .. count : queue[SlotOf(i)] \in Tasks
    BY <1>2 DEF TasksInOnePlace, TypeOK
  <1>4. Window = [i \in 1 .. count |-> queue[SlotOf(i)]]
    BY <1>2 DEF Window
  <1>5. QED
    BY <1>1, <1>2, <1>3, <1>4 DEF WindowFacts

(* A push appends to the window.                                           *)
LEMMA PushAppends ==
    ASSUME TypeOK, RingConsistent, WindowFacts, WindowFacts',
           NEW s \in Submitters, SubmitPush(s), sarg[s] \in Tasks
    PROVE  Window' = Append(Window, sarg[s])
  <1>1. head' = head /\ count' = count + 1 /\ count < Capacity /\ count \in Nat
    BY PushIndexes, IndexTypes
  <1>2. /\ queue'[tail] = sarg[s] /\ tail \in Slots
        /\ \A k \in Slots \ {tail} : queue'[k] = queue[k]
    BY DEF SubmitPush, TypeOK
  <1>3. \A i \in 1 .. count + 1 : SlotOf(i)' = SlotOf(i)
    BY <1>1 DEF SlotOf
  <1>4. ASSUME NEW i \in 1 .. count PROVE Window'[i] = Window[i]
    <2>1. SlotOf(i) \in Slots /\ SlotOf(i) # tail
      BY PushOccupies DEF WindowFacts
    <2>2. i \in 1 .. count' /\ i \in 1 .. count + 1
      BY <1>1
    <2>3. QED
      BY <1>2, <1>3, <2>1, <2>2 DEF WindowFacts
  <1>5. Window'[count + 1] = sarg[s]
    <2>1. SlotOf(count + 1) = tail
      BY <1>1, IndexTypes DEF SlotOf, RingConsistent
    <2>2. count + 1 \in 1 .. count' /\ count + 1 \in 1 .. count + 1
      BY <1>1
    <2>3. QED
      BY <1>2, <1>3, <2>1, <2>2 DEF WindowFacts
  <1> DEFINE A == Append(Window, sarg[s])
  <1>6. /\ A \in Seq(Tasks) /\ Len(A) = count + 1 /\ A[count + 1] = sarg[s]
        /\ \A i \in 1 .. count : A[i] = Window[i]
    BY AppendProperties DEF WindowFacts
  <1> HIDE DEF A
  <1>7. \A i \in 1 .. count + 1 : Window'[i] = A[i]
    BY <1>1, <1>4, <1>5, <1>6
  <1>8. Window' = A
    BY <1>1, <1>6, <1>7, SeqEqual DEF WindowFacts
  <1>9. QED
    BY <1>8 DEF A

(* A pop takes the first task of the window.                               *)
LEMMA PopTakesHead ==
    ASSUME TypeOK, WindowFacts, WindowFacts', NEW w \in Workers, WorkerPop(w)
    PROVE  /\ Window # <<>> /\ Head(Window) = queue[head]
           /\ Window' = Tail(Window)
  <1>1. /\ count' = count - 1 /\ count \in Nat \ {0} /\ queue' = queue
        /\ head' = IF head = Capacity - 1 THEN 0 ELSE head + 1
        /\ head \in 0 .. Capacity - 1 /\ Capacity \in Nat \ {0}
    BY PopIndexes, IndexTypes DEF WorkerPop
  <1>2. Window \in Seq(Tasks) /\ Len(Window) = count
    BY DEF WindowFacts
  <1>3. Window # <<>> /\ Head(Window) = Window[1]
    BY <1>1, <1>2
  <1>4. Window[1] = queue[head]
    <2>1. SlotOf(1) = head /\ 1 \in 1 .. count
      BY <1>1 DEF SlotOf
    <2>2. QED
      BY <2>1 DEF WindowFacts
  <1>5. /\ Tail(Window) \in Seq(Tasks) /\ Len(Tail(Window)) = count - 1
        /\ \A i \in 1 .. count - 1 : Tail(Window)[i] = Window[i + 1]
    BY <1>2, <1>3, HeadTailProperties
  <1>6. ASSUME NEW i \in 1 .. count - 1 PROVE Window'[i] = Window[i + 1]
    <2>1. i + 1 \in 1 .. count /\ i \in 1 .. count'
      BY <1>1
    <2>2. SlotOf(i)' = SlotOf(i + 1)
      <3>1. i < Capacity /\ i \in Nat \ {0} /\ head + (i + 1) - 1 = head + i
        BY <1>1, IndexTypes
      <3>2. CASE head = Capacity - 1
        BY <1>1, <3>1, <3>2 DEF SlotOf
      <3>3. CASE head # Capacity - 1
        <4>1. head' = head + 1 /\ head' + i - 1 = head + i
          BY <1>1, <3>1, <3>3
        <4>2. QED
          BY <1>1, <3>1, <4>1 DEF SlotOf
      <3>4. QED
        BY <3>2, <3>3
    <2>3. QED
      BY <1>1, <2>1, <2>2 DEF WindowFacts
  <1>7. Window' \in Seq(Tasks) /\ Len(Window') = count - 1
    BY <1>1 DEF WindowFacts
  <1>8. Window' = Tail(Window)
    BY <1>5, <1>6, <1>7, SeqEqual
  <1>9. QED
    BY <1>3, <1>4, <1>8

-----------------------------------------------------------------------------
(* The running tasks                                                       *)

(* While a worker is not running, fewer tasks run than there are workers.  *)
LEMMA RunningBelowWorkers ==
    ASSUME NEW w \in Workers, wpc[w] # "running"
    PROVE  Cardinality(Running) < WorkerCount
  <1>1. IsFiniteSet(Workers) /\ Cardinality(Workers) = WorkerCount
    BY FS_Interval, SizesPositive DEF Workers
  <1>2. IsFiniteSet(Workers \ {w}) /\ Cardinality(Workers \ {w}) = WorkerCount - 1
    BY <1>1, FS_RemoveElement
  <1>3. RunningWorkers \subseteq Workers \ {w}
    BY DEF RunningWorkers
  <1>4. /\ IsFiniteSet(RunningWorkers)
        /\ Cardinality(RunningWorkers) <= WorkerCount - 1
    BY <1>2, <1>3, FS_Subset
  <1> DEFINE f == [v \in RunningWorkers |-> wtask[v]]
  <1>5. f \in Surjection(RunningWorkers, Running)
    BY DEF Surjection, Running
  <1>6. IsFiniteSet(Running) /\ Cardinality(Running) <= Cardinality(RunningWorkers)
    BY <1>4, <1>5, FS_Surjection
  <1>7. Cardinality(Running) \in Nat /\ Cardinality(RunningWorkers) \in Nat
    BY <1>4, <1>6, FS_CardinalityType
  <1>8. QED
    BY <1>4, <1>6, <1>7, SizesPositive

(* TaskPool counts with the same Cardinality.                              *)
LEMMA SameCardinality == \A S : Abstract!Cardinality(S) = Cardinality(S)
  BY DEF Abstract!Cardinality, Cardinality

(* A step after which the same workers run the same tasks.                 *)
LEMMA RunningKept ==
    ASSUME UNCHANGED wtask,
           \A w \in Workers : wpc'[w] = "running" <=> wpc[w] = "running"
    PROVE  Running' = Running
  <1>1. RunningWorkers' = RunningWorkers
    BY DEF RunningWorkers
  <1>2. QED
    BY <1>1 DEF Running

-----------------------------------------------------------------------------
(* The refinement                                                          *)

(* A pool before its first thread is an empty task pool.                   *)
LEMMA RefinesInit == Init => Abstract!Init
  <1> SUFFICES ASSUME Init PROVE Abstract!Init
    OBVIOUS
  <1>1. WindowFacts /\ count = 0
    BY IndInvInit, WindowIsSeq DEF IndInv, Init
  <1>2. Window = <<>>
    BY <1>1, EmptySeq DEF WindowFacts
  <1>3. Running = {}
    BY DEF Init, Running, RunningWorkers
  <1>4. QED
    BY <1>2, <1>3 DEF Init, Abstract!Init

(* Every step of the pool is a step of the task pool or changes nothing    *)
(* that its callers can see.                                               *)
LEMMA RefinesNext ==
    IndInv /\ IndInv' /\ WindowFacts /\ WindowFacts' /\ [Next]_vars
        => [Abstract!Next]_(Abstract!vars)
  <1> SUFFICES ASSUME IndInv, IndInv', WindowFacts, WindowFacts', [Next]_vars
               PROVE  [Abstract!Next]_(Abstract!vars)
    OBVIOUS
  <1> USE DEF IndInv
  <1>0. ASSUME UNCHANGED <<ringVars, wtask, finished, stopping>>,
               \A w \in Workers : wpc'[w] = "running" <=> wpc[w] = "running",
               (stopping /\ phase = "freed")' <=> (stopping /\ phase = "freed")
        PROVE  UNCHANGED Abstract!vars
    <2>1. Running' = Running
      BY <1>0, RunningKept
    <2>2. Window' = Window
      BY <1>0 DEF Window, ringVars
    <2>3. QED
      BY <1>0, <2>1, <2>2 DEF Abstract!vars
  <1>1. CASE CreateFails
    <2>1. ~stopping
      BY <1>1 DEF CreateFails, OwnerProgress
    <2>2. QED
      BY <1>0, <1>1, <2>1 DEF CreateFails, workerVars, history
  <1>2. ASSUME BeginDestroy, phase \in {"create", "open"} PROVE Abstract!Close
    <2>1. ~stopping /\ stopping' /\ phase' = "join"
      BY <1>2 DEF BeginDestroy, OwnerProgress
    <2>2. \A w \in Workers : wpc'[w] = "running" <=> wpc[w] = "running"
      BY <1>2 DEF BeginDestroy, Broadcast, TypeOK
    <2>3. Running' = Running
      BY <1>2, <2>2, RunningKept DEF BeginDestroy
    <2>4. Window' = Window /\ UNCHANGED finished
      BY <1>2 DEF BeginDestroy, Window, ringVars, history
    <2>5. QED
      BY <2>1, <2>3, <2>4 DEF Abstract!Close
  <1>3. CASE CreateWorker
    <2>1. \A w \in Workers : wpc'[w] = "running" <=> wpc[w] = "running"
      BY <1>3 DEF CreateWorker, TypeOK, OwnerProgress, Workers
    <2>2. ~stopping
      BY <1>3 DEF CreateWorker, OwnerProgress
    <2>3. QED
      BY <1>0, <1>3, <2>1, <2>2 DEF CreateWorker, history
  <1>4. CASE Join
    BY <1>0, <1>4 DEF Join, workerVars, history
  <1>5. CASE Free
    <2>1. stopping /\ phase = "join" /\ phase' = "freed" /\ UNCHANGED stopping
      BY <1>5 DEF Free, OwnerProgress
    <2>2. /\ \A w \in Workers : wpc[w] \in {"unborn", "exited"}
          /\ count = 0
      <3>1. \A w \in Workers : wpc[w] \in {"unborn", "exited"}
        BY <1>5, SizesPositive DEF Free, OwnerProgress, TypeOK, Workers
      <3>2. CASE created < WorkerCount
        BY <3>1, <3>2 DEF OwnerProgress
      <3>3. CASE created = WorkerCount
        <4>1. 1 \in Workers /\ wpc[1] = "exited"
          BY <1>5, <3>3, SizesPositive DEF Free, Workers, OwnerProgress
        <4>2. QED
          BY <3>1, <4>1 DEF OwnerProgress
      <3>4. QED
        BY <3>1, <3>2, <3>3, SizesPositive DEF TypeOK
    <2>3. Running = {} /\ Running' = {}
      BY <1>5, <2>2 DEF Free, Running, RunningWorkers, workerVars
    <2>4. Window = <<>> /\ Window' = Window
      BY <1>5, <2>2, EmptySeq DEF Free, WindowFacts, Window, ringVars
    <2>5. Abstract!Release
      BY <1>5, <2>1, <2>3, <2>4 DEF Free, Abstract!Release, history
    <2>6. QED
      BY <2>5 DEF Abstract!Next
  <1>6. ASSUME NEW s \in Submitters,
               \/ SubmitWait(s) \/ SubmitRefused(s) \/ SpuriousSubmitterWakeup(s)
               \/ SubmitterUsesFreedPool(s) \/ \E t \in Tasks : CallSubmit(s, t)
        PROVE  UNCHANGED Abstract!vars
    BY <1>0, <1>6 DEF SubmitWait, SubmitRefused, SpuriousSubmitterWakeup, SubmitterUsesFreedPool,
                      CallSubmit, ownerVars, workerVars, history
  <1>7. ASSUME NEW s \in Submitters, SubmitPush(s)
        PROVE  \E t \in Tasks : Abstract!Accept(t)
    <2>1. InSubmit(s) /\ sarg[s] \in submitted \ finished /\ sarg[s] \in Tasks
      BY <1>7 DEF SubmitPush, InSubmit, TasksInOnePlace, TypeOK
    <2>2. Window' = Append(Window, sarg[s])
      BY <1>7, <2>1, PushAppends
    <2>3. ~stopping /\ Len(Window) < Capacity
      BY <1>7, SizesPositive DEF SubmitPush, WindowFacts
    <2>4. sarg[s] \notin {Window[i] : i \in DOMAIN Window}
      <3>1. DOMAIN Window = 1 .. count
        BY DEF Window
      <3>2. \A i \in 1 .. count : Window[i] # sarg[s]
        BY <2>1 DEF TasksInOnePlace, WindowFacts
      <3>3. QED
        BY <3>1, <3>2
    <2>5. sarg[s] \notin Running
      BY <2>1 DEF Running, RunningWorkers, TasksInOnePlace
    <2>6. Running' = Running
      <3>1. \A w \in Workers : wpc'[w] = "running" <=> wpc[w] = "running"
        BY <1>7, SignalCases DEF SubmitPush, TypeOK, WaitingWorkers
      <3>2. QED
        BY <1>7, <3>1, RunningKept DEF SubmitPush
    <2>7. Abstract!Accept(sarg[s])
      BY <1>7, <2>1, <2>2, <2>3, <2>4, <2>5, <2>6
         DEF SubmitPush, Abstract!Accept, Abstract!Queued, ownerVars, history
    <2>8. QED
      BY <2>1, <2>7
  <1>8. ASSUME NEW w \in Workers, WorkerWait(w) \/ WorkerExit(w) \/ SpuriousWorkerWakeup(w)
        PROVE  UNCHANGED Abstract!vars
    <2>1. \A v \in Workers : wpc'[v] = "running" <=> wpc[v] = "running"
      BY <1>8 DEF WorkerWait, WorkerExit, SpuriousWorkerWakeup, TypeOK
    <2>2. QED
      BY <1>0, <1>8, <2>1 DEF WorkerWait, WorkerExit, SpuriousWorkerWakeup, ownerVars, history
  <1>9. ASSUME NEW w \in Workers, WorkerPop(w) PROVE Abstract!Start
    <2>1. Window # <<>> /\ Head(Window) = queue[head] /\ Window' = Tail(Window)
      BY <1>9, PopTakesHead
    <2>2. /\ wpc[w] = "lock" /\ wtask'[w] = queue[head] /\ wpc'[w] = "running"
          /\ \A v \in Workers \ {w} : wtask'[v] = wtask[v] /\ wpc'[v] = wpc[v]
          /\ UNCHANGED <<stopping, phase, finished>>
      BY <1>9 DEF WorkerPop, TypeOK, ownerVars, history
    <2>3. Cardinality(Running) < WorkerCount
      BY <2>2, RunningBelowWorkers
    <2>4. Running' = Running \cup {Head(Window)}
      <3>1. Running' = Running \cup {queue[head]}
        BY <2>2 DEF Running, RunningWorkers
      <3>2. QED
        BY <2>1, <3>1
    <2>5. ~(stopping /\ phase = "freed")
      BY <2>2 DEF OwnerProgress, Workers, TypeOK
    <2>6. (stopping /\ phase = "freed")' = (stopping /\ phase = "freed")
      BY <2>2
    <2>7. QED
      BY <2>1, <2>2, <2>3, <2>4, <2>5, <2>6, SameCardinality DEF Abstract!Start
  <1>10. ASSUME NEW w \in Workers, WorkerFinish(w)
         PROVE  \E t \in Tasks : Abstract!Finish(t)
    <2>1. /\ wpc[w] = "running" /\ wpc'[w] = "lock"
          /\ \A v \in Workers \ {w} : wtask'[v] = wtask[v] /\ wpc'[v] = wpc[v]
          /\ UNCHANGED <<stopping, phase, ringVars>> /\ finished' = finished \cup {wtask[w]}
      BY <1>10 DEF WorkerFinish, TypeOK, ownerVars
    <2>2. wtask[w] \in Tasks /\ wtask[w] \in Running
      BY <2>1 DEF TasksInOnePlace, TypeOK, Running, RunningWorkers
    <2>3. \A v \in Workers \ {w} : wpc[v] = "running" => wtask[v] # wtask[w]
      BY <2>1 DEF TasksInOnePlace
    <2>4. Running' = Running \ {wtask[w]}
      BY <2>1, <2>3 DEF Running, RunningWorkers
    <2>5. ~(stopping /\ phase = "freed")
      BY <2>1 DEF OwnerProgress, Workers, TypeOK
    <2>6. Window' = Window
      BY <2>1 DEF Window, ringVars
    <2>7. Abstract!Finish(wtask[w])
      BY <2>1, <2>2, <2>4, <2>5, <2>6 DEF Abstract!Finish
    <2>8. QED
      BY <2>2, <2>7
  <1>11. CASE UNCHANGED vars
    BY <1>0, <1>11 DEF vars, ringVars, ownerVars, workerVars, history
  <1>12. QED
    BY <1>1, <1>2, <1>3, <1>4, <1>5, <1>6, <1>7, <1>8, <1>9, <1>10, <1>11
       DEF Next, OwnerStep, CreateWorkerFails, Destroy, SubmitterStep, WorkerStep, Rest,
           Abstract!Next

(* The pool implements TaskPool, for every number of workers, capacity and *)
(* set of submitters: tasks start in the order in which they were accepted, *)
(* each once; nothing is accepted after shutdown began and nothing that    *)
(* was accepted is dropped (thread_pool.c 174-206, 298-367).               *)
THEOREM PoolImplementsTaskPool == Spec => ImplementsTaskPool
  <1>1. IndInv => WindowFacts
    BY WindowIsSeq DEF IndInv
  <1>2. QED
    BY <1>1, RefinesInit, RefinesNext, Invariance, PTL DEF Spec, ImplementsTaskPool, Abstract!Spec
=============================================================================
