----------------------------- MODULE ThreadPool -----------------------------
(***************************************************************************)
(* src/concurrency/thread_pool.c: worker threads, one bounded circular     *)
(* queue, one mutex and two condition variables.                           *)
(*                                                                         *)
(* Every access to head, tail, count, the slots and stopping happens with  *)
(* the pool's mutex held, so a critical section - from mutex_lock, or from *)
(* the return of cond_wait, to mutex_unlock or the next cond_wait - is one *)
(* action.  A thread at "lock" is about to (re)acquire the mutex; a thread *)
(* at "waiting" is inside cond_wait.  The wait sets of not_empty and       *)
(* not_full are therefore the workers and the submitters at "waiting".     *)
(*                                                                         *)
(* The program has one submitter, the thread that runs the accept loop; it *)
(* also creates and destroys the pool and is Owner below.  More submitters *)
(* exercise the paths the pool provides for them (several blocked          *)
(* submitters, a submit that fails because shutdown has begun).            *)
(***************************************************************************)
EXTENDS Integers, FiniteSets, Sequences

CONSTANTS RequestedWorkers,   \* worker_count argument of thread_pool_create
          RequestedCapacity,  \* queue_capacity argument of thread_pool_create
          Submitters,         \* threads that call thread_pool_submit
          Owner,              \* the one that also creates and destroys the pool
          Tasks,              \* (function, arg) pairs; each is submitted once
          NoTask              \* content of a slot that calloc zeroed

ASSUME PoolAssumption ==
    /\ RequestedWorkers \in Nat
    /\ RequestedCapacity \in Nat
    /\ IsFiniteSet(Submitters)
    /\ Owner \in Submitters
    /\ NoTask \notin Tasks

(* Zero arguments are replaced by defaults.                                *)
WorkerCount == IF RequestedWorkers = 0 THEN 1 ELSE RequestedWorkers
Capacity == IF RequestedCapacity = 0 THEN WorkerCount * 4 ELSE RequestedCapacity

Workers == 1 .. WorkerCount
Slots == 0 .. Capacity - 1

VARIABLES queue,      \* the circular array of tasks
          head,       \* index of the next pop
          tail,       \* index of the next push
          count,      \* queued tasks
          stopping,   \* set once by thread_pool_destroy
          phase,      \* the Owner: creating, using, joining, after free
          created,    \* threads created so far: worker_count at destroy
          joined,     \* threads joined so far by thread_pool_destroy
          wpc, wtask, \* per worker: where it is, the task it popped
          spc, sarg,  \* per submitter: where it is, the task it hands in
          submitted,  \* history: tasks some submit was called with
          finished    \* history: tasks whose function has returned

ringVars == <<queue, head, tail, count>>
ownerVars == <<stopping, phase, created, joined>>
workerVars == <<wpc, wtask>>
submitVars == <<spc, sarg>>
history == <<submitted, finished>>
vars == <<ringVars, ownerVars, workerVars, submitVars, history>>

Init ==
    /\ queue = [i \in Slots |-> NoTask]
    /\ head = 0
    /\ tail = 0
    /\ count = 0
    /\ stopping = FALSE
    /\ phase = "create"
    /\ created = 0
    /\ joined = 0
    /\ wpc = [w \in Workers |-> "unborn"]
    /\ wtask = [w \in Workers |-> NoTask]
    /\ spc = [s \in Submitters |-> "outside"]
    /\ sarg = [s \in Submitters |-> NoTask]
    /\ submitted = {}
    /\ finished = {}

WaitingWorkers == {w \in Workers : wpc[w] = "waiting"}
WaitingSubmitters == {s \in Submitters : spc[s] = "waiting"}

(* cond_signal on the pcs of the threads that use the condition variable:  *)
(* one waiter, if there is one, returns from cond_wait and contends for    *)
(* the mutex.                                                              *)
Signal(pc, waiters) ==
    IF waiters = {} THEN {pc}
    ELSE {[pc EXCEPT ![t] = "lock"] : t \in waiters}

(* cond_broadcast: all of them do.                                         *)
Broadcast(pc) == [t \in DOMAIN pc |-> IF pc[t] = "waiting" THEN "lock" ELSE pc[t]]

-----------------------------------------------------------------------------
(* thread_pool_create                                                      *)

(* An allocation or mutex_init fails: cleanup_pool and NULL, no thread yet. *)
CreateFails ==
    /\ phase = "create"
    /\ created = 0
    /\ phase' = "freed"
    /\ UNCHANGED <<ringVars, stopping, created, joined, workerVars, submitVars, history>>

(* pthread_create succeeds for the next index.                             *)
CreateWorker ==
    /\ phase = "create"
    /\ created < WorkerCount
    /\ created' = created + 1
    /\ wpc' = [wpc EXCEPT ![created + 1] = "lock"]
    /\ phase' = IF created' = WorkerCount THEN "open" ELSE "create"
    /\ UNCHANGED <<ringVars, stopping, joined, wtask, submitVars, history>>

(* Mutant: destroy signals instead of broadcasting.                        *)
BeginDestroyWakesOne ==
    /\ stopping' = TRUE
    /\ phase' = "join"
    /\ wpc' \in Signal(wpc, WaitingWorkers)
    /\ spc' \in Signal(spc, WaitingSubmitters)
    /\ UNCHANGED <<ringVars, created, joined, wtask, sarg, history>>

(* The critical section at the start of thread_pool_destroy.               *)
BeginDestroy ==
    /\ stopping' = TRUE
    /\ phase' = "join"
    /\ wpc' = Broadcast(wpc)
    /\ spc' = Broadcast(spc)
    /\ UNCHANGED <<ringVars, created, joined, wtask, sarg, history>>

(* pthread_create fails at an index: worker_count = index (created keeps   *)
(* it), then the pool is destroyed and NULL is returned.                   *)
CreateWorkerFails ==
    /\ phase = "create"
    /\ created < WorkerCount
    /\ BeginDestroy

-----------------------------------------------------------------------------
(* thread_pool_submit                                                      *)

(* A caller that was given the pool (create succeeded) enters with a task  *)
(* of its own.                                                             *)
CallSubmit(s, t) ==
    /\ phase \in {"open", "join"}
    /\ created = WorkerCount
    /\ s = Owner => phase = "open"
    /\ spc[s] = "outside"
    /\ t \notin submitted
    /\ submitted' = submitted \cup {t}
    /\ spc' = [spc EXCEPT ![s] = "lock"]
    /\ sarg' = [sarg EXCEPT ![s] = t]
    /\ UNCHANGED <<ringVars, ownerVars, workerVars, finished>>

(* The queue is full: wait on not_full.                                    *)
SubmitWait(s) ==
    /\ phase # "freed"
    /\ spc[s] = "lock"
    /\ ~stopping
    /\ count = Capacity
    /\ spc' = [spc EXCEPT ![s] = "waiting"]
    /\ UNCHANGED <<ringVars, ownerVars, workerVars, sarg, history>>

(* Shutdown has begun: return 0.                                           *)
SubmitRefused(s) ==
    /\ phase # "freed"
    /\ spc[s] = "lock"
    /\ stopping
    /\ spc' = [spc EXCEPT ![s] = "outside"]
    /\ sarg' = [sarg EXCEPT ![s] = NoTask]
    /\ UNCHANGED <<ringVars, ownerVars, workerVars, history>>

(* The assignments of a push, for the mutants below.                       *)
PushAt(s, newTail) ==
    /\ queue' = [queue EXCEPT ![tail] = sarg[s]]
    /\ tail' = newTail
    /\ count' = count + 1
    /\ spc' = [spc EXCEPT ![s] = "outside"]
    /\ sarg' = [sarg EXCEPT ![s] = NoTask]
    /\ UNCHANGED <<head, ownerVars, wtask, history>>

(* Mutants: the push without its signal, and without wrap-around.          *)
SubmitPushNoSignal(s) ==
    /\ phase # "freed" /\ spc[s] = "lock" /\ ~stopping /\ count # Capacity
    /\ PushAt(s, (tail + 1) % Capacity)
    /\ UNCHANGED wpc

SubmitPushNoWrap(s) ==
    /\ phase # "freed" /\ spc[s] = "lock" /\ ~stopping /\ count # Capacity
    /\ PushAt(s, tail + 1)
    /\ wpc' \in Signal(wpc, WaitingWorkers)

(* Push at tail, signal not_empty, return 1.                               *)
SubmitPush(s) ==
    /\ phase # "freed"
    /\ spc[s] = "lock"
    /\ ~stopping
    /\ count # Capacity
    /\ queue' = [queue EXCEPT ![tail] = sarg[s]]
    /\ tail' = (tail + 1) % Capacity
    /\ count' = count + 1
    /\ wpc' \in Signal(wpc, WaitingWorkers)
    /\ spc' = [spc EXCEPT ![s] = "outside"]
    /\ sarg' = [sarg EXCEPT ![s] = NoTask]
    /\ UNCHANGED <<head, ownerVars, wtask, history>>

(* cond_wait may return without a signal.                                  *)
SpuriousSubmitterWakeup(s) ==
    /\ phase # "freed"
    /\ spc[s] = "waiting"
    /\ spc' = [spc EXCEPT ![s] = "lock"]
    /\ UNCHANGED <<ringVars, ownerVars, workerVars, sarg, history>>

(* thread_pool_destroy waits for workers only.  A submitter other than the *)
(* Owner that is still inside submit when the pool is freed goes on with a *)
(* dangling pointer: nothing more is known about it.                       *)
SubmitterUsesFreedPool(s) ==
    /\ phase = "freed"
    /\ spc[s] = "lock"
    /\ spc' = [spc EXCEPT ![s] = "undefined"]
    /\ UNCHANGED <<ringVars, ownerVars, workerVars, sarg, history>>

-----------------------------------------------------------------------------
(* worker_main                                                             *)

(* Nothing to do: wait on not_empty.                                       *)
WorkerWait(w) ==
    /\ wpc[w] = "lock"
    /\ ~stopping
    /\ count = 0
    /\ wpc' = [wpc EXCEPT ![w] = "waiting"]
    /\ UNCHANGED <<ringVars, ownerVars, wtask, submitVars, history>>

(* Mutant: leave the loop although tasks are queued.                       *)
WorkerExitEarly(w) ==
    /\ wpc[w] = "lock"
    /\ stopping
    /\ wpc' = [wpc EXCEPT ![w] = "exited"]
    /\ UNCHANGED <<ringVars, ownerVars, wtask, submitVars, history>>

(* Shutdown and an empty queue: leave the loop.                            *)
WorkerExit(w) ==
    /\ wpc[w] = "lock"
    /\ stopping
    /\ count = 0
    /\ wpc' = [wpc EXCEPT ![w] = "exited"]
    /\ UNCHANGED <<ringVars, ownerVars, wtask, submitVars, history>>

(* Mutants: the pop without its signal, and without moving head.           *)
WorkerPopNoSignal(w) ==
    /\ wpc[w] = "lock"
    /\ count # 0
    /\ wtask' = [wtask EXCEPT ![w] = queue[head]]
    /\ head' = (head + 1) % Capacity
    /\ count' = count - 1
    /\ wpc' = [wpc EXCEPT ![w] = "running"]
    /\ UNCHANGED <<queue, tail, ownerVars, submitVars, history>>

WorkerPopKeepsHead(w) ==
    /\ wpc[w] = "lock"
    /\ count # 0
    /\ wtask' = [wtask EXCEPT ![w] = queue[head]]
    /\ count' = count - 1
    /\ spc' \in Signal(spc, WaitingSubmitters)
    /\ wpc' = [wpc EXCEPT ![w] = "running"]
    /\ UNCHANGED <<queue, head, tail, ownerVars, sarg, history>>

(* Pop at head, signal not_full, unlock; the task runs outside the lock.   *)
WorkerPop(w) ==
    /\ wpc[w] = "lock"
    /\ count # 0
    /\ wtask' = [wtask EXCEPT ![w] = queue[head]]
    /\ head' = (head + 1) % Capacity
    /\ count' = count - 1
    /\ spc' \in Signal(spc, WaitingSubmitters)
    /\ wpc' = [wpc EXCEPT ![w] = "running"]
    /\ UNCHANGED <<queue, tail, ownerVars, sarg, history>>

(* task.function(task.arg) returns and the loop starts again.              *)
WorkerFinish(w) ==
    /\ wpc[w] = "running"
    /\ wpc' = [wpc EXCEPT ![w] = "lock"]
    /\ wtask' = [wtask EXCEPT ![w] = NoTask]
    /\ finished' = finished \cup {wtask[w]}
    /\ UNCHANGED <<ringVars, ownerVars, submitVars, submitted>>

SpuriousWorkerWakeup(w) ==
    /\ wpc[w] = "waiting"
    /\ wpc' = [wpc EXCEPT ![w] = "lock"]
    /\ UNCHANGED <<ringVars, ownerVars, wtask, submitVars, history>>

-----------------------------------------------------------------------------
(* thread_pool_destroy                                                     *)

(* The Owner calls it once, when it is not inside a submit of its own.     *)
Destroy ==
    /\ phase = "open"
    /\ spc[Owner] = "outside"
    /\ BeginDestroy

(* Mutant: a free that does not join.                                      *)
FreeWithoutJoin ==
    /\ phase = "join"
    /\ phase' = "freed"
    /\ UNCHANGED <<ringVars, stopping, created, joined, workerVars, submitVars, history>>

(* pthread_join on the next thread, in creation order.                     *)
Join ==
    /\ phase = "join"
    /\ joined < created
    /\ wpc[joined + 1] = "exited"
    /\ joined' = joined + 1
    /\ UNCHANGED <<ringVars, stopping, phase, created, workerVars, submitVars, history>>

(* Condition variables, mutex and memory go away.                          *)
Free ==
    /\ phase = "join"
    /\ joined = created
    /\ phase' = "freed"
    /\ UNCHANGED <<ringVars, stopping, created, joined, workerVars, submitVars, history>>

-----------------------------------------------------------------------------
(* After free nothing is left to do.                                       *)
Rest ==
    /\ phase = "freed"
    /\ \A s \in Submitters : spc[s] \in {"outside", "undefined"}
    /\ UNCHANGED vars

SubmitterStep(s) == SubmitWait(s) \/ SubmitRefused(s) \/ SubmitPush(s)
WorkerStep(w) == WorkerWait(w) \/ WorkerExit(w) \/ WorkerPop(w)
OwnerStep == CreateWorker \/ Join \/ Free

Next ==
    \/ CreateFails
    \/ CreateWorkerFails
    \/ OwnerStep
    \/ Destroy
    \/ \E s \in Submitters :
          \/ \E t \in Tasks : CallSubmit(s, t)
          \/ SubmitterStep(s)
          \/ SpuriousSubmitterWakeup(s)
          \/ SubmitterUsesFreedPool(s)
    \/ \E w \in Workers :
          \/ WorkerStep(w)
          \/ WorkerFinish(w)
          \/ SpuriousWorkerWakeup(w)
    \/ Rest

Spec == Init /\ [][Next]_vars

(* Every thread that can run its next step eventually does, and every task *)
(* function returns.  The scheduler and the mutex give the first; the      *)
(* second is the duty of the caller of submit.                             *)
Fairness ==
    /\ WF_vars(OwnerStep)
    /\ \A s \in Submitters : WF_vars(SubmitterStep(s))
    /\ \A w \in Workers : WF_vars(WorkerStep(w)) /\ WF_vars(WorkerFinish(w))

FairSpec == Spec /\ Fairness

-----------------------------------------------------------------------------
(* Properties                                                              *)

WorkerPcs == {"unborn", "lock", "waiting", "running", "exited"}
SubmitPcs == {"outside", "lock", "waiting", "undefined"}

(* Every variable has its type; the ring indexes stay inside the array and *)
(* count never exceeds the capacity (thread_pool.c 147-155).               *)
TypeOK ==
    /\ queue \in [Slots -> Tasks \cup {NoTask}]
    /\ head \in Slots
    /\ tail \in Slots
    /\ count \in 0 .. Capacity
    /\ stopping \in BOOLEAN
    /\ phase \in {"create", "open", "join", "freed"}
    /\ created \in 0 .. WorkerCount
    /\ joined \in 0 .. WorkerCount
    /\ wpc \in [Workers -> WorkerPcs]
    /\ wtask \in [Workers -> Tasks \cup {NoTask}]
    /\ spc \in [Submitters -> SubmitPcs]
    /\ sarg \in [Submitters -> Tasks \cup {NoTask}]
    /\ submitted \subseteq Tasks
    /\ finished \subseteq Tasks

(* The queue's content, oldest first: count slots starting at head.        *)
Window == [i \in 1 .. count |-> queue[(head + i - 1) % Capacity]]
RunningWorkers == {w \in Workers : wpc[w] = "running"}
Running == {wtask[w] : w \in RunningWorkers}

(* The pool implements the abstract task pool: FIFO start order, each task *)
(* run once, nothing accepted after shutdown began, nothing dropped, and   *)
(* release only when drained.  A create that fails before any thread       *)
(* exists counts as closed and released.                                   *)
Abstract == INSTANCE TaskPool WITH
    pending <- Window,
    active <- Running,
    finished <- finished,
    closed <- stopping,
    released <- stopping /\ phase = "freed",
    MaxActive <- WorkerCount

ImplementsTaskPool == Abstract!Spec

(* No lost wakeup of a worker: while some worker sleeps on not_empty, every *)
(* queued task has a worker that is already awake and on its way to the    *)
(* mutex (one cond_signal per push, thread_pool.c 326, is enough).         *)
LockingWorkers == {w \in Workers : wpc[w] = "lock"}
LockingSubmitters == {s \in Submitters : spc[s] = "lock"}

NoLostWorkerWakeup ==
    WaitingWorkers # {} => count <= Cardinality(LockingWorkers)

(* No lost wakeup of a submitter: while one sleeps on not_full, every free *)
(* slot has a submitter that is already awake (one cond_signal per pop,    *)
(* thread_pool.c 197).                                                     *)
NoLostSubmitterWakeup ==
    WaitingSubmitters # {} => Capacity - count <= Cardinality(LockingSubmitters)

(* Nobody sleeps through shutdown: from the broadcast in destroy on, no    *)
(* thread is (or goes back) inside cond_wait (thread_pool.c 346-347).      *)
NobodySleepsThroughShutdown ==
    stopping => WaitingWorkers = {} /\ WaitingSubmitters = {}

(* Memory is released only when every thread that was ever created has     *)
(* left worker_main, also when thread_pool_create fails half way, and then *)
(* no accepted task is left behind (thread_pool.c 280-285, 350-366).       *)
FreedMeansDrained ==
    phase = "freed" =>
        /\ \A w \in Workers : wpc[w] \in {"unborn", "exited"}
        /\ count = 0

(* Once the pool is freed no worker and not the thread that freed it is    *)
(* inside the pool's code.  In the server that thread, the accept loop, is *)
(* the only submitter, so nobody is (api_server.c 1377-1413).              *)
NoUseAfterFree ==
    phase = "freed" =>
        /\ \A w \in Workers : wpc[w] \in {"unborn", "exited"}
        /\ \A s \in Submitters : spc[s] # "outside" => s # Owner

-----------------------------------------------------------------------------
(* The inductive invariant behind these properties                         *)

(* The slots that hold queued tasks, written without modulo: from head for *)
(* count places, wrapping once at the end of the array.                    *)
Occupied(i) ==
    IF head + count <= Capacity
    THEN head <= i /\ i < head + count
    ELSE head <= i \/ i < head + count - Capacity

(* head, tail and count agree, across wrap-around and in the empty and the *)
(* full ring, where head = tail.                                           *)
RingConsistent ==
    tail = IF head + count < Capacity THEN head + count ELSE head + count - Capacity

(* Every task is in one place only: handed in by one submitter, in one     *)
(* occupied slot, held by one running worker, or finished.  A worker never *)
(* runs a slot nobody filled and no task runs twice.                       *)
InSubmit(s) == spc[s] \in {"lock", "waiting"}

TasksInOnePlace ==
    /\ finished \subseteq submitted
    /\ \A i \in Slots : Occupied(i) =>
          /\ queue[i] \in submitted \ finished
          /\ \A j \in Slots : Occupied(j) /\ queue[i] = queue[j] => i = j
          /\ \A w \in Workers : wpc[w] = "running" => wtask[w] # queue[i]
    /\ \A w \in Workers : wpc[w] = "running" =>
          /\ wtask[w] \in submitted \ finished
          /\ \A v \in Workers : wpc[v] = "running" /\ wtask[v] = wtask[w] => v = w
    /\ \A s \in Submitters : InSubmit(s) =>
          /\ sarg[s] \in submitted \ finished
          /\ \A i \in Slots : Occupied(i) => sarg[s] # queue[i]
          /\ \A w \in Workers : wpc[w] = "running" => sarg[s] # wtask[w]
          /\ \A r \in Submitters : InSubmit(r) /\ sarg[r] = sarg[s] => r = s

(* How far the Owner's program has come, and what that says about threads. *)
OwnerProgress ==
    /\ phase = "create" => ~stopping /\ created < WorkerCount
    /\ phase = "open" => ~stopping /\ created = WorkerCount
    /\ phase = "join" => stopping
    /\ phase = "freed" => \/ created = 0 /\ ~stopping
                          \/ stopping /\ joined = created
    /\ joined <= created
    /\ \A w \in Workers : wpc[w] = "unborn" <=> w > created
    /\ \A w \in 1 .. joined : wpc[w] = "exited"
    /\ \A w \in Workers : wpc[w] = "exited" => stopping /\ count = 0
    /\ created < WorkerCount =>
          count = 0 /\ \A s \in Submitters : spc[s] = "outside"
    /\ phase # "open" => spc[Owner] = "outside"
    /\ \A s \in Submitters : spc[s] = "undefined" => s # Owner /\ phase = "freed"

IndInv ==
    /\ TypeOK
    /\ RingConsistent
    /\ TasksInOnePlace
    /\ OwnerProgress
    /\ NobodySleepsThroughShutdown
    /\ NoLostWorkerWakeup
    /\ NoLostSubmitterWakeup

-----------------------------------------------------------------------------
(* Liveness                                                                *)

(* Every accepted task is eventually run to its end, whether shutdown      *)
(* begins or not (tests/api_tests.c 104-127).                              *)
EveryAcceptedTaskRuns ==
    \A t \in Tasks : (\E i \in 1 .. count : Window[i] = t) ~> (t \in finished)

(* thread_pool_destroy, and the destroy of a half-created pool, returns.   *)
DestroyReturns == (phase = "join") ~> (phase = "freed")

(* A submit that is blocked by backpressure returns, unless the pool is    *)
(* freed under it, which the Owner's own calls never meet.                 *)
SubmitReturns ==
    /\ (spc[Owner] = "lock") ~> (spc[Owner] = "outside")
    /\ \A s \in Submitters : (spc[s] = "lock") ~> (spc[s] = "outside" \/ phase = "freed")
=============================================================================
