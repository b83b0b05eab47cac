------------------------------ MODULE WorkQueue ------------------------------
(***************************************************************************)
(* WorkQueue: a pool of threads that run tasks handed to it by other       *)
(* threads.  A task posted as TaskMayBlock first waits in                  *)
(* pending_blocking_tasks_ for one of a limited number of slots; every     *)
(* other task goes straight into the io_context.                           *)
(*                                                                         *)
(* Processes: the threads that call AddTask (one for each task, so the     *)
(* task stands for its caller), the pool's own threads, the thread that    *)
(* starts and stops the queue, the health task and the administrator.  All *)
(* of them but the last pass through DispatchBlockingTasks_, which takes   *)
(* tasks off the wait list under blockingMutex_ and posts them after it    *)
(* has released it; a process keeps those it has yet to post in toStart.   *)
(*                                                                         *)
(* Two of the server's queues are modelled: the asynchronous queue, which  *)
(* gets blocking tasks, is watched by the health task and is never started *)
(* a second time; and the delivery queue, which gets none and is stopped   *)
(* and started again whenever the delivery queue is cleared.               *)
(***************************************************************************)
EXTENDS Integers, Sequences, FiniteSets, Functions

CONSTANTS
  Kinds,        \* the queues of this instance: a subset of {"async", "delivery"}
  Tasks,        \* the tasks that may be posted
  Blocking,     \* those of them that the asynchronous queue gets as TaskMayBlock
  Threads,      \* identities for the threads Start creates
  Control,      \* the thread that calls Start and Stop
  Health,       \* the thread of WorkQueueHealthTask
  Admin,        \* the thread that changes the configured pool size
  NoTask,
  Configured,   \* the pool size given to the constructor
  Requests,     \* the pool sizes the administrator may ask for
  MaxThreads,   \* the upper clamp of SetMaxSimultaneous
  Reserved,     \* AsyncQueueReservedThreads
  MaxStarts     \* bound: how often the queue is started

ASSUME PoolAssumption ==
  /\ Kinds \subseteq {"async", "delivery"}
  /\ Blocking \subseteq Tasks
  /\ Requests \subseteq Int /\ Configured \in Int /\ Reserved \in Int
  /\ MaxThreads \in Nat \ {0}

\* A process is a caller, a thread of the pool or one of the three others.
ASSUME ProcsDistinct ==
  /\ Tasks \cap Threads = {} /\ (Tasks \cup Threads) \cap {Control, Health, Admin} = {}
  /\ Control # Health /\ Control # Admin /\ Health # Admin
  /\ NoTask \notin Tasks

VARIABLES
  kind,       \* which queue this is
  max,        \* max_simultaneous_
  count,      \* worker_thread_count_
  live,       \* live_worker_count_
  pool,       \* workerThreads_
  stopping,   \* stopping_
  stopped,    \* io_context_.stopped()
  posted,     \* the handlers waiting in io_context_
  pending,    \* pending_blocking_tasks_
  slots,      \* running_blocking_tasks_
  depth,      \* queue_depth_
  running,    \* runningTasks_
  aged,       \* those of running that exceed AsyncQueueStallThreshold
  stalled,    \* stall_reported_
  pc,         \* where each process is
  toStart,    \* to_start of each process inside DispatchBlockingTasks_
  task,       \* the task each thread has in hand
  seen,       \* the health task's thread_count
  spawned,    \* Start's loop counter
  starts      \* how often Start has been called

pool_vars == <<max, count, live, pool, stopping, stopped>>
task_vars == <<posted, pending, slots, depth>>
run_vars == <<running, aged, task>>
health_vars == <<stalled, seen>>
start_vars == <<spawned, starts>>
vars == <<kind, pool_vars, task_vars, run_vars, health_vars, start_vars, pc, toStart>>

Procs == Tasks \cup Threads \cup {Control, Health, Admin}

\* Whether a task was posted as TaskMayBlock.
MayBlock(t) == kind = "async" /\ t \in Blocking

-----------------------------------------------------------------------------
(* Sizes *)

\* Mutant: only the upper end is clamped.
ClampAbove(n) == IF n > MaxThreads THEN MaxThreads ELSE n

SetMaxSimultaneous(n) == IF n < 1 THEN 1 ELSE IF n > MaxThreads THEN MaxThreads ELSE n

\* Mutant: nothing is kept back for the tasks that do not block.
WholePool == IF count = 0 THEN max ELSE count

\* The pool size Start ended with, less the reserved threads, and at least 1.
GetBlockingLimit ==
  LET n == IF count = 0 THEN max ELSE count
  IN  CASE Reserved <= 0 -> n
        [] Reserved >= n -> 1
        [] OTHER -> n - Reserved

-----------------------------------------------------------------------------
(* Init: the constructor has run; CreateWorkQueue calls Start next. *)

Init ==
  /\ kind \in Kinds
  /\ max = SetMaxSimultaneous(Configured)
  /\ count = 0 /\ live = 0 /\ pool = {}
  /\ stopping = FALSE /\ stopped = FALSE
  /\ posted = <<>> /\ pending = <<>> /\ slots = 0 /\ depth = 0
  /\ running = {} /\ aged = {} /\ stalled = FALSE /\ seen = 0
  /\ pc = [p \in Procs |-> CASE p \in Tasks -> "new"
                             [] p \in Threads -> "absent"
                             [] p = Control -> "created"
                             [] OTHER -> "idle"]
  /\ toStart = [p \in Procs |-> <<>>]
  /\ task = [w \in Threads |-> NoTask]
  /\ spawned = 0 /\ starts = 0

Goto(p, label) == pc' = [pc EXCEPT ![p] = label]

\* The manager hands the queue out only once its first Start has returned.
Published == starts > 1 \/ (starts = 1 /\ pc[Control] \notin {"spawn", "dispatch", "post"})

-----------------------------------------------------------------------------
(* DispatchBlockingTasks_, by any process *)

\* Where a process goes on when DispatchBlockingTasks_ or PostTask_ returns.
AfterDispatch(p) ==
  CASE p \in Tasks -> "added"
    [] p \in Threads -> "run"
    [] p = Control -> "up"
    [] p = Health -> "counts"
    [] OTHER -> "idle"

\* Mutant: the task is posted and also stays on the wait list.
DispatchKeeps(p) ==
  /\ pc[p] = "dispatch"
  /\ LET free == IF GetBlockingLimit > slots THEN GetBlockingLimit - slots ELSE 0
         k == IF free < Len(pending) THEN free ELSE Len(pending)
     IN  /\ toStart' = [toStart EXCEPT ![p] = SubSeq(pending, 1, k)]
         /\ slots' = slots + k
         /\ Goto(p, IF k = 0 THEN AfterDispatch(p) ELSE "post")
  /\ UNCHANGED <<kind, pool_vars, posted, pending, depth, run_vars, health_vars, start_vars>>

\* Under blockingMutex_: as many tasks as there are free slots, oldest first.
DispatchBlockingTasks(p) ==
  /\ pc[p] = "dispatch"
  /\ LET free == IF GetBlockingLimit > slots THEN GetBlockingLimit - slots ELSE 0
         k == IF free < Len(pending) THEN free ELSE Len(pending)
     IN  /\ toStart' = [toStart EXCEPT ![p] = SubSeq(pending, 1, k)]
         /\ pending' = SubSeq(pending, k + 1, Len(pending))
         /\ slots' = slots + k
         /\ Goto(p, IF k = 0 THEN AfterDispatch(p) ELSE "post")
  /\ UNCHANGED <<kind, pool_vars, posted, depth, run_vars, health_vars, start_vars>>

\* The mutex is released: the tasks go into the io_context one by one.
PostTask(p) ==
  /\ pc[p] = "post"
  /\ posted' = Append(posted, Head(toStart[p]))
  /\ toStart' = [toStart EXCEPT ![p] = Tail(@)]
  /\ Goto(p, IF Len(toStart[p]) = 1 THEN AfterDispatch(p) ELSE "post")
  /\ UNCHANGED <<kind, pool_vars, pending, slots, depth, run_vars, health_vars, start_vars>>

-----------------------------------------------------------------------------
(* AddTask, by the caller that has task t *)

AddTask(t) ==
  /\ pc[t] = "new" /\ Published
  /\ IF stopping
     THEN Goto(t, "refused") /\ UNCHANGED <<depth, toStart>>
     ELSE /\ depth' = depth + 1
          /\ IF MayBlock(t) THEN Goto(t, "push") /\ UNCHANGED toStart
                            ELSE Goto(t, "post") /\ toStart' = [toStart EXCEPT ![t] = <<t>>]
  /\ UNCHANGED <<kind, pool_vars, posted, pending, slots, run_vars, health_vars, start_vars>>

\* A blocking task always goes through the wait list, even when a slot is free.
PushPending(t) ==
  /\ pc[t] = "push"
  /\ pending' = Append(pending, t)
  /\ Goto(t, "dispatch")
  /\ UNCHANGED <<kind, pool_vars, posted, slots, depth, run_vars, health_vars, start_vars, toStart>>

-----------------------------------------------------------------------------
(* A thread of the pool: RunWorker_ and ExecuteTask *)

\* io_context_.run() hands the thread its next handler.
TakeHandler(w) ==
  /\ pc[w] = "run" /\ ~stopped /\ posted # <<>>
  /\ task' = [task EXCEPT ![w] = Head(posted)]
  /\ posted' = Tail(posted)
  /\ depth' = depth - 1
  /\ Goto(w, "register")
  /\ UNCHANGED <<kind, pool_vars, pending, slots, running, aged, health_vars, start_vars, toStart>>

RegisterTask(w) ==
  /\ pc[w] = "register"
  /\ running' = running \cup {task[w]}
  /\ Goto(w, "work")
  /\ UNCHANGED <<kind, pool_vars, task_vars, aged, task, health_vars, start_vars, toStart>>

\* Mutant: a task that ends in an exception does not give its slot back.
FinishKeepsSlot(w) ==
  /\ pc[w] = "work"
  /\ running' = running \ {task[w]} /\ aged' = aged \ {task[w]}
  /\ task' = [task EXCEPT ![w] = NoTask]
  /\ Goto(w, "run")
  /\ UNCHANGED <<kind, pool_vars, task_vars, health_vars, start_vars, toStart>>

\* The task returns, throws or is interrupted: RemoveRunningTask_ in every case.
FinishTask(w) ==
  /\ pc[w] = "work"
  /\ running' = running \ {task[w]} /\ aged' = aged \ {task[w]}
  /\ IF MayBlock(task[w]) THEN Goto(w, "release") /\ UNCHANGED task
                          ELSE Goto(w, "run") /\ task' = [task EXCEPT ![w] = NoTask]
  /\ UNCHANGED <<kind, pool_vars, task_vars, health_vars, start_vars, toStart>>

\* Mutant: the wait list is not looked at again when a slot comes free.
ReleaseOnly(w) ==
  /\ pc[w] = "release"
  /\ slots' = IF slots > 0 THEN slots - 1 ELSE 0
  /\ task' = [task EXCEPT ![w] = NoTask]
  /\ Goto(w, "run")
  /\ UNCHANGED <<kind, pool_vars, posted, pending, depth, running, aged, health_vars, start_vars, toStart>>

\* FinishTask_ of a blocking task: its slot is given back, then the wait list pumped.
ReleaseSlot(w) ==
  /\ pc[w] = "release"
  /\ slots' = IF slots > 0 THEN slots - 1 ELSE 0
  /\ task' = [task EXCEPT ![w] = NoTask]
  /\ Goto(w, "dispatch")
  /\ UNCHANGED <<kind, pool_vars, posted, pending, depth, running, aged, health_vars, start_vars, toStart>>

\* run() returns because the io_context is stopped, and the thread ends.
LeaveQueue(w) ==
  /\ pc[w] = "run" /\ stopped
  /\ live' = live - 1
  /\ Goto(w, "left")
  /\ UNCHANGED <<kind, max, count, pool, stopping, stopped, task_vars, run_vars, health_vars, start_vars, toStart>>

\* A task has now run for longer than the stall threshold.
Age(t) ==
  /\ t \in running \ aged
  /\ aged' = aged \cup {t}
  /\ UNCHANGED <<kind, pool_vars, task_vars, running, task, health_vars, start_vars, pc, toStart>>

-----------------------------------------------------------------------------
(* Start and Stop *)

\* The first Start is CreateWorkQueue's, the others are DeliveryQueueClearer's.
Start ==
  /\ \/ pc[Control] = "created"
     \/ pc[Control] = "down" /\ kind = "delivery" /\ starts < MaxStarts
  /\ stopping' = FALSE /\ stopped' = FALSE
  /\ starts' = starts + 1
  /\ Goto(Control, "spawn")
  /\ UNCHANGED <<kind, max, count, live, pool, task_vars, run_vars, health_vars, spawned, toStart>>

SpawnThread ==
  /\ pc[Control] = "spawn" /\ spawned < max
  /\ Threads \ pool # {}
  /\ LET w == CHOOSE v \in Threads \ pool : TRUE
     IN  pool' = pool \cup {w} /\ Goto(w, "run")
  /\ live' = live + 1 /\ spawned' = spawned + 1
  /\ UNCHANGED <<kind, max, count, stopping, stopped, task_vars, run_vars, health_vars, starts, toStart>>

\* The loop is through, or a thread could not be created; survivors of an
\* earlier Stop are still in workerThreads_ and are counted.
CountThreads ==
  /\ pc[Control] = "spawn"
  /\ count' = Cardinality(pool)
  /\ Goto(Control, "dispatch")
  /\ spawned' = 0
  /\ UNCHANGED <<kind, max, live, pool, stopping, stopped, task_vars, run_vars, health_vars, starts, toStart>>

Stop ==
  /\ pc[Control] = "up"
  /\ stopping' = TRUE /\ stopped' = TRUE /\ count' = 0
  /\ Goto(Control, "discard")
  /\ UNCHANGED <<kind, max, live, pool, task_vars, run_vars, health_vars, start_vars, toStart>>

\* Tasks that wait for a slot can no longer run; they leave the depth as well.
DiscardPending ==
  /\ pc[Control] = "discard"
  /\ depth' = depth - Len(pending)
  /\ pending' = <<>>
  /\ Goto(Control, "join")
  /\ UNCHANGED <<kind, pool_vars, posted, slots, run_vars, health_vars, start_vars, toStart>>

\* JoinWorkers_: a thread that has ended is erased.
JoinWorker(w) ==
  /\ pc[Control] = "join" /\ w \in pool /\ pc[w] = "left"
  /\ pool' = pool \ {w}
  /\ Goto(w, "absent")
  /\ UNCHANGED <<kind, max, count, live, stopping, stopped, task_vars, run_vars, health_vars, start_vars, toStart>>

\* All threads are joined, or those that are left did not end in ten seconds.
StopReturns ==
  /\ pc[Control] = "join"
  /\ \A w \in pool : pc[w] # "left"
  /\ Goto(Control, "down")
  /\ UNCHANGED <<kind, pool_vars, task_vars, run_vars, health_vars, start_vars, toStart>>

-----------------------------------------------------------------------------
(* The administrator and the health task *)

\* OnPropertyChanged: the new size, then the wait list is pumped.
ChangeMax ==
  /\ pc[Admin] = "idle" /\ Published
  /\ \E n \in Requests : max' = SetMaxSimultaneous(n)
  /\ Goto(Admin, "dispatch")
  /\ UNCHANGED <<kind, count, live, pool, stopping, stopped, task_vars, run_vars, health_vars, start_vars, toStart>>

\* ReportStalledTasks begins by pumping the wait list.
ReportStalledTasks ==
  /\ pc[Health] = "idle" /\ Published /\ kind = "async"
  /\ Goto(Health, "dispatch")
  /\ UNCHANGED <<kind, pool_vars, task_vars, run_vars, health_vars, start_vars, toStart>>

\* The two counts are loaded; an empty queue is not stalled, whatever its threads do.
ReadCounts ==
  /\ pc[Health] = "counts"
  /\ seen' = IF depth = 0 THEN 0 ELSE live
  /\ stalled' = (stalled /\ (live = 0 \/ depth > 0))
  /\ Goto(Health, IF live = 0 \/ depth = 0 THEN "idle" ELSE "check")
  /\ UNCHANGED <<kind, pool_vars, task_vars, run_vars, start_vars, toStart>>

\* Mutant: one more busy thread is asked for than there are.
CheckTooMany ==
  /\ pc[Health] = "check"
  /\ stalled' = (Cardinality(running) > seen /\ running \subseteq aged)
  /\ Goto(Health, "idle")
  /\ seen' = 0
  /\ UNCHANGED <<kind, pool_vars, task_vars, run_vars, start_vars, toStart>>

\* Mutant: it is enough that the tasks there are have aged.
CheckAnyAged ==
  /\ pc[Health] = "check"
  /\ stalled' = (running # {} /\ running \subseteq aged)
  /\ Goto(Health, "idle")
  /\ seen' = 0
  /\ UNCHANGED <<kind, pool_vars, task_vars, run_vars, start_vars, toStart>>

CheckRunning ==
  /\ pc[Health] = "check"
  /\ stalled' = (Cardinality(running) >= seen /\ running \subseteq aged)
  /\ Goto(Health, "idle")
  /\ seen' = 0
  /\ UNCHANGED <<kind, pool_vars, task_vars, run_vars, start_vars, toStart>>

-----------------------------------------------------------------------------

Caller(t) == AddTask(t) \/ PushPending(t) \/ DispatchBlockingTasks(t) \/ PostTask(t)

\* What a thread does by itself: everything but ending a task that blocks.
Proceed(w) ==
  \/ TakeHandler(w) \/ RegisterTask(w) \/ ReleaseSlot(w) \/ LeaveQueue(w)
  \/ DispatchBlockingTasks(w) \/ PostTask(w)
  \/ ~MayBlock(task[w]) /\ FinishTask(w)

Worker(w) == Proceed(w) \/ FinishTask(w)

Starting == SpawnThread \/ CountThreads \/ DispatchBlockingTasks(Control) \/ PostTask(Control)

Stopping == DiscardPending \/ (\E w \in Threads : JoinWorker(w)) \/ StopReturns

Administrator == ChangeMax \/ DispatchBlockingTasks(Admin) \/ PostTask(Admin)

HealthTask ==
  \/ ReportStalledTasks \/ DispatchBlockingTasks(Health) \/ PostTask(Health)
  \/ ReadCounts \/ CheckRunning

Next ==
  \/ \E t \in Tasks : Caller(t) \/ Age(t)
  \/ \E w \in Threads : Worker(w)
  \/ Start \/ Starting \/ Stop \/ Stopping
  \/ Administrator \/ HealthTask

Spec == Init /\ [][Next]_vars

\* The threads of the pool run, tasks that do not block end, and the health
\* task comes back.  Nothing is assumed of the others, and a blocking task may
\* hang for ever.
FairSpec ==
  /\ Spec
  /\ \A w \in Threads : WF_vars(Proceed(w))
  /\ WF_vars(HealthTask)

-----------------------------------------------------------------------------
(* Properties *)

\* The types of the members of WorkQueue and of each process's locals.
QueueTypeOK ==
  /\ kind \in Kinds
  /\ max \in 1 .. MaxThreads /\ count \in Nat /\ live \in Nat /\ pool \subseteq Threads
  /\ stopping \in BOOLEAN /\ stopped \in BOOLEAN /\ stalled \in BOOLEAN
  /\ posted \in Seq(Tasks) /\ pending \in Seq(Tasks)
  /\ slots \in Nat /\ depth \in Nat /\ seen \in Nat /\ spawned \in Nat /\ starts \in Nat
  /\ aged \subseteq running /\ running \subseteq Tasks
  /\ pc \in [Procs -> {"new", "push", "dispatch", "post", "added", "refused",
                       "absent", "run", "register", "work", "release", "left",
                       "created", "spawn", "up", "discard", "join", "down",
                       "idle", "counts", "check"}]
  /\ toStart \in [Procs -> Seq(Tasks)]
  /\ task \in [Threads -> Tasks \cup {NoTask}]

\* The tasks some process has taken off the wait list, or was given, and has yet to post.
Claimed == UNION {Range(toStart[p]) : p \in Procs}

\* The tasks that have been accepted and that no thread has picked up.
Waiting == Range(pending) \cup Range(posted) \cup Claimed \cup {t \in Tasks : pc[t] = "push"}

InHand == {task[w] : w \in Threads} \ {NoTask}

\* A task is in at most one place, and once, so no task is ever run twice: it
\* moves from the wait list to to_start, the io_context and a thread while
\* callers, threads and the health task all pump the same list.
EachTaskOnce ==
  /\ \A s \in {pending, posted} \cup {toStart[p] : p \in Procs} : IsInjective(s)
  /\ \A p, q \in Procs : p # q => Range(toStart[p]) \cap Range(toStart[q]) = {}
  /\ Range(pending) \cap (Range(posted) \cup Claimed) = {}
  /\ Range(posted) \cap Claimed = {}
  /\ InHand \cap Waiting = {}
  /\ \A v, w \in Threads : v # w /\ task[v] # NoTask => task[v] # task[w]

\* running_blocking_tasks_ counts the blocking tasks that have left the wait
\* list and not yet ended, and queue_depth_ the tasks accepted and not yet
\* picked up: neither drifts on any exit path, so the pool never shrinks.
CountersExact ==
  /\ slots = Cardinality({t \in Claimed \cup Range(posted) \cup InHand : MayBlock(t)})
  /\ depth = Cardinality(Waiting)

\* Once no process is about to pump the wait list, a task is on it only because
\* every slot is taken: DispatchBlockingTasks_ is called wherever a slot or a
\* task is added.
NothingParked ==
  (pc[Control] = "up" /\ \A p \in Procs : pc[p] # "dispatch") =>
    (pending = <<>> \/ slots >= GetBlockingLimit)

\* With threads reserved, and more than one in the pool, the tasks that may
\* block never hold all of them, whatever size the administrator asks for.
OneThreadFree ==
  (Reserved > 0 /\ count > 1) =>
    \E w \in pool : task[w] = NoTask \/ ~MayBlock(task[w])

\* A task that does not block is picked up although every blocking task may
\* hang for ever, unless the queue is stopped or has a single thread.
NormalTaskStarts ==
  \A t \in Tasks \ Blocking :
    (t \in Range(posted) /\ count > 1 /\ Reserved > 0)
      ~> (t \notin Range(posted) \/ stopping)

\* Every thread is in a task older than the threshold and tasks wait behind them.
Stuck ==
  /\ kind = "async" /\ pc[Control] = "up" /\ pool # {} /\ depth > 0
  /\ \A w \in pool : pc[w] = "work" /\ task[w] \in aged

\* A queue that stays stuck is reported by the health task.
StallIsReported == Stuck ~> (stalled \/ ~Stuck)

\* The health task reports a stall only when every thread that is still there
\* is in an old task, although it reads the counts before it reads the running
\* tasks.
StallIsReal ==
  [][(~stalled /\ stalled') =>
       \A w \in pool : pc[w] # "left" => (pc[w] = "work" /\ task[w] \in aged)]_vars
==============================================================================
