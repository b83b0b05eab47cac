--------------------------- MODULE WorkQueueProofs ---------------------------
(***************************************************************************)
(* The safety properties of WorkQueue hold for any sets of tasks and       *)
(* threads, any configured size and any reserve, however often the queue   *)
(* is started and stopped.                                                 *)
(*                                                                         *)
(* PoolInv is inductive.  Its parts about the lists (ListInv: where a task *)
(* is, and the two counters) depend on a step only through the list it     *)
(* takes a task from and the list it puts it on, so that one lemma per     *)
(* list (DispatchLists, PostLists, ...) covers every process that pumps    *)
(* the wait list.  The parts about the threads and the limit (Pumped)      *)
(* depend on a step only through pc, slots and the sizes of the pool.      *)
(***************************************************************************)
EXTENDS WorkQueue, FiniteSetTheorems, TLAPS

-----------------------------------------------------------------------------
(* The inductive invariant *)

\* What a process may be doing.
Labels(p) ==
  CASE p \in Tasks -> {"new", "push", "dispatch", "post", "added", "refused"}
    [] p \in Threads -> {"absent", "run", "register", "work", "release", "dispatch", "post", "left"}
    [] p = Control -> {"created", "spawn", "dispatch", "post", "up", "discard", "join", "down"}
    [] p = Health -> {"idle", "dispatch", "post", "counts", "check"}
    [] OTHER -> {"idle", "dispatch", "post"}

\* A process is where its kind may be, and has in hand what it needs there.
PcInv ==
  /\ \A p \in Procs : pc[p] \in Labels(p)
  /\ \A p \in Procs : pc[p] = "post" <=> toStart[p] # <<>>
  /\ \A w \in Threads : pc[w] \in {"register", "work", "release"} <=> task[w] # NoTask
  /\ \A w \in Threads : pc[w] = "release" => MayBlock(task[w])

\* runningTasks_ has what the threads are executing.
RunInv == running = {task[w] : w \in {v \in Threads : pc[v] = "work"}}

\* Only tasks that may block see the wait list.
WaitInv ==
  /\ \A t \in Tasks : pc[t] = "push" => MayBlock(t)
  /\ \A t \in Range(pending) : MayBlock(t)

\* The tasks that their callers have not handed over.
Fresh == {t \in Tasks : pc[t] \in {"new", "push", "refused"}}

\* A task is in one place, and there once; one that was not handed over is nowhere.
PlaceInv ==
  /\ IsInjective(pending) /\ IsInjective(posted)
  /\ \A p \in Procs : IsInjective(toStart[p])
  /\ \A p, q \in Procs : p # q => Range(toStart[p]) \cap Range(toStart[q]) = {}
  /\ \A p \in Procs : Range(toStart[p]) \cap (Range(pending) \cup Range(posted)) = {}
  /\ Range(pending) \cap Range(posted) = {}
  /\ \A w \in Threads : task[w] \notin Range(pending) \cup Range(posted)
  /\ \A w \in Threads, p \in Procs : task[w] \notin Range(toStart[p])
  /\ \A v, w \in Threads : v # w /\ task[v] # NoTask => task[v] # task[w]
  /\ Fresh \cap (Range(pending) \cup Range(posted)) = {}
  /\ \A p \in Procs : Fresh \cap Range(toStart[p]) = {}
  /\ \A w \in Threads : task[w] \notin Fresh

\* The tasks that hold a slot.
Slotted == {t \in Claimed \cup Range(posted) \cup InHand : MayBlock(t)}

CountInv ==
  /\ IsFiniteSet(Slotted) /\ slots = Cardinality(Slotted)
  /\ IsFiniteSet(Waiting) /\ depth = Cardinality(Waiting)

\* The threads that RunWorker_ counts.
Alive == {w \in Threads : pc[w] \notin {"absent", "left"}}

\* workerThreads_ and the two counters of threads.
StartInv ==
  /\ pool = {w \in Threads : pc[w] # "absent"} /\ IsFiniteSet(pool)
  /\ live = Cardinality(Alive)
  /\ pc[Control] \in {"created", "spawn", "discard", "join", "down"} => count = 0
  /\ pc[Control] \in {"dispatch", "post", "up"} => count = Cardinality(pool)
  /\ pc[Control] = "created" <=> starts = 0
  /\ kind = "async" => starts <= 1

\* Nothing is handed to the asynchronous queue before Start is through.
EarlyInv ==
  (kind = "async" /\ pc[Control] \in {"created", "spawn"}) =>
    pending = <<>> /\ slots = 0 /\ \A t \in Tasks : pc[t] = "new"

\* The health task has seen no fewer threads than are left.
HealthInv ==
  /\ pc[Health] # "idle" => kind = "async" /\ pc[Control] \notin {"created", "spawn"}
  /\ pc[Health] = "check" => live <= seen

\* No more tasks hold slots than the pool that Start counted allows.
LimitInv == count > 0 => slots <= GetBlockingLimit

\* A task waits for a slot, or for somebody on the way to the wait list.
ParkInv ==
  pc[Control] \in {"dispatch", "post", "up"} =>
    \/ \E p \in Procs : pc[p] = "dispatch"
    \/ pending = <<>>
    \/ slots >= GetBlockingLimit

PoolInv ==
  /\ QueueTypeOK /\ PcInv /\ RunInv /\ WaitInv /\ PlaceInv /\ CountInv
  /\ StartInv /\ EarlyInv /\ HealthInv /\ LimitInv /\ ParkInv

-----------------------------------------------------------------------------
(* Sequences without repetition *)

\* What a task at the back adds.
LEMMA AppendOnce ==
  ASSUME NEW S, NEW s \in Seq(S), IsInjective(s), NEW x, x \notin Range(s)
  PROVE  IsInjective(Append(s, x)) /\ Range(Append(s, x)) = Range(s) \cup {x}
<1>1. /\ Len(Append(s, x)) = Len(s) + 1
      /\ \A i \in 1 .. Len(s) : Append(s, x)[i] = s[i]
      /\ Append(s, x)[Len(s) + 1] = x
      /\ DOMAIN Append(s, x) = 1 .. Len(s) + 1 /\ DOMAIN s = 1 .. Len(s)
  OBVIOUS
<1>2. \A i \in 1 .. Len(s) : s[i] # x
  BY <1>1, Zenon DEF Range
<1>3. IsInjective(Append(s, x))
  BY <1>1, <1>2 DEF IsInjective
<1>4. Range(Append(s, x)) = Range(s) \cup {x}
  BY <1>1 DEF Range
<1> QED BY <1>3, <1>4, Zenon

\* What the task at the front was.
LEMMA HeadOnce ==
  ASSUME NEW S, NEW s \in Seq(S), IsInjective(s), s # <<>>
  PROVE  /\ Head(s) \in S /\ Tail(s) \in Seq(S) /\ IsInjective(Tail(s))
         /\ Range(s) = {Head(s)} \cup Range(Tail(s)) /\ Head(s) \notin Range(Tail(s))
         /\ Len(s) = 1 <=> Tail(s) = <<>>
<1>1. /\ Len(s) \in Nat \ {0} /\ DOMAIN s = 1 .. Len(s)
      /\ Head(s) = s[1] /\ Len(Tail(s)) = Len(s) - 1 /\ Tail(s) \in Seq(S)
      /\ DOMAIN Tail(s) = 1 .. Len(s) - 1
      /\ \A i \in 1 .. Len(s) - 1 : Tail(s)[i] = s[i + 1]
  OBVIOUS
<1>2. IsInjective(Tail(s)) /\ Head(s) \notin Range(Tail(s))
  BY <1>1 DEF IsInjective, Range
<1>3. Range(s) = {Head(s)} \cup Range(Tail(s))
  <2>1. ASSUME NEW i \in 1 .. Len(s)
        PROVE  s[i] \in {Head(s)} \cup Range(Tail(s))
    <3>1. CASE i = 1
      BY <1>1, <3>1, Zenon
    <3>2. CASE i # 1
      <4>1. i - 1 \in 1 .. Len(s) - 1 /\ s[i] = Tail(s)[i - 1]
        BY <1>1, <3>2
      <4> QED BY <1>1, <4>1, Zenon DEF Range
    <3> QED BY <3>1, <3>2, Zenon
  <2>2. ASSUME NEW i \in 1 .. Len(s) - 1
        PROVE  Tail(s)[i] \in Range(s)
    BY <1>1 DEF Range
  <2>3. Head(s) \in Range(s)
    BY <1>1 DEF Range
  <2> QED BY <1>1, <2>1, <2>2, <2>3 DEF Range
<1>4. Len(s) = 1 <=> Tail(s) = <<>>
  BY <1>1
<1> QED BY <1>1, <1>2, <1>3, <1>4

\* The two parts of a sequence that is cut in two.
LEMMA CutOnce ==
  ASSUME NEW S, NEW s \in Seq(S), IsInjective(s), NEW k \in 0 .. Len(s)
  PROVE  LET a == SubSeq(s, 1, k)  b == SubSeq(s, k + 1, Len(s))
         IN  /\ a \in Seq(S) /\ b \in Seq(S) /\ IsInjective(a) /\ IsInjective(b)
             /\ Range(s) = Range(a) \cup Range(b) /\ Range(a) \cap Range(b) = {}
             /\ Len(a) = k /\ Len(b) = Len(s) - k
<1> DEFINE a == SubSeq(s, 1, k)
           b == SubSeq(s, k + 1, Len(s))
<1>1. /\ k \in Nat /\ Len(s) \in Nat /\ k <= Len(s) /\ DOMAIN s = 1 .. Len(s)
      /\ Len(a) = k /\ DOMAIN a = 1 .. k /\ \A i \in 1 .. k : a[i] = s[i]
      /\ Len(b) = Len(s) - k /\ DOMAIN b = 1 .. Len(s) - k
      /\ \A i \in 1 .. Len(s) - k : b[i] = s[i + k]
      /\ a \in Seq(S) /\ b \in Seq(S)
  OBVIOUS
<1> HIDE DEF a, b
<1>2. \A i \in 1 .. Len(s) - k : i + k \in 1 .. Len(s) /\ i + k \notin 1 .. k
  BY <1>1
<1>3. IsInjective(a)
  BY <1>1 DEF IsInjective
<1>4. IsInjective(b)
  <2>1. ASSUME NEW i \in 1 .. Len(s) - k, NEW j \in 1 .. Len(s) - k, b[i] = b[j]
        PROVE  i = j
    <3>1. i + k \in DOMAIN s /\ j + k \in DOMAIN s /\ s[i + k] = s[j + k]
      BY <1>1, <1>2, <2>1, Zenon
    <3>2. i + k = j + k
      BY <3>1, Zenon DEF IsInjective
    <3> QED BY <1>1, <3>2
  <2> QED BY <1>1, <2>1, Zenon DEF IsInjective
<1>5. Range(a) \cap Range(b) = {}
  <2>1. ASSUME NEW i \in 1 .. k, NEW j \in 1 .. Len(s) - k, a[i] = b[j]
        PROVE  FALSE
    <3>1. i \in DOMAIN s /\ j + k \in DOMAIN s /\ s[i] = s[j + k] /\ i # j + k
      BY <1>1, <1>2, <2>1
    <3> QED BY <3>1, Zenon DEF IsInjective
  <2> QED BY <1>1, <2>1 DEF Range
<1>6. Range(s) = Range(a) \cup Range(b)
  <2>1. ASSUME NEW i \in 1 .. Len(s)
        PROVE  s[i] \in Range(a) \cup Range(b)
    <3>1. CASE i <= k
      BY <1>1, <3>1 DEF Range
    <3>2. CASE i > k
      <4>1. i - k \in 1 .. Len(s) - k /\ (i - k) + k = i
        BY <1>1, <3>2
      <4>2. s[i] = b[i - k]
        BY <1>1, <4>1, Zenon
      <4> QED BY <1>1, <4>1, <4>2, Zenon DEF Range
    <3> QED BY <3>1, <3>2
  <2>2. Range(a) \subseteq Range(s)
    BY <1>1 DEF Range
  <2>3. Range(b) \subseteq Range(s)
    BY <1>1, <1>2, Zenon DEF Range
  <2> QED BY <1>1, <2>1, <2>2, <2>3, Zenon DEF Range
<1> QED BY <1>1, <1>3, <1>4, <1>5, <1>6, Zenon DEF a, b

\* Such a sequence is as long as the set of its members is large.
LEMMA CountOnce ==
  ASSUME NEW S, NEW s \in Seq(S), IsInjective(s)
  PROVE  IsFiniteSet(Range(s)) /\ Cardinality(Range(s)) = Len(s)
<1>1. Len(s) \in Nat /\ DOMAIN s = 1 .. Len(s) /\ s \in [1 .. Len(s) -> Range(s)]
  BY DEF Range
<1>2. s \in Bijection(1 .. Len(s), Range(s))
  BY <1>1, Zenon DEF Bijection, Injection, Surjection, IsInjective, Range
<1>3. ExistsBijection(1 .. Len(s), Range(s))
  BY <1>2, Zenon DEF ExistsBijection
<1>4. IsFiniteSet(1 .. Len(s)) /\ Cardinality(1 .. Len(s)) = Len(s)
  BY <1>1, FS_Interval
<1> QED BY <1>3, <1>4, FS_Bijection, Zenon

-----------------------------------------------------------------------------
(* What the steps do to the lists *)

\* One process moves.
LEMMA Moves ==
  ASSUME QueueTypeOK, NEW p \in Procs, NEW l, Goto(p, l)
  PROVE  pc'[p] = l /\ \A q \in Procs : q # p => pc'[q] = pc[q]
BY Zenon DEF QueueTypeOK, Goto

\* Where a process goes on is a place of its own.
LEMMA Returns ==
  ASSUME NEW p \in Procs
  PROVE  /\ AfterDispatch(p) \in Labels(p) \ {"dispatch", "post", "new", "push", "refused", "register", "work", "release",
                                   "absent", "left", "created", "spawn", "discard", "join", "down", "check"}
         /\ "post" \in Labels(p)
         /\ p \in Tasks => AfterDispatch(p) = "added"
         /\ p \in Threads => AfterDispatch(p) = "run"
         /\ p = Control => AfterDispatch(p) = "up"
BY ProcsDistinct, Zenon DEF AfterDispatch, Labels, Procs

\* What GetBlockingLimit_ computes from the size of the pool: there is always a
\* slot, and with a thread reserved and two threads never one for each of them.
LEMMA LimitOf ==
  ASSUME NEW n \in Nat \ {0}
  PROVE  LET limit == CASE Reserved <= 0 -> n [] Reserved >= n -> 1 [] OTHER -> n - Reserved
         IN  limit \in Nat /\ limit >= 1 /\ (Reserved > 0 /\ n > 1 => limit < n)
<1> DEFINE limit == CASE Reserved <= 0 -> n [] Reserved >= n -> 1 [] OTHER -> n - Reserved
<1>1. Reserved \in Int
  BY PoolAssumption, Zenon
<1>2. limit = IF Reserved <= 0 THEN n ELSE IF Reserved >= n THEN 1 ELSE n - Reserved
  <2>1. CASE Reserved <= 0
    BY <1>1, <2>1
  <2>2. CASE ~(Reserved <= 0) /\ Reserved >= n
    BY <1>1, <2>2, Zenon
  <2>3. CASE ~(Reserved <= 0) /\ ~(Reserved >= n)
    BY <1>1, <2>3, Zenon
  <2> QED BY <2>1, <2>2, <2>3, Zenon
<1> HIDE DEF limit
<1>3. limit \in Nat /\ limit >= 1 /\ (Reserved > 0 /\ n > 1 => limit < n)
  BY <1>1, <1>2
<1> QED BY <1>3, Zenon DEF limit

LEMMA LimitType ==
  ASSUME QueueTypeOK
  PROVE  /\ GetBlockingLimit \in Nat /\ GetBlockingLimit >= 1
         /\ Reserved > 0 /\ count > 1 => GetBlockingLimit < count
<1> DEFINE n == IF count = 0 THEN max ELSE count
<1>1. n \in Nat \ {0} /\ (count > 1 => n = count)
  BY PoolAssumption DEF QueueTypeOK
<1>2. GetBlockingLimit = CASE Reserved <= 0 -> n [] Reserved >= n -> 1 [] OTHER -> n - Reserved
  BY Zenon DEF GetBlockingLimit
<1> HIDE DEF n
<1> QED BY <1>1, <1>2, LimitOf, Zenon

\* DispatchBlockingTasks_ moves the front of the wait list to to_start, and
\* stops when the list is empty or the slots are taken.
LEMMA Dispatches ==
  ASSUME QueueTypeOK, PcInv, PlaceInv, NEW p \in Procs, DispatchBlockingTasks(p)
  PROVE  /\ toStart[p] = <<>> /\ pc[p] = "dispatch"
         /\ \A q \in Procs : q # p => toStart'[q] = toStart[q] /\ pc'[q] = pc[q]
         /\ toStart' \in [Procs -> Seq(Tasks)] /\ pending' \in Seq(Tasks)
         /\ IsInjective(toStart'[p]) /\ IsInjective(pending')
         /\ Range(pending) = Range(toStart'[p]) \cup Range(pending')
         /\ Range(toStart'[p]) \cap Range(pending') = {}
         /\ pc'[p] = IF toStart'[p] = <<>> THEN AfterDispatch(p) ELSE "post"
         /\ slots' = slots + Len(toStart'[p])
         /\ pending' = <<>> \/ slots' >= GetBlockingLimit
         /\ toStart'[p] = <<>> \/ slots' <= GetBlockingLimit
         /\ pending = <<>> => pending' = <<>> /\ toStart'[p] = <<>>
<1> DEFINE free == IF GetBlockingLimit > slots THEN GetBlockingLimit - slots ELSE 0
           k == IF free < Len(pending) THEN free ELSE Len(pending)
<1>1. GetBlockingLimit \in Nat
  BY LimitType, Zenon
<1>2. /\ pending \in Seq(Tasks) /\ slots \in Nat /\ toStart \in [Procs -> Seq(Tasks)]
      /\ IsInjective(pending) /\ Len(pending) \in Nat
  BY DEF QueueTypeOK, PlaceInv
<1>3. free \in Nat /\ k \in 0 .. Len(pending) /\ k \in Nat
  BY <1>1, <1>2
<1>4. /\ toStart' = [toStart EXCEPT ![p] = SubSeq(pending, 1, k)]
      /\ pending' = SubSeq(pending, k + 1, Len(pending))
      /\ slots' = slots + k /\ pc[p] = "dispatch"
      /\ Goto(p, IF k = 0 THEN AfterDispatch(p) ELSE "post")
  BY Zenon DEF DispatchBlockingTasks
<1>5. k = Len(pending) \/ slots + k >= GetBlockingLimit
  BY <1>1, <1>2
<1>6. k = 0 \/ slots + k <= GetBlockingLimit
  BY <1>1, <1>2
<1> HIDE DEF free, k
<1>7. toStart'[p] = SubSeq(pending, 1, k) /\ \A q \in Procs : q # p => toStart'[q] = toStart[q]
  BY <1>2, <1>4, Zenon
<1>8. /\ toStart'[p] \in Seq(Tasks) /\ pending' \in Seq(Tasks)
      /\ IsInjective(toStart'[p]) /\ IsInjective(pending')
      /\ Range(pending) = Range(toStart'[p]) \cup Range(pending')
      /\ Range(toStart'[p]) \cap Range(pending') = {}
      /\ Len(toStart'[p]) = k /\ Len(pending') = Len(pending) - k
  BY <1>2, <1>3, <1>4, <1>7, CutOnce
<1>9. toStart'[p] = <<>> <=> k = 0
  BY <1>8
<1>10. k = Len(pending) => pending' = <<>>
  BY <1>2, <1>8
<1>11. toStart' \in [Procs -> Seq(Tasks)]
  BY <1>2, <1>4, <1>7, <1>8, Zenon
<1>12. toStart[p] = <<>>
  BY <1>4, Zenon DEF PcInv
<1>13. pc'[p] = (IF k = 0 THEN AfterDispatch(p) ELSE "post") /\ \A q \in Procs : q # p => pc'[q] = pc[q]
  BY <1>4, Moves, Zenon
<1>14. pending = <<>> => k = 0 /\ k = Len(pending)
  BY <1>3
<1> QED BY <1>4, <1>5, <1>6, <1>7, <1>8, <1>9, <1>10, <1>11, <1>12, <1>13, <1>14, Zenon

\* PostTask_ moves the front of to_start to the back of the io_context's queue.
LEMMA Posts ==
  ASSUME QueueTypeOK, PcInv, PlaceInv, NEW p \in Procs, PostTask(p)
  PROVE  /\ pc[p] = "post" /\ Head(toStart[p]) \in Tasks
         /\ \A q \in Procs : q # p => toStart'[q] = toStart[q] /\ pc'[q] = pc[q]
         /\ toStart' \in [Procs -> Seq(Tasks)] /\ posted' \in Seq(Tasks)
         /\ IsInjective(toStart'[p]) /\ IsInjective(posted')
         /\ Range(toStart[p]) = {Head(toStart[p])} \cup Range(toStart'[p])
         /\ Head(toStart[p]) \notin Range(toStart'[p])
         /\ Range(posted') = Range(posted) \cup {Head(toStart[p])}
         /\ pc'[p] = IF toStart'[p] = <<>> THEN AfterDispatch(p) ELSE "post"
<1>1. toStart \in [Procs -> Seq(Tasks)] /\ posted \in Seq(Tasks)
  BY Zenon DEF QueueTypeOK
<1>2. toStart[p] # <<>> /\ pc[p] = "post"
  BY Zenon DEF PostTask, PcInv
<1>3. toStart'[p] = Tail(toStart[p]) /\ \A q \in Procs : q # p => toStart'[q] = toStart[q]
  BY <1>1, Zenon DEF PostTask
<1>4. /\ Head(toStart[p]) \in Tasks /\ Tail(toStart[p]) \in Seq(Tasks)
      /\ IsInjective(Tail(toStart[p]))
      /\ Range(toStart[p]) = {Head(toStart[p])} \cup Range(Tail(toStart[p]))
      /\ Head(toStart[p]) \notin Range(Tail(toStart[p]))
      /\ Len(toStart[p]) = 1 <=> Tail(toStart[p]) = <<>>
  BY <1>1, <1>2, HeadOnce DEF PlaceInv
<1>5. Head(toStart[p]) \notin Range(posted) /\ IsInjective(posted)
  BY <1>4, Zenon DEF PlaceInv
<1>6. posted' = Append(posted, Head(toStart[p]))
  BY Zenon DEF PostTask
<1>7. IsInjective(posted') /\ Range(posted') = Range(posted) \cup {Head(toStart[p])}
  BY <1>1, <1>5, <1>6, AppendOnce, Zenon
<1>8. posted' \in Seq(Tasks)
  BY <1>1, <1>4, <1>6
<1>9. toStart' \in [Procs -> Seq(Tasks)]
  BY <1>1, <1>3, <1>4, Zenon DEF PostTask
<1>10. /\ pc'[p] = IF Len(toStart[p]) = 1 THEN AfterDispatch(p) ELSE "post"
       /\ \A q \in Procs : q # p => pc'[q] = pc[q]
  BY Moves, Zenon DEF PostTask
<1> QED BY <1>2, <1>3, <1>4, <1>7, <1>8, <1>9, <1>10, Zenon

\* io_context_.run() gives a thread the handler at the front.
LEMMA Takes ==
  ASSUME QueueTypeOK, PcInv, PlaceInv, NEW w \in Threads, TakeHandler(w)
  PROVE  /\ pc[w] = "run" /\ pc'[w] = "register" /\ task[w] = NoTask
         /\ \A q \in Procs : q # w => pc'[q] = pc[q]
         /\ task' \in [Threads -> Tasks \cup {NoTask}] /\ posted' \in Seq(Tasks)
         /\ task'[w] \in Tasks /\ \A v \in Threads : v # w => task'[v] = task[v]
         /\ IsInjective(posted')
         /\ Range(posted) = {task'[w]} \cup Range(posted') /\ task'[w] \notin Range(posted')
<1>1. posted \in Seq(Tasks) /\ task \in [Threads -> Tasks \cup {NoTask}] /\ w \in Procs
  BY Zenon DEF QueueTypeOK, Procs
<1>2. pc[w] = "run" /\ posted # <<>> /\ posted' = Tail(posted)
  BY Zenon DEF TakeHandler
<1>3. /\ Head(posted) \in Tasks /\ Tail(posted) \in Seq(Tasks) /\ IsInjective(Tail(posted))
      /\ Range(posted) = {Head(posted)} \cup Range(Tail(posted))
      /\ Head(posted) \notin Range(Tail(posted))
  BY <1>1, <1>2, HeadOnce, Zenon DEF PlaceInv
<1>4. /\ task'[w] = Head(posted) /\ \A v \in Threads : v # w => task'[v] = task[v]
      /\ task' \in [Threads -> Tasks \cup {NoTask}]
  BY <1>1, <1>3, Zenon DEF TakeHandler
<1>5. pc'[w] = "register" /\ \A q \in Procs : q # w => pc'[q] = pc[q]
  BY <1>1, Moves, Zenon DEF TakeHandler
<1>6. task[w] = NoTask
  BY <1>2, Zenon DEF PcInv
<1> QED BY <1>2, <1>3, <1>4, <1>5, <1>6, Zenon

-----------------------------------------------------------------------------
(* Every task is in one place, and is counted there *)

\* What holds of the lists and of the counters together.
ListInv == WaitInv /\ PlaceInv /\ CountInv

\* Steps that touch no list.
LEMMA ListsStay ==
  ASSUME ListInv, UNCHANGED <<kind, task_vars, toStart, task>>, \A t \in Tasks : pc'[t] = pc[t]
  PROVE  ListInv'
<1>1. UNCHANGED <<kind, pending, posted, slots, depth, toStart, task>>
  BY Zenon DEF task_vars
<1>2. Fresh' = Fresh /\ \A t : MayBlock(t)' <=> MayBlock(t)
  BY <1>1, Zenon DEF Fresh, MayBlock
<1>3. WaitInv'
  BY <1>1, <1>2, Zenon DEF ListInv, WaitInv
<1>4. PlaceInv'
  BY <1>1, <1>2, Zenon DEF ListInv, PlaceInv
<1>5. Claimed' = Claimed /\ InHand' = InHand
  BY <1>1, Zenon DEF Claimed, InHand
<1>6. Slotted' = Slotted /\ Waiting' = Waiting
  BY <1>1, <1>2, <1>5, Zenon DEF Slotted, Waiting
<1> QED BY <1>1, <1>3, <1>4, <1>6, Zenon DEF ListInv, CountInv

LEMMA DispatchLists ==
  ASSUME QueueTypeOK, PcInv, ListInv, NEW p \in Procs, DispatchBlockingTasks(p)
  PROVE  ListInv'
<1>1. WaitInv /\ PlaceInv /\ CountInv
  BY Zenon DEF ListInv
<1>2. UNCHANGED <<kind, posted, depth, task>>
  BY Zenon DEF DispatchBlockingTasks, run_vars
<1> DEFINE A == Range(toStart'[p])
<1>3. /\ toStart[p] = <<>> /\ pc[p] = "dispatch"
      /\ \A q \in Procs : q # p => toStart'[q] = toStart[q] /\ pc'[q] = pc[q]
      /\ toStart' \in [Procs -> Seq(Tasks)] /\ pending' \in Seq(Tasks)
      /\ IsInjective(toStart'[p]) /\ IsInjective(pending')
      /\ Range(pending) = A \cup Range(pending') /\ A \cap Range(pending') = {}
      /\ pc'[p] = IF toStart'[p] = <<>> THEN AfterDispatch(p) ELSE "post"
      /\ slots' = slots + Len(toStart'[p])
  BY <1>1, Dispatches, Zenon
<1>4. Range(toStart[p]) = {}
  BY <1>3 DEF Range
<1>5. pc'[p] \notin {"new", "push", "refused"}
  BY <1>3, Returns, Zenon
<1>6. Fresh' = Fresh /\ {t \in Tasks : pc[t] = "push"}' = {t \in Tasks : pc[t] = "push"}
  BY <1>3, <1>5, Zenon DEF Fresh, Procs
<1>7. \A t : MayBlock(t)' <=> MayBlock(t)
  BY <1>2, Zenon DEF MayBlock
<1>8. WaitInv'
  BY <1>1, <1>3, <1>6, <1>7, Zenon DEF WaitInv
<1>9. PlaceInv'
  <2>1. \A q \in Procs : IsInjective(toStart'[q])
    BY <1>1, <1>3, Zenon DEF PlaceInv
  <2>2. \A q, r \in Procs : q # r => Range(toStart'[q]) \cap Range(toStart'[r]) = {}
    BY <1>1, <1>3, Zenon DEF PlaceInv
  <2>3. \A q \in Procs : Range(toStart'[q]) \cap (Range(pending') \cup Range(posted)) = {}
    BY <1>1, <1>3, Zenon DEF PlaceInv
  <2>4. \A w \in Threads, q \in Procs : task[w] \notin Range(toStart'[q])
    BY <1>1, <1>3, Zenon DEF PlaceInv
  <2>5. \A q \in Procs : Fresh \cap Range(toStart'[q]) = {}
    BY <1>1, <1>3, Zenon DEF PlaceInv
  <2>6. /\ Range(pending') \cap Range(posted) = {} /\ Fresh \cap (Range(pending') \cup Range(posted)) = {}
        /\ \A w \in Threads : task[w] \notin Range(pending') \cup Range(posted)
    BY <1>1, <1>3, Zenon DEF PlaceInv
  <2> QED BY <1>1, <1>2, <1>3, <1>6, <2>1, <2>2, <2>3, <2>4, <2>5, <2>6, Zenon DEF PlaceInv
<1>10. Claimed' = Claimed \cup A /\ InHand' = InHand
  BY <1>2, <1>3, <1>4, Zenon DEF Claimed, InHand
<1>11. A \cap (Claimed \cup Range(posted) \cup InHand) = {}
  BY <1>1, <1>3 DEF Claimed, InHand, PlaceInv
<1>12. CountInv'
  <2>1. Slotted' = Slotted \cup A
    BY <1>1, <1>2, <1>3, <1>7, <1>10, Zenon DEF Slotted, WaitInv
  <2>2. Slotted \cap A = {}
    BY <1>11, Zenon DEF Slotted
  <2>3. IsFiniteSet(A) /\ Cardinality(A) = Len(toStart'[p]) /\ Len(toStart'[p]) \in Nat
    BY <1>3, CountOnce
  <2>4. IsFiniteSet(Slotted \cup A) /\ Cardinality(Slotted \cup A) = slots + Len(toStart'[p])
    <3>1. Cardinality({}) = 0 /\ slots \in Nat
      BY FS_EmptySet, Zenon DEF QueueTypeOK
    <3>2. IsFiniteSet(Slotted) /\ Cardinality(Slotted) = slots
      BY <1>1, Zenon DEF CountInv
    <3> HIDE DEF A
    <3>3. /\ IsFiniteSet(Slotted \cup A)
          /\ Cardinality(Slotted \cup A) = Cardinality(Slotted) + Cardinality(A) - Cardinality(Slotted \cap A)
      BY <2>3, <3>2, FS_Union, Zenon
    <3>4. Cardinality(Slotted \cap A) = 0
      BY <2>2, <3>1, Zenon
    <3> QED BY <2>3, <3>1, <3>2, <3>3, <3>4
  <2>5. Waiting' = Waiting
    BY <1>2, <1>3, <1>6, <1>10, Zenon DEF Waiting
  <2> QED BY <1>1, <1>2, <1>3, <2>1, <2>4, <2>5, Zenon DEF CountInv
<1> QED BY <1>8, <1>9, <1>12, Zenon DEF ListInv

LEMMA PostLists ==
  ASSUME QueueTypeOK, PcInv, ListInv, NEW p \in Procs, PostTask(p)
  PROVE  ListInv'
<1>1. WaitInv /\ PlaceInv /\ CountInv
  BY Zenon DEF ListInv
<1>2. UNCHANGED <<kind, pending, slots, depth, task>>
  BY Zenon DEF PostTask, run_vars
<1>3. PICK h \in Tasks : h = Head(toStart[p])
  BY <1>1, Posts, Zenon
<1>4. /\ pc[p] = "post"
      /\ \A q \in Procs : q # p => toStart'[q] = toStart[q] /\ pc'[q] = pc[q]
      /\ IsInjective(toStart'[p]) /\ IsInjective(posted')
      /\ Range(toStart[p]) = {h} \cup Range(toStart'[p]) /\ h \notin Range(toStart'[p])
      /\ Range(posted') = Range(posted) \cup {h}
      /\ pc'[p] = IF toStart'[p] = <<>> THEN AfterDispatch(p) ELSE "post"
  BY <1>1, <1>3, Posts, Zenon
<1>5. pc'[p] \notin {"new", "push", "refused"}
  BY <1>4, Returns, Zenon
<1>6. Fresh' = Fresh /\ {t \in Tasks : pc[t] = "push"}' = {t \in Tasks : pc[t] = "push"}
  BY <1>4, <1>5, Zenon DEF Fresh, Procs
<1>7. \A t : MayBlock(t)' <=> MayBlock(t)
  BY <1>2, Zenon DEF MayBlock
<1>8. WaitInv'
  BY <1>1, <1>2, <1>6, <1>7, Zenon DEF WaitInv
<1>9. PlaceInv'
  <2>1. \A q \in Procs : IsInjective(toStart'[q])
    BY <1>1, <1>4, Zenon DEF PlaceInv
  <2>2. \A q, r \in Procs : q # r => Range(toStart'[q]) \cap Range(toStart'[r]) = {}
    BY <1>1, <1>4 DEF PlaceInv
  <2>3. \A q \in Procs : Range(toStart'[q]) \cap (Range(pending) \cup Range(posted')) = {}
    BY <1>1, <1>4 DEF PlaceInv
  <2>4. \A w \in Threads, q \in Procs : task[w] \notin Range(toStart'[q])
    BY <1>1, <1>4, Zenon DEF PlaceInv
  <2>5. \A q \in Procs : Fresh \cap Range(toStart'[q]) = {}
    BY <1>1, <1>4, Zenon DEF PlaceInv
  <2>6. /\ Range(pending) \cap Range(posted') = {} /\ Fresh \cap (Range(pending) \cup Range(posted')) = {}
        /\ \A w \in Threads : task[w] \notin Range(pending) \cup Range(posted')
    BY <1>1, <1>4, Zenon DEF PlaceInv
  <2> QED BY <1>1, <1>2, <1>4, <1>6, <2>1, <2>2, <2>3, <2>4, <2>5, <2>6, Zenon DEF PlaceInv
<1>10. Claimed = Claimed' \cup {h} /\ InHand' = InHand
  BY <1>2, <1>4, Zenon DEF Claimed, InHand
<1>11. Slotted' = Slotted
  BY <1>4, <1>7, <1>10, Zenon DEF Slotted
<1>12. Waiting' = Waiting
  BY <1>2, <1>4, <1>6, <1>10, Zenon DEF Waiting
<1>13. CountInv'
  BY <1>1, <1>2, <1>11, <1>12, Zenon DEF CountInv
<1> QED BY <1>8, <1>9, <1>13, Zenon DEF ListInv

\* AddTask.
LEMMA AddLists ==
  ASSUME QueueTypeOK, PcInv, ListInv, NEW t \in Tasks, AddTask(t)
  PROVE  ListInv'
<1>1. WaitInv /\ PlaceInv /\ CountInv
  BY Zenon DEF ListInv
<1>2. UNCHANGED <<kind, pending, posted, slots, task>>
  BY Zenon DEF AddTask, run_vars
<1>3. t \in Procs /\ toStart \in [Procs -> Seq(Tasks)] /\ pc[t] = "new" /\ t \in Fresh
  BY Zenon DEF QueueTypeOK, Procs, AddTask, Fresh
<1>4. \A u : MayBlock(u)' <=> MayBlock(u)
  BY <1>2, Zenon DEF MayBlock
<1>5. CASE stopping
  <2>1. Goto(t, "refused") /\ UNCHANGED <<depth, toStart>>
    BY <1>5, Zenon DEF AddTask
  <2>2. pc'[t] = "refused" /\ \A q \in Procs : q # t => pc'[q] = pc[q]
    BY <1>3, <2>1, Moves, Zenon
  <2>3. Fresh' = Fresh /\ {u \in Tasks : pc[u] = "push"}' = {u \in Tasks : pc[u] = "push"}
    BY <1>3, <2>2, Zenon DEF Fresh, Procs
  <2>4. WaitInv' /\ PlaceInv'
    BY <1>1, <1>2, <1>4, <2>1, <2>3, Zenon DEF WaitInv, PlaceInv
  <2>5. Claimed' = Claimed /\ InHand' = InHand
    BY <1>2, <2>1, Zenon DEF Claimed, InHand
  <2>6. Slotted' = Slotted /\ Waiting' = Waiting
    BY <1>2, <1>4, <2>3, <2>5, Zenon DEF Slotted, Waiting
  <2> QED BY <1>1, <1>2, <2>1, <2>4, <2>6, Zenon DEF ListInv, CountInv
<1>6. t \notin Waiting
  BY <1>1, <1>3 DEF PlaceInv, Waiting, Claimed
<1>7. ASSUME Waiting' = Waiting \cup {t}, depth' = depth + 1
      PROVE  IsFiniteSet(Waiting') /\ depth' = Cardinality(Waiting')
  BY <1>1, <1>6, <1>7, FS_AddElement, Zenon DEF CountInv
<1>8. CASE ~stopping /\ MayBlock(t)
  <2>1. Goto(t, "push") /\ UNCHANGED toStart /\ depth' = depth + 1
    BY <1>8, Zenon DEF AddTask
  <2>2. pc'[t] = "push" /\ \A q \in Procs : q # t => pc'[q] = pc[q]
    BY <1>3, <2>1, Moves, Zenon
  <2>3. Fresh' = Fresh /\ {u \in Tasks : pc[u] = "push"}' = {u \in Tasks : pc[u] = "push"} \cup {t}
    BY <1>3, <2>2, Zenon DEF Fresh, Procs
  <2>4. WaitInv' /\ PlaceInv'
    BY <1>1, <1>2, <1>4, <1>8, <2>1, <2>3, Zenon DEF WaitInv, PlaceInv
  <2>5. Claimed' = Claimed /\ InHand' = InHand
    BY <1>2, <2>1, Zenon DEF Claimed, InHand
  <2>6. Slotted' = Slotted
    BY <1>2, <1>4, <2>5, Zenon DEF Slotted
  <2>7. Waiting' = Waiting \cup {t}
    BY <1>2, <2>3, <2>5, Zenon DEF Waiting
  <2> QED BY <1>1, <1>2, <1>7, <2>1, <2>4, <2>6, <2>7, Zenon DEF ListInv, CountInv
<1>9. CASE ~stopping /\ ~MayBlock(t)
  <2>1. Goto(t, "post") /\ toStart' = [toStart EXCEPT ![t] = <<t>>] /\ depth' = depth + 1
    BY <1>9, Zenon DEF AddTask
  <2>2. pc'[t] = "post" /\ \A q \in Procs : q # t => pc'[q] = pc[q]
    BY <1>3, <2>1, Moves, Zenon
  <2>3. Fresh' = Fresh \ {t} /\ {u \in Tasks : pc[u] = "push"}' = {u \in Tasks : pc[u] = "push"}
    BY <1>3, <2>2, Zenon DEF Fresh, Procs
  <2>4. toStart'[t] = <<t>> /\ \A q \in Procs : q # t => toStart'[q] = toStart[q]
    BY <1>3, <2>1, Zenon
  <2>5. toStart[t] = <<>> /\ Range(toStart[t]) = {} /\ Range(toStart'[t]) = {t} /\ IsInjective(toStart'[t])
    BY <1>3, <2>4 DEF PcInv, Range, IsInjective
  <2>6. WaitInv'
    BY <1>1, <1>2, <1>4, <2>3, Zenon DEF WaitInv
  <2>7. PlaceInv'
    <3>1. \A q \in Procs : IsInjective(toStart'[q])
      BY <1>1, <2>4, <2>5, Zenon DEF PlaceInv
    <3>2. \A q, r \in Procs : q # r => Range(toStart'[q]) \cap Range(toStart'[r]) = {}
      <4>1. \A q \in Procs : t \notin Range(toStart[q])
        BY <1>1, <1>3, Zenon DEF PlaceInv
      <4>2. \A q, r \in Procs : q # r => Range(toStart[q]) \cap Range(toStart[r]) = {}
        BY <1>1, Zenon DEF PlaceInv
      <4> QED BY <2>4, <2>5, <4>1, <4>2
    <3>3. \A q \in Procs : Range(toStart'[q]) \cap (Range(pending) \cup Range(posted)) = {}
      <4>1. t \notin Range(pending) /\ t \notin Range(posted)
        BY <1>1, <1>3, Zenon DEF PlaceInv
      <4>2. \A q \in Procs : Range(toStart[q]) \cap (Range(pending) \cup Range(posted)) = {}
        BY <1>1, Zenon DEF PlaceInv
      <4>3. Range(toStart'[t]) \cap (Range(pending) \cup Range(posted)) = {}
        BY <2>5, <4>1, Zenon
      <4> QED BY <2>4, <4>2, <4>3, Zenon
    <3>4. \A w \in Threads, q \in Procs : task[w] \notin Range(toStart'[q])
      <4>1. \A w \in Threads : task[w] # t
        BY <1>1, <1>3, Zenon DEF PlaceInv
      <4> QED BY <1>1, <2>4, <2>5, <4>1, Zenon DEF PlaceInv
    <3>5. \A q \in Procs : Fresh' \cap Range(toStart'[q]) = {}
      BY <1>1, <2>3, <2>4, <2>5, Zenon DEF PlaceInv
    <3> QED BY <1>1, <1>2, <2>3, <3>1, <3>2, <3>3, <3>4, <3>5, Zenon DEF PlaceInv
  <2>8. Claimed' = Claimed \cup {t} /\ InHand' = InHand
    BY <1>2, <1>3, <2>4, <2>5, Zenon DEF Claimed, InHand
  <2>9. Slotted' = Slotted
    BY <1>2, <1>4, <1>9, <2>8, Zenon DEF Slotted
  <2>10. Waiting' = Waiting \cup {t}
    BY <1>2, <2>3, <2>8, Zenon DEF Waiting
  <2> QED BY <1>1, <1>2, <1>7, <2>1, <2>6, <2>7, <2>9, <2>10, Zenon DEF ListInv, CountInv
<1> QED BY <1>5, <1>8, <1>9, Zenon

\* The second half of AddTask for a task that may block.
LEMMA PushLists ==
  ASSUME QueueTypeOK, PcInv, ListInv, NEW t \in Tasks, PushPending(t)
  PROVE  ListInv'
<1>1. WaitInv /\ PlaceInv /\ CountInv
  BY Zenon DEF ListInv
<1>2. UNCHANGED <<kind, posted, slots, depth, toStart, task>>
  BY Zenon DEF PushPending, run_vars
<1>3. t \in Procs /\ pc[t] = "push" /\ t \in Fresh /\ pending \in Seq(Tasks)
  BY Zenon DEF QueueTypeOK, Procs, PushPending, Fresh
<1>4. pc'[t] = "dispatch" /\ \A q \in Procs : q # t => pc'[q] = pc[q]
  BY <1>3, Moves, Zenon DEF PushPending
<1>5. t \notin Range(pending) /\ IsInjective(pending)
  BY <1>1, <1>3, Zenon DEF PlaceInv
<1>6. IsInjective(pending') /\ Range(pending') = Range(pending) \cup {t}
  BY <1>3, <1>5, AppendOnce, Zenon DEF PushPending
<1>7. Fresh' = Fresh \ {t} /\ {u \in Tasks : pc[u] = "push"}' = {u \in Tasks : pc[u] = "push"} \ {t}
  BY <1>3, <1>4, Zenon DEF Fresh, Procs
<1>8. \A u : MayBlock(u)' <=> MayBlock(u)
  BY <1>2, Zenon DEF MayBlock
<1>9. WaitInv'
  BY <1>1, <1>3, <1>6, <1>7, <1>8, Zenon DEF WaitInv
<1>10. PlaceInv'
  <2>1. \A q \in Procs : Range(toStart[q]) \cap (Range(pending') \cup Range(posted)) = {}
    BY <1>1, <1>3, <1>6 DEF PlaceInv
  <2>2. Range(pending') \cap Range(posted) = {}
    BY <1>1, <1>3, <1>6 DEF PlaceInv
  <2>3. \A w \in Threads : task[w] \notin Range(pending') \cup Range(posted)
    BY <1>1, <1>3, <1>6 DEF PlaceInv
  <2>4. Fresh' \cap (Range(pending') \cup Range(posted)) = {}
    BY <1>1, <1>6, <1>7, Zenon DEF PlaceInv
  <2> QED BY <1>1, <1>2, <1>6, <1>7, <2>1, <2>2, <2>3, <2>4, Zenon DEF PlaceInv
<1>11. Claimed' = Claimed /\ InHand' = InHand
  BY <1>2, Zenon DEF Claimed, InHand
<1>12. Slotted' = Slotted /\ Waiting' = Waiting
  BY <1>2, <1>3, <1>6, <1>7, <1>8, <1>11, Zenon DEF Slotted, Waiting
<1> QED BY <1>1, <1>2, <1>9, <1>10, <1>12, Zenon DEF ListInv, CountInv

\* A thread takes a handler.
LEMMA TakeLists ==
  ASSUME QueueTypeOK, PcInv, ListInv, NEW w \in Threads, TakeHandler(w)
  PROVE  ListInv'
<1>1. WaitInv /\ PlaceInv /\ CountInv
  BY Zenon DEF ListInv
<1>2. UNCHANGED <<kind, pending, slots, toStart>> /\ depth' = depth - 1
  BY Zenon DEF TakeHandler
<1>3. PICK h \in Tasks : h = task'[w]
  BY <1>1, Takes, Zenon
<1>4. /\ pc[w] = "run" /\ pc'[w] = "register" /\ task[w] = NoTask
      /\ \A q \in Procs : q # w => pc'[q] = pc[q]
      /\ \A v \in Threads : v # w => task'[v] = task[v]
      /\ IsInjective(posted')
      /\ Range(posted) = {h} \cup Range(posted') /\ h \notin Range(posted')
  BY <1>1, <1>3, Takes, Zenon
<1>5. Fresh' = Fresh /\ {t \in Tasks : pc[t] = "push"}' = {t \in Tasks : pc[t] = "push"}
  BY <1>4, ProcsDistinct, Zenon DEF Fresh, Procs
<1>6. \A t : MayBlock(t)' <=> MayBlock(t)
  BY <1>2, Zenon DEF MayBlock
<1>7. WaitInv'
  BY <1>1, <1>2, <1>5, <1>6, Zenon DEF WaitInv
<1>8. PlaceInv'
  <2>1. \A v \in Threads : task'[v] \notin Range(pending) \cup Range(posted')
    BY <1>1, <1>3, <1>4, Zenon DEF PlaceInv
  <2>2. \A v \in Threads, p \in Procs : task'[v] \notin Range(toStart[p])
    BY <1>1, <1>3, <1>4, Zenon DEF PlaceInv
  <2>3. \A u, v \in Threads : u # v /\ task'[u] # NoTask => task'[u] # task'[v]
    BY <1>1, <1>3, <1>4, ProcsDistinct DEF PlaceInv
  <2>4. \A v \in Threads : task'[v] \notin Fresh
    BY <1>1, <1>3, <1>4, Zenon DEF PlaceInv
  <2> QED BY <1>1, <1>2, <1>4, <1>5, <2>1, <2>2, <2>3, <2>4, Zenon DEF PlaceInv
<1>9. Claimed' = Claimed /\ InHand' = InHand \cup {h}
  BY <1>2, <1>3, <1>4, ProcsDistinct, Zenon DEF Claimed, InHand
<1>10. Slotted' = Slotted
  BY <1>4, <1>6, <1>9, Zenon DEF Slotted
<1>11. h \in Waiting /\ Waiting' = Waiting \ {h}
  <2>1. h \notin Range(pending) /\ h \notin Claimed /\ h \notin {t \in Tasks : pc[t] = "push"}
    BY <1>1, <1>4 DEF PlaceInv, Claimed, Fresh
  <2> QED BY <1>2, <1>4, <1>5, <1>9, <2>1, Zenon DEF Waiting
<1>12. IsFiniteSet(Waiting') /\ depth' = Cardinality(Waiting')
  BY <1>1, <1>2, <1>11, FS_RemoveElement, Zenon DEF CountInv
<1> QED BY <1>1, <1>2, <1>7, <1>8, <1>10, <1>12, Zenon DEF ListInv, CountInv

\* A thread is done with a task.
LEMMA DropLists ==
  ASSUME QueueTypeOK, PcInv, ListInv, NEW w \in Threads, NEW l,
         Goto(w, l), task' = [task EXCEPT ![w] = NoTask],
         UNCHANGED <<kind, pending, posted, depth, toStart>>,
         \/ MayBlock(task[w]) /\ task[w] # NoTask /\ slots' = IF slots > 0 THEN slots - 1 ELSE 0
         \/ ~MayBlock(task[w]) /\ slots' = slots
  PROVE  ListInv'
<1>1. WaitInv /\ PlaceInv /\ CountInv
  BY Zenon DEF ListInv
<1>2. \A t \in Tasks : pc'[t] = pc[t]
  BY Moves, ProcsDistinct, Zenon DEF Procs
<1>3. Fresh' = Fresh /\ {t \in Tasks : pc[t] = "push"}' = {t \in Tasks : pc[t] = "push"}
  BY <1>2, Zenon DEF Fresh
<1>4. \A t : MayBlock(t)' <=> MayBlock(t)
  BY Zenon DEF MayBlock
<1>5. /\ task'[w] = NoTask /\ \A v \in Threads : v # w => task'[v] = task[v]
      /\ task \in [Threads -> Tasks \cup {NoTask}]
      /\ pending \in Seq(Tasks) /\ posted \in Seq(Tasks) /\ toStart \in [Procs -> Seq(Tasks)]
  BY Zenon DEF QueueTypeOK
<1>6. /\ NoTask \notin Fresh /\ NoTask \notin Range(pending) /\ NoTask \notin Range(posted)
      /\ \A p \in Procs : NoTask \notin Range(toStart[p])
  <2>1. \A s \in Seq(Tasks) : Range(s) \subseteq Tasks
    BY DEF Range
  <2> QED BY <1>5, <2>1, ProcsDistinct, Zenon DEF Fresh
<1>7. WaitInv'
  BY <1>1, <1>3, <1>4, Zenon DEF WaitInv
<1>8. PlaceInv'
  <2>1. \A v \in Threads : task'[v] \notin Range(pending) \cup Range(posted)
    BY <1>1, <1>5, <1>6, Zenon DEF PlaceInv
  <2>2. \A v \in Threads, p \in Procs : task'[v] \notin Range(toStart[p])
    BY <1>1, <1>5, <1>6, Zenon DEF PlaceInv
  <2>3. \A u, v \in Threads : u # v /\ task'[u] # NoTask => task'[u] # task'[v]
    BY <1>1, <1>5, Zenon DEF PlaceInv
  <2>4. \A v \in Threads : task'[v] \notin Fresh
    BY <1>1, <1>5, <1>6, Zenon DEF PlaceInv
  <2> QED BY <1>1, <1>3, <2>1, <2>2, <2>3, <2>4, Zenon DEF PlaceInv
<1>9. Claimed' = Claimed /\ InHand' = InHand \ {task[w]}
  <2>1. InHand' = InHand \ {task[w]}
    BY <1>1, <1>5 DEF InHand, PlaceInv
  <2> QED BY <2>1, Zenon DEF Claimed
<1>10. Waiting' = Waiting
  BY <1>3, <1>9, Zenon DEF Waiting
<1>11. task[w] \notin Claimed \cup Range(posted)
  BY <1>1, Zenon DEF PlaceInv, Claimed
<1>12. Slotted' = Slotted \ {task[w]}
  BY <1>4, <1>9, <1>11, Zenon DEF Slotted
<1>13. IsFiniteSet(Slotted') /\ slots' = Cardinality(Slotted')
  <2>1. CASE MayBlock(task[w]) /\ task[w] # NoTask /\ slots' = IF slots > 0 THEN slots - 1 ELSE 0
    <3>1. task[w] \in Slotted
      BY <2>1, Zenon DEF Slotted, InHand
    <3>2. /\ IsFiniteSet(Slotted \ {task[w]}) /\ Cardinality(Slotted \ {task[w]}) = Cardinality(Slotted) - 1
          /\ Cardinality(Slotted \ {task[w]}) \in Nat
      BY <1>1, <3>1, FS_RemoveElement, FS_CardinalityType, Zenon DEF CountInv
    <3> QED BY <1>1, <1>12, <2>1, <3>2 DEF CountInv, QueueTypeOK
  <2>2. CASE ~MayBlock(task[w]) /\ slots' = slots
    BY <1>1, <1>12, <2>2, Zenon DEF CountInv, Slotted
  <2> QED BY <2>1, <2>2, Zenon
<1> QED BY <1>1, <1>7, <1>8, <1>10, <1>13, Zenon DEF ListInv, CountInv

\* Stop throws the wait list away.
LEMMA DiscardLists ==
  ASSUME QueueTypeOK, PcInv, ListInv, DiscardPending
  PROVE  ListInv'
<1>1. WaitInv /\ PlaceInv /\ CountInv
  BY Zenon DEF ListInv
<1>2. UNCHANGED <<kind, posted, slots, toStart, task>> /\ depth' = depth - Len(pending) /\ pending' = <<>>
  BY Zenon DEF DiscardPending, run_vars
<1>3. \A t \in Tasks : pc'[t] = pc[t]
  BY Moves, ProcsDistinct, Zenon DEF Procs, DiscardPending
<1>4. Fresh' = Fresh /\ {t \in Tasks : pc[t] = "push"}' = {t \in Tasks : pc[t] = "push"}
  BY <1>3, Zenon DEF Fresh
<1>5. \A t : MayBlock(t)' <=> MayBlock(t)
  BY <1>2, Zenon DEF MayBlock
<1>6. Range(pending') = {} /\ IsInjective(pending')
  BY <1>2 DEF Range, IsInjective
<1>7. WaitInv'
  BY <1>1, <1>4, <1>5, <1>6, Zenon DEF WaitInv
<1>8. PlaceInv'
  BY <1>1, <1>2, <1>4, <1>6, Zenon DEF PlaceInv
<1>9. Claimed' = Claimed /\ InHand' = InHand
  BY <1>2, Zenon DEF Claimed, InHand
<1>10. Slotted' = Slotted
  BY <1>2, <1>5, <1>9, Zenon DEF Slotted
<1>11. Waiting' = Waiting \ Range(pending) /\ Waiting \cap Range(pending) = Range(pending)
  BY <1>1, <1>2, <1>4, <1>6, <1>9 DEF Waiting, PlaceInv, Claimed, Fresh
<1>12. Cardinality(Waiting \cap Range(pending)) = Len(pending)
  <2>1. Cardinality(Range(pending)) = Len(pending)
    BY <1>1, CountOnce, Zenon DEF QueueTypeOK, PlaceInv
  <2> QED BY <1>11, <2>1, Zenon
<1>13. IsFiniteSet(Waiting') /\ depth' = Cardinality(Waiting')
  <2>1. IsFiniteSet(Waiting) /\ depth = Cardinality(Waiting)
    BY <1>1, Zenon DEF CountInv
  <2>2. /\ IsFiniteSet(Waiting \ Range(pending))
        /\ Cardinality(Waiting \ Range(pending)) = Cardinality(Waiting) - Cardinality(Waiting \cap Range(pending))
    BY <2>1, FS_Difference, Zenon
  <2>3. Cardinality(Waiting \ Range(pending)) = depth'
    BY <1>2, <1>12, <2>1, <2>2, Zenon
  <2> QED BY <1>11, <2>2, <2>3, Zenon
<1> QED BY <1>1, <1>2, <1>7, <1>8, <1>10, <1>13, Zenon DEF ListInv, CountInv

-----------------------------------------------------------------------------
(* The processes *)

\* A step of one process, as PcInv sees it.
LEMMA PcStep ==
  ASSUME QueueTypeOK, PcInv, NEW p \in Procs, NEW l \in Labels(p), Goto(p, l), kind' = kind,
         \A q \in Procs : q # p => toStart'[q] = toStart[q],
         \A w \in Threads : w # p => task'[w] = task[w],
         l = "post" <=> toStart'[p] # <<>>,
         p \in Threads => /\ l \in {"register", "work", "release"} <=> task'[p] # NoTask
                          /\ l = "release" => MayBlock(task'[p])
  PROVE  PcInv'
<1>1. pc'[p] = l /\ \A q \in Procs : q # p => pc'[q] = pc[q]
  BY Moves, Zenon
<1>2. \A q \in Procs : pc'[q] \in Labels(q)
  BY <1>1, Zenon DEF PcInv
<1>3. \A q \in Procs : pc'[q] = "post" <=> toStart'[q] # <<>>
  BY <1>1, Zenon DEF PcInv
<1>4. \A w \in Threads : pc'[w] \in {"register", "work", "release"} <=> task'[w] # NoTask
  BY <1>1, Zenon DEF PcInv, Procs
<1>5. \A w \in Threads : (pc[w] = "release" => MayBlock(task[w]))'
  BY <1>1, Zenon DEF PcInv, Procs, MayBlock
<1> QED BY <1>2, <1>3, <1>4, <1>5, Zenon DEF PcInv

\* Steps that touch neither to_start nor the task in hand.
LEMMA PcStays ==
  ASSUME QueueTypeOK, PcInv, NEW p \in Procs, NEW l \in Labels(p), Goto(p, l),
         UNCHANGED <<kind, toStart, task>>, pc[p] # "post", l # "post",
         p \in Threads => /\ l \in {"register", "work", "release"} <=> pc[p] \in {"register", "work", "release"}
                          /\ l = "release" => MayBlock(task[p])
  PROVE  PcInv'
<1>1. toStart[p] = <<>>
  BY Zenon DEF PcInv
<1>2. p \in Threads => (l \in {"register", "work", "release"} <=> task[p] # NoTask)
  BY Zenon DEF PcInv
<1> QED BY <1>1, <1>2, PcStep, Zenon

LEMMA PcKept ==
  ASSUME QueueTypeOK, PcInv, PlaceInv, StartInv, Next
  PROVE  PcInv'
<1>1. /\ \A t \in Tasks : t \in Procs /\ Labels(t) = {"new", "push", "dispatch", "post", "added", "refused"} /\ t \notin Threads
      /\ \A w \in Threads : w \in Procs /\ Labels(w) = {"absent", "run", "register", "work", "release", "dispatch", "post", "left"}
      /\ Control \in Procs /\ Control \notin Threads
      /\ Labels(Control) = {"created", "spawn", "dispatch", "post", "up", "discard", "join", "down"}
      /\ Health \in Procs /\ Health \notin Threads /\ Labels(Health) = {"idle", "dispatch", "post", "counts", "check"}
      /\ Admin \in Procs /\ Admin \notin Threads /\ Labels(Admin) = {"idle", "dispatch", "post"}
  BY ProcsDistinct, Zenon DEF Procs, Labels
<1> USE DEF run_vars
<1>2. ASSUME NEW p \in Procs, DispatchBlockingTasks(p)
      PROVE  PcInv'
  <2>1. /\ \A q \in Procs : q # p => toStart'[q] = toStart[q] /\ pc'[q] = pc[q]
        /\ pc'[p] = IF toStart'[p] = <<>> THEN AfterDispatch(p) ELSE "post"
        /\ pc[p] = "dispatch"
    BY <1>2, Dispatches, Zenon
  <2>2. PICK l : Goto(p, l)
    BY <1>2, Zenon DEF DispatchBlockingTasks
  <2>3. l = pc'[p]
    BY <2>2, Moves, Zenon
  <2>4. l \in Labels(p) /\ (l = "post" <=> toStart'[p] # <<>>) /\ l \notin {"register", "work", "release"}
    BY <2>1, <2>3, Returns, Zenon
  <2>5. kind' = kind /\ task' = task
    BY <1>2, Zenon DEF DispatchBlockingTasks
  <2>6. p \in Threads => task[p] = NoTask
    BY <2>1, Zenon DEF PcInv
  <2> QED BY <2>1, <2>2, <2>4, <2>5, <2>6, PcStep, Zenon
<1>3. ASSUME NEW p \in Procs, PostTask(p)
      PROVE  PcInv'
  <2>1. /\ \A q \in Procs : q # p => toStart'[q] = toStart[q] /\ pc'[q] = pc[q]
        /\ pc'[p] = IF toStart'[p] = <<>> THEN AfterDispatch(p) ELSE "post"
        /\ pc[p] = "post"
    BY <1>3, Posts, Zenon
  <2>2. PICK l : Goto(p, l)
    BY <1>3, Zenon DEF PostTask
  <2>3. l = pc'[p]
    BY <2>2, Moves, Zenon
  <2>4. l \in Labels(p) /\ (l = "post" <=> toStart'[p] # <<>>) /\ l \notin {"register", "work", "release"}
    BY <2>1, <2>3, Returns, Zenon
  <2>5. kind' = kind /\ task' = task
    BY <1>3, Zenon DEF PostTask
  <2>6. p \in Threads => task[p] = NoTask
    BY <2>1, Zenon DEF PcInv
  <2> QED BY <2>1, <2>2, <2>4, <2>5, <2>6, PcStep, Zenon
<1>4. ASSUME NEW t \in Tasks, AddTask(t)
      PROVE  PcInv'
  <2>1. kind' = kind /\ task' = task /\ pc[t] = "new"
    BY <1>4, Zenon DEF AddTask
  <2>2. CASE stopping \/ MayBlock(t)
    <3>1. UNCHANGED toStart /\ (Goto(t, "refused") \/ Goto(t, "push"))
      BY <1>4, <2>2, Zenon DEF AddTask
    <3> QED BY <1>1, <2>1, <3>1, PcStays, Zenon
  <2>3. CASE ~stopping /\ ~MayBlock(t)
    <3>1. Goto(t, "post") /\ toStart' = [toStart EXCEPT ![t] = <<t>>]
      BY <1>4, <2>3, Zenon DEF AddTask
    <3>2. toStart'[t] # <<>> /\ \A q \in Procs : q # t => toStart'[q] = toStart[q]
      BY <1>1, <3>1, Zenon DEF QueueTypeOK
    <3> QED BY <1>1, <2>1, <3>1, <3>2, PcStep
  <2> QED BY <2>2, <2>3, Zenon
<1>5. ASSUME NEW t \in Tasks, PushPending(t)
      PROVE  PcInv'
  BY <1>1, <1>5, PcStays, Zenon DEF PushPending
<1>6. ASSUME NEW t \in Tasks, Age(t)
      PROVE  PcInv'
  BY <1>6, Zenon DEF Age, PcInv, MayBlock
<1>7. ASSUME NEW w \in Threads, TakeHandler(w)
      PROVE  PcInv'
  <2>1. /\ task[w] = NoTask /\ task'[w] \in Tasks /\ \A v \in Threads : v # w => task'[v] = task[v]
        /\ pc[w] = "run"
    BY <1>7, Takes, Zenon
  <2>2. UNCHANGED <<kind, toStart>> /\ Goto(w, "register") /\ toStart[w] = <<>>
    BY <1>1, <1>7, <2>1, Zenon DEF TakeHandler, PcInv
  <2>3. task'[w] # NoTask
    BY <2>1, ProcsDistinct, Zenon
  <2> QED BY <1>1, <2>1, <2>2, <2>3, PcStep, Zenon
<1>8. ASSUME NEW w \in Threads, RegisterTask(w)
      PROVE  PcInv'
  BY <1>1, <1>8, PcStays, Zenon DEF RegisterTask
<1>9. ASSUME NEW w \in Threads, NEW l \in {"run", "dispatch"}, Goto(w, l),
             pc[w] \in {"work", "release"}, task' = [task EXCEPT ![w] = NoTask], UNCHANGED <<kind, toStart>>
      PROVE  PcInv'
  <2>1. task'[w] = NoTask /\ \A v \in Threads : v # w => task'[v] = task[v]
    BY <1>9, Zenon DEF QueueTypeOK
  <2>2. toStart[w] = <<>>
    BY <1>1, <1>9, Zenon DEF PcInv
  <2> QED BY <1>1, <1>9, <2>1, <2>2, PcStep, Zenon
<1>10. ASSUME NEW w \in Threads, FinishTask(w)
       PROVE  PcInv'
  <2>1. CASE MayBlock(task[w])
    BY <1>1, <1>10, <2>1, PcStays, Zenon DEF FinishTask
  <2>2. CASE ~MayBlock(task[w])
    BY <1>9, <1>10, <2>2, Zenon DEF FinishTask
  <2> QED BY <2>1, <2>2, Zenon
<1>11. ASSUME NEW w \in Threads, ReleaseSlot(w)
       PROVE  PcInv'
  BY <1>9, <1>11, Zenon DEF ReleaseSlot
<1>12. ASSUME NEW w \in Threads, LeaveQueue(w)
       PROVE  PcInv'
  BY <1>1, <1>12, PcStays, Zenon DEF LeaveQueue
<1>13. CASE SpawnThread
  <2>1. PICK w \in Threads : w \notin pool /\ Goto(w, "run")
    BY <1>13, Zenon DEF SpawnThread
  <2>2. pc[w] = "absent"
    BY <2>1, Zenon DEF StartInv
  <2> QED BY <1>1, <1>13, <2>1, <2>2, PcStays, Zenon DEF SpawnThread
<1>14. CASE Start \/ CountThreads \/ Stop \/ DiscardPending \/ StopReturns
  BY <1>1, <1>14, PcStays, Zenon DEF Start, CountThreads, Stop, DiscardPending, StopReturns
<1>15. ASSUME NEW w \in Threads, JoinWorker(w)
       PROVE  PcInv'
  BY <1>1, <1>15, PcStays, Zenon DEF JoinWorker
<1>16. CASE ChangeMax \/ ReportStalledTasks \/ ReadCounts \/ CheckRunning
  BY <1>1, <1>16, PcStays, Zenon DEF ChangeMax, ReportStalledTasks, ReadCounts, CheckRunning
<1> QED BY <1>1, <1>2, <1>3, <1>4, <1>5, <1>6, <1>7, <1>8, <1>10, <1>11, <1>12, <1>13, <1>14, <1>15, <1>16, Zenon
     DEF Next, Caller, Worker, Proceed, Starting, Stopping, Administrator, HealthTask

\* The threads at work stay there, and nothing else is registered.
LEMMA RunStays ==
  ASSUME RunInv, running' = running,
         \A w \in Threads : pc[w] = "work" \/ pc'[w] = "work" => pc'[w] = pc[w] /\ task'[w] = task[w]
  PROVE  RunInv'
BY Zenon DEF RunInv

LEMMA RunKept ==
  ASSUME QueueTypeOK, PcInv, RunInv, PlaceInv, StartInv, Next
  PROVE  RunInv'
<1>1. Threads \subseteq Procs /\ Tasks \subseteq Procs /\ {Control, Health, Admin} \subseteq Procs
  BY Zenon DEF Procs
<1>2. ASSUME NEW p \in Procs, DispatchBlockingTasks(p) \/ PostTask(p)
      PROVE  RunInv'
  <2>1. pc[p] # "work" /\ pc'[p] # "work" /\ \A q \in Procs : q # p => pc'[q] = pc[q]
    <3>1. CASE DispatchBlockingTasks(p)
      BY <3>1, Dispatches, Returns, Zenon
    <3>2. CASE PostTask(p)
      BY <3>2, Posts, Returns, Zenon
    <3> QED BY <1>2, <3>1, <3>2, Zenon
  <2>2. running' = running /\ task' = task
    BY <1>2, Zenon DEF DispatchBlockingTasks, PostTask, run_vars
  <2> QED BY <1>1, <2>1, <2>2, RunStays, Zenon
<1>3. ASSUME NEW p \in Procs, NEW l, Goto(p, l), p \in Threads => pc[p] # "work" /\ l # "work",
             running' = running, \A w \in Threads : pc[w] = "work" => task'[w] = task[w]
      PROVE  RunInv'
  <2>1. pc'[p] = l /\ \A q \in Procs : q # p => pc'[q] = pc[q]
    BY <1>3, Moves, Zenon
  <2> QED BY <1>1, <1>3, <2>1, RunStays, Zenon
<1>4. ASSUME NEW t \in Tasks, AddTask(t) \/ PushPending(t)
      PROVE  RunInv'
  <2>1. \E l \in {"refused", "push", "post", "dispatch"} : Goto(t, l)
    BY <1>4, Zenon DEF AddTask, PushPending
  <2>2. running' = running /\ task' = task /\ t \notin Threads
    BY <1>4, ProcsDistinct, Zenon DEF AddTask, PushPending, run_vars
  <2> QED BY <1>1, <1>3, <2>1, <2>2, Zenon
<1>5. ASSUME NEW t \in Tasks, Age(t)
      PROVE  RunInv'
  BY <1>5, Zenon DEF Age, RunInv
<1>6. ASSUME NEW w \in Threads, TakeHandler(w)
      PROVE  RunInv'
  <2>1. pc[w] = "run" /\ Goto(w, "register") /\ running' = running /\ task' = [task EXCEPT ![w] = Head(posted)]
    BY <1>6, Zenon DEF TakeHandler
  <2>2. \A v \in Threads : pc[v] = "work" => task'[v] = task[v]
    BY <2>1, Zenon DEF QueueTypeOK
  <2> QED BY <1>1, <1>3, <2>1, <2>2, Zenon
<1>7. ASSUME NEW w \in Threads, RegisterTask(w)
      PROVE  RunInv'
  <2>1. running' = running \cup {task[w]} /\ task' = task
    BY <1>7, Zenon DEF RegisterTask
  <2>2. pc'[w] = "work" /\ \A q \in Procs : q # w => pc'[q] = pc[q]
    BY <1>1, <1>7, Moves, Zenon DEF RegisterTask
  <2>3. {v \in Threads : pc'[v] = "work"} = {v \in Threads : pc[v] = "work"} \cup {w}
    BY <1>1, <2>2, Zenon
  <2> QED BY <2>1, <2>3, Zenon DEF RunInv
<1>8. ASSUME NEW w \in Threads, FinishTask(w)
      PROVE  RunInv'
  <2>1. running' = running \ {task[w]} /\ pc[w] = "work" /\ \A v \in Threads : v # w => task'[v] = task[v]
    BY <1>8, Zenon DEF FinishTask, QueueTypeOK
  <2>2. \E l \in {"release", "run"} : Goto(w, l)
    BY <1>8, Zenon DEF FinishTask
  <2>3. pc'[w] # "work" /\ \A q \in Procs : q # w => pc'[q] = pc[q]
    BY <1>1, <2>2, Moves, Zenon
  <2>4. \A v \in Threads : v # w /\ pc[v] = "work" => task[v] # task[w]
    BY <2>1, Zenon DEF PlaceInv, PcInv
  <2>5. {v \in Threads : pc'[v] = "work"} = {v \in Threads : pc[v] = "work"} \ {w}
    BY <1>1, <2>3, Zenon
  <2> QED BY <2>1, <2>4, <2>5 DEF RunInv
<1>9. ASSUME NEW w \in Threads, ReleaseSlot(w)
      PROVE  RunInv'
  <2>1. pc[w] = "release" /\ Goto(w, "dispatch") /\ running' = running /\ task' = [task EXCEPT ![w] = NoTask]
    BY <1>9, Zenon DEF ReleaseSlot
  <2>2. \A v \in Threads : pc[v] = "work" => task'[v] = task[v]
    BY <2>1, Zenon DEF QueueTypeOK
  <2> QED BY <1>1, <1>3, <2>1, <2>2, Zenon
<1>10. ASSUME NEW w \in Threads, LeaveQueue(w) \/ JoinWorker(w)
       PROVE  RunInv'
  <2>1. pc[w] \in {"run", "left"} /\ (\E l \in {"left", "absent"} : Goto(w, l)) /\ running' = running /\ task' = task
    BY <1>10, Zenon DEF LeaveQueue, JoinWorker, run_vars
  <2> QED BY <1>1, <1>3, <2>1, Zenon
<1>11. CASE SpawnThread
  <2>1. PICK w \in Threads : w \notin pool /\ Goto(w, "run")
    BY <1>11, Zenon DEF SpawnThread
  <2>2. pc[w] = "absent"
    BY <2>1, Zenon DEF StartInv
  <2>3. running' = running /\ task' = task
    BY <1>11, Zenon DEF SpawnThread, run_vars
  <2> QED BY <1>1, <1>3, <2>1, <2>2, <2>3, Zenon
<1>12. CASE Start \/ CountThreads \/ Stop \/ DiscardPending \/ StopReturns
  <2>1. (\E l : Goto(Control, l)) /\ running' = running /\ task' = task /\ Control \notin Threads
    BY <1>12, ProcsDistinct, Zenon DEF Start, CountThreads, Stop, DiscardPending, StopReturns, run_vars
  <2> QED BY <1>1, <1>3, <2>1, Zenon
<1>13. CASE ChangeMax \/ ReportStalledTasks \/ ReadCounts \/ CheckRunning
  <2>1. /\ \E p \in {Admin, Health}, l \in {"dispatch", "idle", "check"} : Goto(p, l)
        /\ running' = running /\ task' = task /\ Admin \notin Threads /\ Health \notin Threads
    BY <1>13, ProcsDistinct, Zenon DEF ChangeMax, ReportStalledTasks, ReadCounts, CheckRunning, run_vars
  <2> QED BY <1>1, <1>3, <2>1, Zenon
<1> QED BY <1>1, <1>2, <1>4, <1>5, <1>6, <1>7, <1>8, <1>9, <1>10, <1>11, <1>12, <1>13, Zenon
     DEF Next, Caller, Worker, Proceed, Starting, Stopping, Administrator, HealthTask

\* Together: the lists after any step.
LEMMA ListsKept ==
  ASSUME QueueTypeOK, PcInv, ListInv, StartInv, Next
  PROVE  ListInv'
<1>1. Threads \subseteq Procs /\ Tasks \subseteq Procs /\ {Control, Health, Admin} \subseteq Procs
  BY Zenon DEF Procs
<1>2. ASSUME NEW p \in Procs \ Tasks, NEW l, Goto(p, l), UNCHANGED <<kind, task_vars, toStart, task>>
      PROVE  ListInv'
  <2>1. \A t \in Tasks : pc'[t] = pc[t]
    BY <1>1, <1>2, Moves, Zenon
  <2> QED BY <1>2, <2>1, ListsStay, Zenon
<1>3. ASSUME NEW t \in Tasks, Age(t)
      PROVE  ListInv'
  BY <1>3, ListsStay, Zenon DEF Age
<1>4. ASSUME NEW w \in Threads, RegisterTask(w) \/ LeaveQueue(w) \/ JoinWorker(w)
      PROVE  ListInv'
  <2>1. /\ \E l \in {"work", "left", "absent"} : Goto(w, l)
        /\ UNCHANGED <<kind, task_vars, toStart, task>> /\ w \notin Tasks
    BY <1>4, ProcsDistinct, Zenon DEF RegisterTask, LeaveQueue, JoinWorker, run_vars
  <2> QED BY <1>1, <1>2, <2>1, Zenon
<1>5. ASSUME NEW w \in Threads, FinishTask(w)
      PROVE  ListInv'
  <2>1. CASE MayBlock(task[w])
    <3>1. Goto(w, "release") /\ UNCHANGED <<kind, task_vars, toStart, task>> /\ w \notin Tasks
      BY <1>5, <2>1, ProcsDistinct, Zenon DEF FinishTask
    <3> QED BY <1>1, <1>2, <3>1, Zenon
  <2>2. CASE ~MayBlock(task[w])
    <3>1. /\ Goto(w, "run") /\ task' = [task EXCEPT ![w] = NoTask]
          /\ UNCHANGED <<kind, pending, posted, depth, toStart>> /\ slots' = slots
      BY <1>5, <2>2, Zenon DEF FinishTask, task_vars
    <3> QED BY <2>2, <3>1, DropLists, Zenon
  <2> QED BY <2>1, <2>2, Zenon
<1>6. ASSUME NEW w \in Threads, ReleaseSlot(w)
      PROVE  ListInv'
  <2>1. MayBlock(task[w]) /\ task[w] # NoTask
    BY <1>6, Zenon DEF ReleaseSlot, PcInv
  <2>2. /\ Goto(w, "dispatch") /\ task' = [task EXCEPT ![w] = NoTask]
        /\ UNCHANGED <<kind, pending, posted, depth, toStart>>
        /\ slots' = IF slots > 0 THEN slots - 1 ELSE 0
    BY <1>6, Zenon DEF ReleaseSlot
  <2> QED BY <2>1, <2>2, DropLists, Zenon
<1>7. CASE SpawnThread
  <2>1. PICK w \in Threads : Goto(w, "run")
    BY <1>7, Zenon DEF SpawnThread
  <2>2. UNCHANGED <<kind, task_vars, toStart, task>> /\ w \notin Tasks
    BY <1>7, ProcsDistinct, Zenon DEF SpawnThread, run_vars
  <2> QED BY <1>1, <1>2, <2>1, <2>2, Zenon
<1>8. CASE Start \/ CountThreads \/ Stop \/ StopReturns
  <2>1. (\E l : Goto(Control, l)) /\ UNCHANGED <<kind, task_vars, toStart, task>> /\ Control \notin Tasks
    BY <1>8, ProcsDistinct, Zenon DEF Start, CountThreads, Stop, StopReturns, run_vars
  <2> QED BY <1>1, <1>2, <2>1, Zenon
<1>9. CASE ChangeMax \/ ReportStalledTasks \/ ReadCounts \/ CheckRunning
  <2>1. /\ \E p \in {Admin, Health}, l \in {"dispatch", "idle", "check"} : Goto(p, l)
        /\ UNCHANGED <<kind, task_vars, toStart, task>> /\ Admin \notin Tasks /\ Health \notin Tasks
    BY <1>9, ProcsDistinct, Zenon DEF ChangeMax, ReportStalledTasks, ReadCounts, CheckRunning, run_vars
  <2> QED BY <1>1, <1>2, <2>1, Zenon
<1> QED BY <1>1, <1>3, <1>4, <1>5, <1>6, <1>7, <1>8, <1>9, DispatchLists, PostLists, AddLists, PushLists, TakeLists, DiscardLists, Zenon
     DEF Next, Caller, Worker, Proceed, Starting, Stopping, Administrator, HealthTask

-----------------------------------------------------------------------------
(* The pool *)

\* Steps that neither start nor end a thread, and leave Start and Stop where
\* they are.
LEMMA PoolStays ==
  ASSUME StartInv, HealthInv, UNCHANGED <<kind, count, live, pool, starts, seen>>,
         \A w \in Threads : /\ pc'[w] = "absent" <=> pc[w] = "absent"
                            /\ pc'[w] = "left" <=> pc[w] = "left",
         \/ pc'[Control] = pc[Control]
         \/ {pc[Control], pc'[Control]} \subseteq {"dispatch", "post", "up"}
         \/ {pc[Control], pc'[Control]} \subseteq {"discard", "join", "down"},
         pc'[Health] # "idle" => pc[Health] # "idle",
         pc'[Health] = "check" => pc[Health] = "check"
  PROVE  StartInv' /\ HealthInv'
<1>1. Alive' = Alive /\ {w \in Threads : pc[w] # "absent"}' = {w \in Threads : pc[w] # "absent"}
  BY Zenon DEF Alive
<1>2. StartInv'
  BY <1>1, Zenon DEF StartInv
<1>3. HealthInv'
  BY Zenon DEF HealthInv
<1> QED BY <1>2, <1>3, Zenon

\* In particular a step of a process that is none of these.
LEMMA OthersStay ==
  ASSUME QueueTypeOK, StartInv, HealthInv, NEW p \in Procs \ {Control, Health}, NEW l, Goto(p, l),
         UNCHANGED <<kind, count, live, pool, starts, seen>>,
         p \in Threads => {pc[p], l} \cap {"absent", "left"} = {}
  PROVE  StartInv' /\ HealthInv'
<1>1. pc'[p] = l /\ \A q \in Procs : q # p => pc'[q] = pc[q]
  BY Moves, Zenon
<1>2. Threads \subseteq Procs /\ Control \in Procs /\ Health \in Procs
  BY Zenon DEF Procs
<1>3. \A w \in Threads : /\ pc'[w] = "absent" <=> pc[w] = "absent"
                         /\ pc'[w] = "left" <=> pc[w] = "left"
  BY <1>1, <1>2, Zenon
<1> QED BY <1>1, <1>2, <1>3, PoolStays, Zenon

\* The limit depends on the pool only.
LEMMA SameLimit ==
  ASSUME UNCHANGED <<count, max>>
  PROVE  GetBlockingLimit' = GetBlockingLimit
BY Zenon DEF GetBlockingLimit

\* What is left for DispatchBlockingTasks_.
Pumped == StartInv /\ EarlyInv /\ HealthInv /\ LimitInv /\ ParkInv

LEMMA DispatchPumped ==
  ASSUME QueueTypeOK, PcInv, PlaceInv, Pumped, NEW p \in Procs, DispatchBlockingTasks(p)
  PROVE  Pumped'
<1>1. StartInv /\ EarlyInv /\ HealthInv /\ LimitInv
  BY Zenon DEF Pumped
<1>2. UNCHANGED <<kind, max, count, live, pool, starts, seen>>
  BY Zenon DEF DispatchBlockingTasks, pool_vars, health_vars, start_vars
<1>3. /\ pc[p] = "dispatch" /\ \A q \in Procs : q # p => pc'[q] = pc[q]
      /\ pc'[p] = IF toStart'[p] = <<>> THEN AfterDispatch(p) ELSE "post"
      /\ slots' = slots + Len(toStart'[p])
      /\ pending' = <<>> \/ slots' >= GetBlockingLimit
      /\ toStart'[p] = <<>> \/ slots' <= GetBlockingLimit
      /\ pending = <<>> => pending' = <<>> /\ toStart'[p] = <<>>
  BY Dispatches, Zenon
<1>4. /\ pc'[p] \notin {"absent", "left", "created", "spawn", "discard", "join", "down", "check"}
      /\ p = Control => pc'[p] \in {"up", "post"}
  BY <1>3, Returns, Zenon
<1>5. Threads \subseteq Procs /\ Tasks \subseteq Procs /\ Control \in Procs /\ Health \in Procs
  BY Zenon DEF Procs
<1>6. StartInv' /\ HealthInv'
  <2>1. \A w \in Threads : /\ pc'[w] = "absent" <=> pc[w] = "absent"
                           /\ pc'[w] = "left" <=> pc[w] = "left"
    BY <1>3, <1>4, <1>5, Zenon
  <2>2. \/ pc'[Control] = pc[Control]
        \/ {pc[Control], pc'[Control]} \subseteq {"dispatch", "post", "up"}
    BY <1>3, <1>4, <1>5, Zenon
  <2>3. /\ pc'[Health] # "idle" => pc[Health] # "idle"
        /\ pc'[Health] = "check" => pc[Health] = "check"
    BY <1>3, <1>4, <1>5, Zenon
  <2> QED BY <1>1, <1>2, <2>1, <2>2, <2>3, PoolStays, Zenon
<1>7. toStart'[p] = <<>> => slots' = slots
  BY <1>3 DEF QueueTypeOK
<1>8. EarlyInv'
  <2>1. SUFFICES ASSUME kind = "async", pc'[Control] \in {"created", "spawn"}
                 PROVE  pending' = <<>> /\ slots' = 0 /\ \A t \in Tasks : pc'[t] = "new"
    BY <1>2, Zenon DEF EarlyInv
  <2>2. pc[Control] \in {"created", "spawn"}
    BY <1>3, <1>4, <1>5, <2>1, Zenon
  <2>3. pending = <<>> /\ slots = 0 /\ \A t \in Tasks : pc[t] = "new"
    BY <1>1, <2>1, <2>2, Zenon DEF EarlyInv
  <2> QED BY <1>3, <1>5, <1>7, <2>3, Zenon
<1>9. GetBlockingLimit' = GetBlockingLimit
  BY <1>2, SameLimit, Zenon
<1>10. LimitInv'
  BY <1>1, <1>2, <1>3, <1>7, <1>9, Zenon DEF LimitInv
<1>11. ParkInv'
  BY <1>3, <1>9, Zenon DEF ParkInv
<1> QED BY <1>6, <1>8, <1>10, <1>11, Zenon DEF Pumped

\* Steps after which the wait list and the slots are as they were, or somebody
\* is on the way to the wait list.
LEMMA PumpedStays ==
  ASSUME QueueTypeOK, Pumped, StartInv', HealthInv', UNCHANGED <<kind, count>>,
         slots' \in Nat, slots' <= slots,
         (kind = "async" /\ pc'[Control] \in {"created", "spawn"}) =>
           pc[Control] \in {"created", "spawn"} /\ pending' = pending /\ \A t \in Tasks : pc'[t] = pc[t],
         \/ \E p \in Procs : pc'[p] = "dispatch"
         \/ /\ pending' = pending /\ slots' = slots /\ max' = max
            /\ pc'[Control] \in {"dispatch", "post", "up"} => pc[Control] \in {"dispatch", "post", "up"}
            /\ \A p \in Procs : pc[p] = "dispatch" => pc'[p] = "dispatch"
  PROVE  Pumped'
<1>1. EarlyInv /\ LimitInv /\ ParkInv
  BY Zenon DEF Pumped
<1>2. EarlyInv'
  BY <1>1 DEF EarlyInv, QueueTypeOK
<1>3. LimitInv'
  <2>1. count > 0 => GetBlockingLimit' = GetBlockingLimit
    BY DEF GetBlockingLimit
  <2>2. GetBlockingLimit \in Nat
    BY LimitType, Zenon
  <2> QED BY <1>1, <2>1, <2>2 DEF LimitInv, QueueTypeOK
<1>4. ParkInv'
  <2>1. CASE \E p \in Procs : pc'[p] = "dispatch"
    BY <2>1, Zenon DEF ParkInv
  <2>2. CASE /\ pending' = pending /\ slots' = slots /\ max' = max
             /\ pc'[Control] \in {"dispatch", "post", "up"} => pc[Control] \in {"dispatch", "post", "up"}
             /\ \A p \in Procs : pc[p] = "dispatch" => pc'[p] = "dispatch"
    <3>1. GetBlockingLimit' = GetBlockingLimit
      BY <2>2, SameLimit, Zenon
    <3> QED BY <1>1, <2>2, <3>1, Zenon DEF ParkInv
  <2> QED BY <2>1, <2>2, Zenon
<1> QED BY <1>2, <1>3, <1>4, Zenon DEF Pumped

LEMMA CallersPumped ==
  ASSUME QueueTypeOK, PcInv, PlaceInv, Pumped, NEW t \in Tasks, Caller(t)
  PROVE  Pumped'
<1>1. StartInv /\ HealthInv /\ EarlyInv /\ t \in Procs \ {Control, Health} /\ t \notin Threads
  BY ProcsDistinct, Zenon DEF Pumped, Procs
<1>2. CASE AddTask(t) \/ PushPending(t) \/ PostTask(t)
  <2>1. UNCHANGED <<kind, max, count, live, pool, starts, seen, slots>>
    BY <1>2, Zenon DEF AddTask, PushPending, PostTask, pool_vars, health_vars, start_vars
  <2>2. PICK l : Goto(t, l)
    BY <1>2, Zenon DEF AddTask, PushPending, PostTask
  <2>3. StartInv' /\ HealthInv'
    BY <1>1, <2>1, <2>2, OthersStay, Zenon
  <2>4. pc[t] # "dispatch" /\ pc'[t] = l /\ \A q \in Procs : q # t => pc'[q] = pc[q]
    BY <1>1, <1>2, <2>2, Moves, Zenon DEF AddTask, PushPending, PostTask
  <2>5. ~(kind = "async" /\ pc'[Control] \in {"created", "spawn"})
    <3>1. SUFFICES ASSUME kind = "async", pc[Control] \in {"created", "spawn"}
                   PROVE  FALSE
      BY <1>1, <2>4, Zenon DEF Procs
    <3>2. pc[t] = "new"
      BY <1>1, <3>1, Zenon DEF EarlyInv
    <3>3. Published
      BY <1>2, <3>2, Zenon DEF AddTask, PushPending, PostTask
    <3> QED BY <1>1, <3>1, <3>3 DEF Published, StartInv, QueueTypeOK
  <2>6. CASE PushPending(t)
    <3>1. pc'[t] = "dispatch"
      BY <1>1, <2>6, Moves, Zenon DEF PushPending
    <3> QED BY <1>1, <2>1, <2>3, <2>5, <3>1, PumpedStays DEF QueueTypeOK
  <2>7. CASE AddTask(t) \/ PostTask(t)
    <3>1. pending' = pending
      BY <2>7, Zenon DEF AddTask, PostTask
    <3>2. \A p \in Procs : pc[p] = "dispatch" => pc'[p] = "dispatch"
      BY <2>4, Zenon
    <3>3. pc'[Control] = pc[Control]
      BY <1>1, <2>4, Zenon DEF Procs
    <3> QED BY <2>1, <2>3, <2>5, <3>1, <3>2, <3>3, PumpedStays DEF QueueTypeOK
  <2> QED BY <1>2, <2>6, <2>7, Zenon
<1> QED BY <1>1, <1>2, DispatchPumped, Zenon DEF Caller

\* PostTask_ by a process that is no caller.
LEMMA PostPumped ==
  ASSUME QueueTypeOK, PcInv, PlaceInv, Pumped, NEW p \in Procs \ Tasks, PostTask(p)
  PROVE  Pumped'
<1>1. StartInv /\ HealthInv /\ Threads \subseteq Procs /\ Tasks \subseteq Procs /\ Control \in Procs /\ Health \in Procs
  BY Zenon DEF Pumped, Procs
<1>2. UNCHANGED <<kind, max, count, live, pool, starts, seen, slots, pending>>
  BY Zenon DEF PostTask, pool_vars, health_vars, start_vars
<1>3. /\ pc[p] = "post" /\ \A q \in Procs : q # p => pc'[q] = pc[q]
      /\ pc'[p] = IF toStart'[p] = <<>> THEN AfterDispatch(p) ELSE "post"
  BY Posts, Zenon
<1>4. /\ pc'[p] \notin {"absent", "left", "created", "spawn", "discard", "join", "down", "check"}
      /\ p = Control => pc'[p] \in {"up", "post"}
  BY <1>3, Returns, Zenon
<1>5. \A w \in Threads : /\ pc'[w] = "absent" <=> pc[w] = "absent"
                         /\ pc'[w] = "left" <=> pc[w] = "left"
  BY <1>1, <1>3, <1>4, Zenon
<1>6. \/ pc'[Control] = pc[Control]
      \/ {pc[Control], pc'[Control]} \subseteq {"dispatch", "post", "up"}
  BY <1>1, <1>3, <1>4, Zenon
<1>7. /\ pc'[Health] # "idle" => pc[Health] # "idle"
      /\ pc'[Health] = "check" => pc[Health] = "check"
  BY <1>1, <1>3, <1>4, Zenon
<1>8. StartInv' /\ HealthInv'
  BY <1>1, <1>2, <1>5, <1>6, <1>7, PoolStays, Zenon
<1>9. \A t \in Tasks : pc'[t] = pc[t]
  BY <1>1, <1>3, Zenon
<1>10. \A q \in Procs : pc[q] = "dispatch" => pc'[q] = "dispatch"
  BY <1>3, Zenon
<1>11. pc'[Control] \in {"created", "spawn"} => pc[Control] \in {"created", "spawn"}
  BY <1>6, Zenon
<1>12. pc'[Control] \in {"dispatch", "post", "up"} => pc[Control] \in {"dispatch", "post", "up"}
  BY <1>6, Zenon
<1> QED BY <1>2, <1>8, <1>9, <1>10, <1>11, <1>12, PumpedStays DEF QueueTypeOK

LEMMA ThreadsPumped ==
  ASSUME QueueTypeOK, PcInv, PlaceInv, Pumped, NEW w \in Threads, Worker(w)
  PROVE  Pumped'
<1>1. StartInv /\ HealthInv /\ w \in Procs \ {Control, Health} /\ w \notin Tasks /\ Tasks \subseteq Procs /\ Control \in Procs
  BY ProcsDistinct, Zenon DEF Pumped, Procs
<1>2. CASE TakeHandler(w) \/ RegisterTask(w) \/ FinishTask(w)
  <2>1. UNCHANGED <<kind, max, count, live, pool, starts, seen, slots, pending>>
    BY <1>2, Zenon DEF TakeHandler, RegisterTask, FinishTask, task_vars, pool_vars, health_vars, start_vars
  <2>2. PICK l \in {"register", "work", "release", "run"} : Goto(w, l)
    BY <1>2, Zenon DEF TakeHandler, RegisterTask, FinishTask
  <2>3. pc[w] \notin {"absent", "left", "dispatch"}
    BY <1>2, Zenon DEF TakeHandler, RegisterTask, FinishTask
  <2>4. StartInv' /\ HealthInv'
    BY <1>1, <2>1, <2>2, <2>3, OthersStay, Zenon
  <2>5. \A q \in Procs : q # w => pc'[q] = pc[q]
    BY <1>1, <2>2, Moves, Zenon
  <2>6. pc'[Control] = pc[Control] /\ \A t \in Tasks : pc'[t] = pc[t]
    BY <1>1, <2>5, Zenon
  <2>7. \A q \in Procs : pc[q] = "dispatch" => pc'[q] = "dispatch"
    BY <2>3, <2>5, Zenon
  <2> QED BY <2>1, <2>4, <2>6, <2>7, PumpedStays DEF QueueTypeOK
<1>3. CASE ReleaseSlot(w)
  <2>1. /\ UNCHANGED <<kind, max, count, live, pool, starts, seen, pending>> /\ pc[w] = "release"
        /\ Goto(w, "dispatch") /\ slots' = IF slots > 0 THEN slots - 1 ELSE 0
    BY <1>3, Zenon DEF ReleaseSlot, pool_vars, health_vars, start_vars
  <2>2. StartInv' /\ HealthInv'
    BY <1>1, <2>1, OthersStay, Zenon
  <2>3. pc'[w] = "dispatch" /\ \A q \in Procs : q # w => pc'[q] = pc[q]
    BY <1>1, <2>1, Moves, Zenon
  <2>4. pc'[Control] = pc[Control] /\ \A t \in Tasks : pc'[t] = pc[t]
    BY <1>1, <2>3, Zenon
  <2>5. slots' \in Nat /\ slots' <= slots
    BY <2>1 DEF QueueTypeOK
  <2> QED BY <1>1, <2>1, <2>2, <2>3, <2>4, <2>5, PumpedStays, Zenon
<1>4. CASE LeaveQueue(w)
  <2>1. /\ UNCHANGED <<kind, max, count, pool, starts, seen, pending, slots>> /\ pc[w] = "run"
        /\ Goto(w, "left") /\ live' = live - 1
    BY <1>4, Zenon DEF LeaveQueue, task_vars, health_vars, start_vars
  <2>2. pc'[w] = "left" /\ \A q \in Procs : q # w => pc'[q] = pc[q]
    BY <1>1, <2>1, Moves, Zenon
  <2>3. Alive' = Alive \ {w} /\ w \in Alive
    BY <2>1, <2>2, Zenon DEF Alive, Procs
  <2>4. Alive \subseteq pool /\ IsFiniteSet(pool) /\ live = Cardinality(Alive)
    BY <1>1, Zenon DEF StartInv, Alive
  <2>5. IsFiniteSet(Alive)
    BY <2>4, FS_Subset, Zenon
  <2>6. live' = Cardinality(Alive')
    BY <2>1, <2>3, <2>4, <2>5, FS_RemoveElement, Zenon
  <2>7. {v \in Threads : pc'[v] # "absent"} = {v \in Threads : pc[v] # "absent"}
    BY <2>1, <2>2, Zenon DEF Procs
  <2>8. pc'[Control] = pc[Control] /\ pc'[Health] = pc[Health] /\ \A t \in Tasks : pc'[t] = pc[t]
    BY <1>1, <2>2, Zenon DEF Procs
  <2>9. StartInv'
    BY <1>1, <2>1, <2>6, <2>7, <2>8, Zenon DEF StartInv
  <2>10. HealthInv'
    BY <1>1, <2>1, <2>8 DEF HealthInv, QueueTypeOK
  <2>11. \A q \in Procs : pc[q] = "dispatch" => pc'[q] = "dispatch"
    BY <2>1, <2>2, Zenon
  <2> QED BY <2>1, <2>8, <2>9, <2>10, <2>11, PumpedStays DEF QueueTypeOK
<1> QED BY <1>1, <1>2, <1>3, <1>4, DispatchPumped, PostPumped, Zenon DEF Worker, Proceed

\* Where the thread that starts and stops the queue goes is seen by nobody else.
LEMMA ControlMoves ==
  ASSUME QueueTypeOK, NEW l, Goto(Control, l)
  PROVE  /\ pc'[Control] = l /\ pc'[Health] = pc[Health]
         /\ \A t \in Tasks : pc'[t] = pc[t]
         /\ \A w \in Threads : pc'[w] = pc[w]
         /\ Alive' = Alive
         /\ {w \in Threads : pc'[w] # "absent"} = {w \in Threads : pc[w] # "absent"}
<1>1. pc'[Control] = l /\ \A q \in Procs : q # Control => pc'[q] = pc[q]
  BY Moves, Zenon DEF Procs
<1>2. /\ pc'[Health] = pc[Health] /\ \A t \in Tasks : pc'[t] = pc[t]
      /\ \A w \in Threads : pc'[w] = pc[w]
  BY <1>1, ProcsDistinct, Zenon DEF Procs
<1> QED BY <1>1, <1>2, Zenon DEF Alive

LEMMA StartPumped ==
  ASSUME QueueTypeOK, Pumped, Start
  PROVE  Pumped'
<1>1. StartInv /\ HealthInv /\ EarlyInv /\ LimitInv
  BY Zenon DEF Pumped
<1>2. UNCHANGED <<kind, max, count, live, pool, pending, slots, seen>> /\ starts' = starts + 1
  BY Zenon DEF Start, task_vars, health_vars
<1>3. /\ pc'[Control] = "spawn" /\ pc'[Health] = pc[Health] /\ \A t \in Tasks : pc'[t] = pc[t]
      /\ Alive' = Alive /\ {w \in Threads : pc'[w] # "absent"} = {w \in Threads : pc[w] # "absent"}
  BY ControlMoves, Zenon DEF Start
<1>4. pc[Control] = "created" \/ (pc[Control] = "down" /\ kind = "delivery")
  BY Zenon DEF Start
<1>5. StartInv'
  BY <1>1, <1>2, <1>3, <1>4 DEF StartInv, QueueTypeOK
<1>6. EarlyInv'
  BY <1>1, <1>2, <1>3, <1>4, Zenon DEF EarlyInv
<1>7. HealthInv'
  BY <1>1, <1>2, <1>3, <1>4, Zenon DEF HealthInv
<1>8. LimitInv'
  BY <1>1, <1>2, SameLimit, Zenon DEF LimitInv
<1>9. ParkInv'
  BY <1>3, Zenon DEF ParkInv
<1> QED BY <1>5, <1>6, <1>7, <1>8, <1>9, Zenon DEF Pumped

LEMMA SpawnPumped ==
  ASSUME QueueTypeOK, Pumped, SpawnThread
  PROVE  Pumped'
<1>1. StartInv /\ HealthInv /\ EarlyInv /\ LimitInv
  BY Zenon DEF Pumped
<1>2. /\ UNCHANGED <<kind, max, count, starts, pending, slots, seen>> /\ live' = live + 1
      /\ pc[Control] = "spawn"
  BY Zenon DEF SpawnThread, task_vars, health_vars
<1>3. PICK w \in Threads : w \notin pool /\ pool' = pool \cup {w} /\ Goto(w, "run")
  BY Zenon DEF SpawnThread
<1>4. w \in Procs /\ w # Control /\ w # Health /\ w \notin Tasks
  BY ProcsDistinct, Zenon DEF Procs
<1>5. pc'[w] = "run" /\ \A q \in Procs : q # w => pc'[q] = pc[q]
  BY <1>3, <1>4, Moves, Zenon
<1>6. pc[w] = "absent"
  BY <1>1, <1>3, Zenon DEF StartInv
<1>7. pc'[Control] = "spawn" /\ pc'[Health] = pc[Health] /\ \A t \in Tasks : pc'[t] = pc[t]
  BY <1>2, <1>4, <1>5, Zenon DEF Procs
<1>8. Alive' = Alive \cup {w} /\ w \notin Alive
  BY <1>5, <1>6, Zenon DEF Alive, Procs
<1>9. {v \in Threads : pc'[v] # "absent"} = {v \in Threads : pc[v] # "absent"} \cup {w}
  BY <1>5, Zenon DEF Procs
<1>10. IsFiniteSet(pool) /\ IsFiniteSet(Alive) /\ live = Cardinality(Alive)
  <2>1. Alive \subseteq pool /\ IsFiniteSet(pool) /\ live = Cardinality(Alive)
    BY <1>1, Zenon DEF StartInv, Alive
  <2> QED BY <2>1, FS_Subset, Zenon
<1>11. live' = Cardinality(Alive') /\ IsFiniteSet(pool')
  BY <1>2, <1>3, <1>8, <1>10, FS_AddElement, Zenon
<1>12. StartInv'
  <2>1. pool' = {v \in Threads : pc'[v] # "absent"}
    BY <1>1, <1>3, <1>9, Zenon DEF StartInv
  <2> QED BY <1>1, <1>2, <1>7, <1>11, <2>1, Zenon DEF StartInv
<1>13. EarlyInv'
  BY <1>1, <1>2, <1>7, Zenon DEF EarlyInv
<1>14. HealthInv'
  BY <1>1, <1>2, <1>7, Zenon DEF HealthInv
<1>15. LimitInv'
  BY <1>1, <1>2, SameLimit, Zenon DEF LimitInv
<1>16. ParkInv'
  BY <1>7, Zenon DEF ParkInv
<1> QED BY <1>12, <1>13, <1>14, <1>15, <1>16, Zenon DEF Pumped

\* No slot of the delivery queue is ever taken.
LEMMA NoSlots ==
  ASSUME CountInv, kind # "async"
  PROVE  slots = 0
<1>1. Slotted = {}
  BY Zenon DEF Slotted, MayBlock
<1> QED BY <1>1, FS_EmptySet, Zenon DEF CountInv

LEMMA CountPumped ==
  ASSUME QueueTypeOK, CountInv, Pumped, CountThreads
  PROVE  Pumped'
<1>1. StartInv /\ HealthInv /\ EarlyInv
  BY Zenon DEF Pumped
<1>2. /\ UNCHANGED <<kind, max, live, pool, starts, pending, slots, seen>>
      /\ count' = Cardinality(pool) /\ pc[Control] = "spawn"
  BY Zenon DEF CountThreads, task_vars, health_vars
<1>3. /\ pc'[Control] = "dispatch" /\ pc'[Health] = pc[Health] /\ \A t \in Tasks : pc'[t] = pc[t]
      /\ Alive' = Alive /\ {w \in Threads : pc'[w] # "absent"} = {w \in Threads : pc[w] # "absent"}
  BY ControlMoves, Zenon DEF CountThreads
<1>4. StartInv'
  BY <1>1, <1>2, <1>3, Zenon DEF StartInv
<1>5. EarlyInv'
  BY <1>3, Zenon DEF EarlyInv
<1>6. HealthInv'
  BY <1>1, <1>2, <1>3, Zenon DEF HealthInv
<1>7. slots = 0
  BY <1>1, <1>2, NoSlots, Zenon DEF EarlyInv
<1>8. LimitInv'
  <2> DEFINE n == IF count' = 0 THEN max ELSE count'
  <2>1. n \in Nat \ {0}
    BY <1>1, <1>2, FS_CardinalityType, PoolAssumption DEF StartInv, QueueTypeOK
  <2>2. GetBlockingLimit' = CASE Reserved <= 0 -> n [] Reserved >= n -> 1 [] OTHER -> n - Reserved
    BY <1>2, Zenon DEF GetBlockingLimit
  <2> HIDE DEF n
  <2>3. GetBlockingLimit' \in Nat
    BY <2>1, <2>2, LimitOf, Zenon
  <2> QED BY <1>2, <1>7, <2>3 DEF LimitInv
<1>9. ParkInv'
  BY <1>3, Zenon DEF ParkInv, Procs
<1> QED BY <1>4, <1>5, <1>6, <1>8, <1>9, Zenon DEF Pumped

LEMMA StopPumped ==
  ASSUME QueueTypeOK, Pumped, Stop \/ DiscardPending \/ StopReturns
  PROVE  Pumped'
<1>1. StartInv /\ HealthInv /\ LimitInv
  BY Zenon DEF Pumped
<1>2. UNCHANGED <<kind, max, live, pool, starts, slots, seen>> /\ (count' = 0 \/ count' = count)
  BY Zenon DEF Stop, DiscardPending, StopReturns, pool_vars, task_vars, health_vars, start_vars
<1>3. PICK l \in {"discard", "join", "down"} : Goto(Control, l)
  BY Zenon DEF Stop, DiscardPending, StopReturns
<1>4. /\ pc'[Control] \in {"discard", "join", "down"} /\ pc'[Health] = pc[Health]
      /\ Alive' = Alive /\ {w \in Threads : pc'[w] # "absent"} = {w \in Threads : pc[w] # "absent"}
  BY <1>3, ControlMoves, Zenon
<1>5. count' = 0 /\ pc[Control] # "created"
  <2>1. CASE Stop
    BY <2>1, Zenon DEF Stop
  <2>2. CASE DiscardPending \/ StopReturns
    BY <1>1, <2>2, Zenon DEF DiscardPending, StopReturns, StartInv, pool_vars
  <2> QED BY <2>1, <2>2, Zenon
<1>6. StartInv'
  BY <1>1, <1>2, <1>4, <1>5, Zenon DEF StartInv
<1>7. HealthInv'
  BY <1>1, <1>2, <1>4, Zenon DEF HealthInv
<1>8. EarlyInv' /\ ParkInv'
  BY <1>4, Zenon DEF EarlyInv, ParkInv
<1>9. LimitInv'
  BY <1>5 DEF LimitInv
<1> QED BY <1>6, <1>7, <1>8, <1>9, Zenon DEF Pumped

LEMMA JoinPumped ==
  ASSUME QueueTypeOK, Pumped, NEW w \in Threads, JoinWorker(w)
  PROVE  Pumped'
<1>1. StartInv /\ HealthInv /\ LimitInv
  BY Zenon DEF Pumped
<1>2. /\ UNCHANGED <<kind, max, count, live, starts, slots, seen>> /\ pool' = pool \ {w}
      /\ pc[Control] = "join" /\ pc[w] = "left" /\ Goto(w, "absent")
  BY Zenon DEF JoinWorker, task_vars, health_vars, start_vars
<1>3. w \in Procs /\ w # Control /\ w # Health
  BY ProcsDistinct, Zenon DEF Procs
<1>4. pc'[w] = "absent" /\ \A q \in Procs : q # w => pc'[q] = pc[q]
  BY <1>2, <1>3, Moves, Zenon
<1>5. pc'[Control] = "join" /\ pc'[Health] = pc[Health]
  BY <1>2, <1>3, <1>4, Zenon DEF Procs
<1>6. Alive' = Alive
  BY <1>2, <1>4, Zenon DEF Alive, Procs
<1>7. pool' = {v \in Threads : pc'[v] # "absent"} /\ IsFiniteSet(pool')
  <2>1. {v \in Threads : pc'[v] # "absent"} = {v \in Threads : pc[v] # "absent"} \ {w}
    BY <1>4, Zenon DEF Procs
  <2>2. pool = {v \in Threads : pc[v] # "absent"} /\ IsFiniteSet(pool)
    BY <1>1, Zenon DEF StartInv
  <2> QED BY <1>2, <2>1, <2>2, FS_RemoveElement, Zenon
<1>8. StartInv'
  BY <1>1, <1>2, <1>5, <1>6, <1>7, Zenon DEF StartInv
<1>9. HealthInv'
  BY <1>1, <1>2, <1>5, Zenon DEF HealthInv
<1>10. EarlyInv' /\ ParkInv'
  BY <1>5, Zenon DEF EarlyInv, ParkInv
<1>11. LimitInv'
  BY <1>1, <1>2, SameLimit, Zenon DEF LimitInv
<1> QED BY <1>8, <1>9, <1>10, <1>11, Zenon DEF Pumped

LEMMA AdminPumped ==
  ASSUME QueueTypeOK, PcInv, PlaceInv, Pumped, Administrator
  PROVE  Pumped'
<1>1. StartInv /\ HealthInv /\ Admin \in Procs \ {Control, Health} /\ Admin \notin Threads \cup Tasks
  BY ProcsDistinct, Zenon DEF Pumped, Procs
<1>2. CASE ChangeMax
  <2>1. UNCHANGED <<kind, count, live, pool, starts, seen, slots, pending>> /\ Goto(Admin, "dispatch")
    BY <1>2, Zenon DEF ChangeMax, task_vars, health_vars, start_vars
  <2>2. StartInv' /\ HealthInv'
    BY <1>1, <2>1, OthersStay, Zenon
  <2>3. pc'[Admin] = "dispatch" /\ \A q \in Procs : q # Admin => pc'[q] = pc[q]
    BY <1>1, <2>1, Moves, Zenon
  <2>4. pc'[Control] = pc[Control] /\ \A t \in Tasks : pc'[t] = pc[t]
    BY <1>1, <2>3, Zenon DEF Procs
  <2> QED BY <1>1, <2>1, <2>2, <2>3, <2>4, PumpedStays DEF QueueTypeOK
<1> QED BY <1>1, <1>2, DispatchPumped, PostPumped, Zenon DEF Administrator

LEMMA HealthPumped ==
  ASSUME QueueTypeOK, PcInv, PlaceInv, Pumped, HealthTask
  PROVE  Pumped'
<1>1. StartInv /\ HealthInv /\ Health \in Procs /\ Health # Control /\ Health \notin Threads \cup Tasks
  BY ProcsDistinct, Zenon DEF Pumped, Procs
<1>2. ASSUME NEW l, Goto(Health, l), UNCHANGED <<kind, max, count, live, pool, starts, slots, pending>>,
             pc[Health] # "dispatch", HealthInv'
      PROVE  Pumped'
  <2>1. pc'[Health] = l /\ \A q \in Procs : q # Health => pc'[q] = pc[q]
    BY <1>1, <1>2, Moves, Zenon
  <2>2. /\ pc'[Control] = pc[Control] /\ (\A t \in Tasks : pc'[t] = pc[t])
        /\ \A w \in Threads : pc'[w] = pc[w]
    BY <1>1, <2>1, Zenon DEF Procs
  <2>3. StartInv'
    <3>1. Alive' = Alive /\ {w \in Threads : pc[w] # "absent"}' = {w \in Threads : pc[w] # "absent"}
      BY <2>2, Zenon DEF Alive
    <3> QED BY <1>1, <1>2, <2>2, <3>1, Zenon DEF StartInv
  <2>4. \A q \in Procs : pc[q] = "dispatch" => pc'[q] = "dispatch"
    BY <1>2, <2>1, Zenon
  <2> QED BY <1>2, <2>2, <2>3, <2>4, PumpedStays DEF QueueTypeOK
<1>3. CASE ReportStalledTasks
  <2>1. /\ UNCHANGED <<kind, max, count, live, pool, starts, seen, slots, pending>> /\ Goto(Health, "dispatch")
        /\ pc[Health] = "idle" /\ Published /\ kind = "async"
    BY <1>3, Zenon DEF ReportStalledTasks, pool_vars, task_vars, health_vars, start_vars
  <2>2. pc[Control] \notin {"created", "spawn"}
    BY <1>1, <2>1 DEF Published, StartInv, QueueTypeOK
  <2>3. pc'[Health] = "dispatch" /\ pc'[Control] = pc[Control]
    BY <1>1, <2>1, Moves, Zenon DEF Procs
  <2>4. HealthInv'
    BY <2>1, <2>2, <2>3, Zenon DEF HealthInv
  <2> QED BY <1>2, <2>1, <2>4, Zenon
<1>4. CASE ReadCounts
  <2>1. /\ UNCHANGED <<kind, max, count, live, pool, starts, slots, pending>> /\ pc[Health] = "counts"
        /\ seen' = IF depth = 0 THEN 0 ELSE live
        /\ Goto(Health, IF live = 0 \/ depth = 0 THEN "idle" ELSE "check")
    BY <1>4, Zenon DEF ReadCounts, pool_vars, task_vars, start_vars
  <2>2. pc'[Health] = (IF live = 0 \/ depth = 0 THEN "idle" ELSE "check") /\ pc'[Control] = pc[Control]
    BY <1>1, <2>1, Moves, Zenon DEF Procs
  <2>3. HealthInv'
    BY <1>1, <2>1, <2>2 DEF HealthInv, QueueTypeOK
  <2> QED BY <1>2, <2>1, <2>3, Zenon
<1>5. CASE CheckRunning
  <2>1. /\ UNCHANGED <<kind, max, count, live, pool, starts, slots, pending>> /\ pc[Health] = "check"
        /\ Goto(Health, "idle")
    BY <1>5, Zenon DEF CheckRunning, pool_vars, task_vars, start_vars
  <2>2. pc'[Health] = "idle"
    BY <1>1, <2>1, Moves, Zenon
  <2>3. HealthInv'
    BY <2>2, Zenon DEF HealthInv
  <2> QED BY <1>2, <2>1, <2>3, Zenon
<1> QED BY <1>1, <1>3, <1>4, <1>5, DispatchPumped, PostPumped, Zenon DEF HealthTask

LEMMA PumpedKept ==
  ASSUME QueueTypeOK, PcInv, PlaceInv, CountInv, Pumped, Next
  PROVE  Pumped'
<1>1. Control \in Procs \ Tasks
  BY ProcsDistinct, Zenon DEF Procs
<1>2. ASSUME NEW t \in Tasks, Age(t)
      PROVE  Pumped'
  <2>1. UNCHANGED <<kind, max, count, live, pool, starts, seen, slots, pending, pc>>
    BY <1>2, Zenon DEF Age, pool_vars, task_vars, health_vars, start_vars
  <2>2. StartInv' /\ HealthInv'
    BY <2>1, PoolStays, Zenon DEF Pumped
  <2> QED BY <2>1, <2>2, PumpedStays DEF QueueTypeOK
<1> QED BY <1>1, <1>2, CallersPumped, ThreadsPumped, StartPumped, SpawnPumped, CountPumped, StopPumped,
           JoinPumped, AdminPumped, HealthPumped, DispatchPumped, PostPumped, Zenon DEF Next, Starting, Stopping

-----------------------------------------------------------------------------
(* Types, and the invariant *)

\* What a step does to the members that are set and not counted.
LEMMA MembersKept ==
  ASSUME QueueTypeOK, Next
  PROVE  /\ kind' = kind /\ max' \in 1 .. MaxThreads
         /\ stopping' \in BOOLEAN /\ stopped' \in BOOLEAN /\ stalled' \in BOOLEAN
         /\ seen' \in Nat /\ spawned' \in Nat /\ starts' \in Nat
         /\ aged' \subseteq running'
<1> USE DEF QueueTypeOK, pool_vars, health_vars, start_vars, run_vars
<1>1. \A n \in Requests : SetMaxSimultaneous(n) \in 1 .. MaxThreads
  BY PoolAssumption DEF SetMaxSimultaneous
<1>2. ASSUME NEW p \in Procs, DispatchBlockingTasks(p) \/ PostTask(p)
      PROVE  UNCHANGED <<kind, max, stopping, stopped, stalled, seen, spawned, starts, aged, running>>
  BY <1>2, Zenon DEF DispatchBlockingTasks, PostTask
<1>3. ASSUME NEW t \in Tasks, AddTask(t) \/ PushPending(t)
      PROVE  UNCHANGED <<kind, max, stopping, stopped, stalled, seen, spawned, starts, aged, running>>
  BY <1>3, Zenon DEF AddTask, PushPending
<1>4. ASSUME NEW t \in Tasks, Age(t)
      PROVE  UNCHANGED <<kind, max, stopping, stopped, stalled, seen, spawned, starts>> /\ aged' \subseteq running'
  BY <1>4, Zenon DEF Age
<1>5. ASSUME NEW w \in Threads, TakeHandler(w) \/ RegisterTask(w) \/ FinishTask(w) \/ ReleaseSlot(w) \/ LeaveQueue(w) \/ JoinWorker(w)
      PROVE  UNCHANGED <<kind, max, stopping, stopped, stalled, seen, spawned, starts>> /\ aged' \subseteq running'
  BY <1>5, Zenon DEF TakeHandler, RegisterTask, FinishTask, ReleaseSlot, LeaveQueue, JoinWorker
<1>6. ASSUME Start \/ SpawnThread \/ CountThreads \/ Stop \/ DiscardPending \/ StopReturns
      PROVE  /\ UNCHANGED <<kind, max, stalled, seen, aged, running>>
             /\ stopping' \in BOOLEAN /\ stopped' \in BOOLEAN /\ spawned' \in Nat /\ starts' \in Nat
  <2>1. UNCHANGED <<kind, max, stalled, seen, aged, running>> /\ spawned' \in Nat /\ starts' \in Nat
    BY <1>6 DEF Start, SpawnThread, CountThreads, Stop, DiscardPending, StopReturns
  <2>2. stopping' \in BOOLEAN /\ stopped' \in BOOLEAN
    BY <1>6, Zenon DEF Start, SpawnThread, CountThreads, Stop, DiscardPending, StopReturns
  <2> QED BY <2>1, <2>2, Zenon
<1>7. ASSUME ChangeMax
      PROVE  UNCHANGED <<kind, stopping, stopped, stalled, seen, spawned, starts, aged, running>> /\ max' \in 1 .. MaxThreads
  BY <1>1, <1>7, Zenon DEF ChangeMax
<1>8. ASSUME ReportStalledTasks \/ ReadCounts \/ CheckRunning
      PROVE  /\ UNCHANGED <<kind, max, stopping, stopped, spawned, starts, aged, running>>
             /\ stalled' \in BOOLEAN /\ seen' \in Nat
  <2>1. UNCHANGED <<kind, max, stopping, stopped, spawned, starts, aged, running>> /\ seen' \in Nat
    BY <1>8 DEF ReportStalledTasks, ReadCounts, CheckRunning
  <2>2. stalled' \in BOOLEAN
    BY <1>8, Zenon DEF ReportStalledTasks, ReadCounts, CheckRunning
  <2> QED BY <2>1, <2>2, Zenon
<1>9. Threads \subseteq Procs /\ Tasks \subseteq Procs /\ {Control, Health, Admin} \subseteq Procs
  BY Zenon DEF Procs
<1> QED BY <1>2, <1>3, <1>4, <1>5, <1>6, <1>7, <1>8, <1>9, Zenon
     DEF Next, Caller, Worker, Proceed, Starting, Stopping, Administrator, HealthTask

\* What a step does to the lists and to what the processes have in hand.
LEMMA ListTypesKept ==
  ASSUME QueueTypeOK, PcInv, PlaceInv, Next
  PROVE  /\ posted' \in Seq(Tasks) /\ pending' \in Seq(Tasks)
         /\ toStart' \in [Procs -> Seq(Tasks)] /\ task' \in [Threads -> Tasks \cup {NoTask}]
         /\ DOMAIN pc' = Procs /\ pc' = [p \in Procs |-> pc'[p]]
<1>1. /\ posted \in Seq(Tasks) /\ pending \in Seq(Tasks) /\ toStart \in [Procs -> Seq(Tasks)]
      /\ task \in [Threads -> Tasks \cup {NoTask}] /\ DOMAIN pc = Procs /\ pc = [p \in Procs |-> pc[p]]
  BY Zenon DEF QueueTypeOK
<1> USE DEF task_vars, run_vars
<1>2. ASSUME NEW p, NEW l, Goto(p, l)
      PROVE  DOMAIN pc' = Procs /\ pc' = [q \in Procs |-> pc'[q]]
  BY <1>1, <1>2, Zenon DEF Goto
<1>3. ASSUME NEW p \in Procs, DispatchBlockingTasks(p)
      PROVE  /\ UNCHANGED <<posted, task>> /\ pending' \in Seq(Tasks) /\ toStart' \in [Procs -> Seq(Tasks)]
             /\ \E l : Goto(p, l)
  BY <1>3, Dispatches, Zenon DEF DispatchBlockingTasks
<1>4. ASSUME NEW p \in Procs, PostTask(p)
      PROVE  /\ UNCHANGED <<pending, task>> /\ posted' \in Seq(Tasks) /\ toStart' \in [Procs -> Seq(Tasks)]
             /\ \E l : Goto(p, l)
  BY <1>4, Posts, Zenon DEF PostTask
<1>5. ASSUME NEW t \in Tasks, AddTask(t)
      PROVE  UNCHANGED <<posted, pending, task>> /\ toStart' \in [Procs -> Seq(Tasks)] /\ \E l : Goto(t, l)
  <2>1. <<t>> \in Seq(Tasks)
    OBVIOUS
  <2> QED BY <1>1, <1>5, <2>1, Zenon DEF AddTask
<1>6. ASSUME NEW t \in Tasks, PushPending(t)
      PROVE  UNCHANGED <<posted, task, toStart>> /\ pending' \in Seq(Tasks) /\ \E l : Goto(t, l)
  BY <1>1, <1>6 DEF PushPending
<1>7. ASSUME NEW t \in Tasks, Age(t)
      PROVE  UNCHANGED <<posted, pending, task, toStart, pc>>
  BY <1>7, Zenon DEF Age
<1>8. ASSUME NEW w \in Threads, TakeHandler(w)
      PROVE  /\ UNCHANGED <<pending, toStart>> /\ posted' \in Seq(Tasks)
             /\ task' \in [Threads -> Tasks \cup {NoTask}] /\ \E l : Goto(w, l)
  BY <1>8, Takes, Zenon DEF TakeHandler
<1>9. ASSUME NEW w \in Threads, RegisterTask(w) \/ FinishTask(w) \/ ReleaseSlot(w) \/ LeaveQueue(w) \/ JoinWorker(w)
      PROVE  /\ UNCHANGED <<posted, pending, toStart>>
             /\ task' \in [Threads -> Tasks \cup {NoTask}] /\ \E l : Goto(w, l)
  BY <1>1, <1>9, Zenon DEF RegisterTask, FinishTask, ReleaseSlot, LeaveQueue, JoinWorker
<1>10. ASSUME Start \/ SpawnThread \/ CountThreads \/ Stop \/ StopReturns \/ ChangeMax \/ ReportStalledTasks
              \/ ReadCounts \/ CheckRunning
       PROVE  UNCHANGED <<posted, pending, task, toStart>> /\ \E p, l : Goto(p, l)
  BY <1>10, Zenon DEF Start, SpawnThread, CountThreads, Stop, StopReturns, ChangeMax, ReportStalledTasks, ReadCounts, CheckRunning
<1>11. ASSUME DiscardPending
       PROVE  UNCHANGED <<posted, task, toStart>> /\ pending' \in Seq(Tasks) /\ \E p, l : Goto(p, l)
  BY <1>11 DEF DiscardPending
<1>12. Threads \subseteq Procs /\ Tasks \subseteq Procs /\ {Control, Health, Admin} \subseteq Procs
  BY Zenon DEF Procs
<1>13. CASE UNCHANGED <<posted, pending, task, toStart, pc>>
  BY <1>1, <1>13, Zenon
<1>14. CASE \E t \in Tasks : AddTask(t) \/ PushPending(t)
  BY <1>1, <1>2, <1>5, <1>6, <1>14, Zenon
<1>15. CASE \E p \in Procs : DispatchBlockingTasks(p) \/ PostTask(p)
  BY <1>1, <1>2, <1>3, <1>4, <1>15, Zenon
<1>16. CASE \E w \in Threads : TakeHandler(w) \/ RegisterTask(w) \/ FinishTask(w) \/ ReleaseSlot(w) \/ LeaveQueue(w) \/ JoinWorker(w)
  BY <1>1, <1>2, <1>8, <1>9, <1>16, Zenon
<1>17. CASE Start \/ SpawnThread \/ CountThreads \/ Stop \/ StopReturns \/ ChangeMax \/ ReportStalledTasks
            \/ ReadCounts \/ CheckRunning \/ DiscardPending
  BY <1>1, <1>2, <1>10, <1>11, <1>17, Zenon
<1> QED BY <1>7, <1>12, <1>13, <1>14, <1>15, <1>16, <1>17, Zenon
     DEF Next, Caller, Worker, Proceed, Starting, Stopping, Administrator, HealthTask

LEMMA TypesKept ==
  ASSUME QueueTypeOK, PcInv, PlaceInv, Next, PcInv', RunInv', CountInv', StartInv'
  PROVE  QueueTypeOK'
<1>1. slots' \in Nat /\ depth' \in Nat
  BY FS_CardinalityType, Zenon DEF CountInv
<1>2. pool' \subseteq Threads /\ live' \in Nat /\ count' \in Nat
  <2>1. pool' \subseteq Threads /\ IsFiniteSet(pool') /\ Alive' \subseteq pool' /\ live' = Cardinality(Alive')
    BY Zenon DEF StartInv, Alive
  <2>2. live' \in Nat /\ Cardinality(pool') \in Nat
    BY <2>1, FS_Subset, FS_CardinalityType, Zenon
  <2>3. pc'[Control] \in {"created", "spawn", "dispatch", "post", "up", "discard", "join", "down"}
    BY ProcsDistinct, Zenon DEF PcInv, Labels, Procs
  <2> QED BY <2>1, <2>2, <2>3 DEF StartInv
<1>3. /\ kind' = kind /\ max' \in 1 .. MaxThreads
      /\ stopping' \in BOOLEAN /\ stopped' \in BOOLEAN /\ stalled' \in BOOLEAN
      /\ seen' \in Nat /\ spawned' \in Nat /\ starts' \in Nat /\ aged' \subseteq running'
  BY MembersKept, Zenon
<1>4. /\ posted' \in Seq(Tasks) /\ pending' \in Seq(Tasks)
      /\ toStart' \in [Procs -> Seq(Tasks)] /\ task' \in [Threads -> Tasks \cup {NoTask}]
      /\ DOMAIN pc' = Procs /\ pc' = [p \in Procs |-> pc'[p]]
  BY ListTypesKept, Zenon
<1>5. running' \subseteq Tasks
  BY <1>4, Zenon DEF RunInv, PcInv
<1> DEFINE L == {"new", "push", "dispatch", "post", "added", "refused",
                 "absent", "run", "register", "work", "release", "left",
                 "created", "spawn", "up", "discard", "join", "down",
                 "idle", "counts", "check"}
<1>6. pc' \in [Procs -> L]
  <2>1. \A p \in Procs : Labels(p) \subseteq L
    BY Zenon DEF Labels
  <2>2. \A p \in Procs : pc'[p] \in L
    BY <2>1, Zenon DEF PcInv
  <2> HIDE DEF L
  <2> QED BY <1>4, <2>2, Zenon
<1> QED BY <1>1, <1>2, <1>3, <1>4, <1>5, <1>6, Zenon DEF QueueTypeOK

LEMMA PoolStep ==
  ASSUME PoolInv, [Next]_vars
  PROVE  PoolInv'
<1>1. /\ QueueTypeOK /\ PcInv /\ RunInv /\ WaitInv /\ PlaceInv /\ CountInv
      /\ StartInv /\ EarlyInv /\ HealthInv /\ LimitInv /\ ParkInv
  BY Zenon DEF PoolInv
<1>2. CASE Next
  <2>1. PcInv'
    BY <1>1, <1>2, PcKept, Zenon
  <2>2. RunInv'
    BY <1>1, <1>2, RunKept, Zenon
  <2>3. WaitInv' /\ PlaceInv' /\ CountInv'
    <3>1. ListInv
      BY <1>1, Zenon DEF ListInv
    <3>2. ListInv'
      BY <1>1, <1>2, <3>1, ListsKept, Zenon
    <3> QED BY <3>2, Zenon DEF ListInv
  <2>4. StartInv' /\ EarlyInv' /\ HealthInv' /\ LimitInv' /\ ParkInv'
    <3>1. Pumped
      BY <1>1, Zenon DEF Pumped
    <3>2. Pumped'
      BY <1>1, <1>2, <3>1, PumpedKept, Zenon
    <3> QED BY <3>2, Zenon DEF Pumped
  <2>5. QueueTypeOK'
    BY <1>1, <1>2, <2>1, <2>2, <2>3, <2>4, TypesKept, Zenon
  <2> QED BY <2>1, <2>2, <2>3, <2>4, <2>5, Zenon DEF PoolInv
<1>3. CASE UNCHANGED vars
  <2>1. UNCHANGED <<kind, max, count, live, pool, stopping, stopped, posted, pending, slots, depth, running,
                    aged, task, stalled, seen, spawned, starts, pc, toStart>>
    BY <1>3, Zenon DEF vars, pool_vars, task_vars, run_vars, health_vars, start_vars
  <2>2. QueueTypeOK'
    BY <1>1, <2>1, Zenon DEF QueueTypeOK
  <2>3. PcInv' /\ RunInv'
    BY <1>1, <2>1, Zenon DEF PcInv, RunInv, MayBlock
  <2>4. WaitInv' /\ PlaceInv' /\ CountInv'
    <3>1. ListInv
      BY <1>1, Zenon DEF ListInv
    <3>2. ListInv'
      BY <2>1, <3>1, ListsStay, Zenon DEF task_vars
    <3> QED BY <3>2, Zenon DEF ListInv
  <2>5. StartInv' /\ EarlyInv' /\ HealthInv' /\ LimitInv' /\ ParkInv'
    <3>1. Pumped
      BY <1>1, Zenon DEF Pumped
    <3>2. StartInv' /\ HealthInv'
      BY <1>1, <2>1, PoolStays, Zenon
    <3>3. Pumped'
      BY <1>1, <2>1, <3>1, <3>2, PumpedStays DEF QueueTypeOK
    <3> QED BY <3>3, Zenon DEF Pumped
  <2> QED BY <2>2, <2>3, <2>4, <2>5, Zenon DEF PoolInv
<1> QED BY <1>2, <1>3, Zenon

LEMMA PoolInit ==
  ASSUME Init
  PROVE  PoolInv
<1>1. /\ kind \in Kinds /\ max = SetMaxSimultaneous(Configured) /\ count = 0 /\ live = 0 /\ pool = {}
      /\ stopping = FALSE /\ stopped = FALSE
      /\ posted = <<>> /\ pending = <<>> /\ slots = 0 /\ depth = 0
      /\ running = {} /\ aged = {} /\ stalled = FALSE /\ seen = 0
      /\ toStart = [p \in Procs |-> <<>>] /\ task = [w \in Threads |-> NoTask]
      /\ spawned = 0 /\ starts = 0
  BY Zenon DEF Init
<1>2. /\ pc = [p \in Procs |-> pc[p]] /\ DOMAIN pc = Procs
      /\ \A t \in Tasks : pc[t] = "new"
      /\ \A w \in Threads : pc[w] = "absent"
      /\ pc[Control] = "created" /\ pc[Health] = "idle" /\ pc[Admin] = "idle"
  BY ProcsDistinct, Zenon DEF Init, Procs
<1>3. \A p \in Procs : pc[p] \in Labels(p) \ {"post", "dispatch"}
  BY <1>2, ProcsDistinct, Zenon DEF Procs, Labels
<1>4. PcInv
  BY <1>1, <1>2, <1>3, Zenon DEF PcInv, Procs
<1>5. RunInv
  BY <1>1, <1>2, Zenon DEF RunInv
<1>6. Range(pending) = {} /\ Range(posted) = {} /\ \A p \in Procs : Range(toStart[p]) = {}
  BY <1>1 DEF Range
<1>7. WaitInv
  BY <1>2, <1>6, Zenon DEF WaitInv
<1>8. PlaceInv
  <2>1. IsInjective(<<>>)
    BY DEF IsInjective
  <2>2. \A w \in Threads : task[w] = NoTask /\ task[w] \notin Fresh
    BY <1>1, ProcsDistinct, Zenon DEF Fresh
  <2> QED BY <1>1, <1>6, <2>1, <2>2, Zenon DEF PlaceInv
<1>9. CountInv
  <2>1. Claimed = {} /\ InHand = {}
    BY <1>1, <1>6, Zenon DEF Claimed, InHand
  <2>2. Slotted = {} /\ Waiting = {}
    BY <1>2, <1>6, <2>1, Zenon DEF Slotted, Waiting
  <2> QED BY <1>1, <2>2, FS_EmptySet, Zenon DEF CountInv
<1>10. StartInv
  <2>1. Alive = {} /\ {w \in Threads : pc[w] # "absent"} = {}
    BY <1>2, Zenon DEF Alive
  <2> QED BY <1>1, <1>2, <2>1, FS_EmptySet DEF StartInv
<1>11. EarlyInv /\ HealthInv /\ LimitInv /\ ParkInv
  BY <1>1, <1>2 DEF EarlyInv, HealthInv, LimitInv, ParkInv
<1>12. QueueTypeOK
  <2>1. max \in 1 .. MaxThreads
    BY <1>1, PoolAssumption DEF SetMaxSimultaneous
  <2> DEFINE L == {"new", "push", "dispatch", "post", "added", "refused",
                   "absent", "run", "register", "work", "release", "left",
                   "created", "spawn", "up", "discard", "join", "down",
                   "idle", "counts", "check"}
  <2>2. pc \in [Procs -> L]
    <3>1. \A p \in Procs : Labels(p) \subseteq L
      BY Zenon DEF Labels
    <3>2. \A p \in Procs : pc[p] \in L
      BY <1>3, <3>1, Zenon
    <3> HIDE DEF L
    <3> QED BY <1>2, <3>2, Zenon
  <2>3. stopping \in BOOLEAN /\ stopped \in BOOLEAN /\ stalled \in BOOLEAN
    BY <1>1, Zenon
  <2>4. posted \in Seq(Tasks) /\ pending \in Seq(Tasks) /\ toStart \in [Procs -> Seq(Tasks)]
        /\ task \in [Threads -> Tasks \cup {NoTask}]
    BY <1>1
  <2>5. count \in Nat /\ live \in Nat /\ pool \subseteq Threads /\ slots \in Nat /\ depth \in Nat /\ seen \in Nat
        /\ spawned \in Nat /\ starts \in Nat /\ aged \subseteq running /\ running \subseteq Tasks
    BY <1>1, Zenon
  <2> QED BY <1>1, <2>1, <2>2, <2>3, <2>4, <2>5, Zenon DEF QueueTypeOK
<1> QED BY <1>4, <1>5, <1>7, <1>8, <1>9, <1>10, <1>11, <1>12, Zenon DEF PoolInv

-----------------------------------------------------------------------------
(* Theorems *)

\* The invariant that all the others follow from.
THEOREM PoolIsSound == Spec => []PoolInv
<1>1. Init => PoolInv
  BY PoolInit, Zenon
<1>2. PoolInv /\ [Next]_vars => PoolInv'
  BY PoolStep, Zenon
<1> QED BY <1>1, <1>2, PTL DEF Spec

\* The members of WorkQueue and the locals of its processes keep their types.
THEOREM PoolTypes == Spec => []QueueTypeOK
<1>1. PoolInv => QueueTypeOK
  BY Zenon DEF PoolInv
<1> QED BY <1>1, PoolIsSound, PTL

\* No task is run twice, and none is in two lists, however many callers,
\* threads and pumps of the wait list there are.
THEOREM TasksAreNotDoubled == Spec => []EachTaskOnce
<1>1. PoolInv => EachTaskOnce
  <2>1. SUFFICES ASSUME QueueTypeOK, PcInv, PlaceInv
                 PROVE  EachTaskOnce
    BY Zenon DEF PoolInv
  <2>2. ASSUME NEW t \in Claimed
        PROVE  t \notin Range(pending) /\ t \notin Range(posted) /\ t \notin InHand
    <3>1. PICK p \in Procs : t \in Range(toStart[p])
      BY <2>2, Zenon DEF Claimed
    <3>2. t \notin Range(pending) /\ t \notin Range(posted)
      BY <2>1, <3>1, Zenon DEF PlaceInv
    <3>3. \A w \in Threads : task[w] # t
      BY <2>1, <3>1, Zenon DEF PlaceInv
    <3>4. t \notin InHand
      BY <3>3, Zenon DEF InHand
    <3> QED BY <3>2, <3>4, Zenon
  <2>3. ASSUME NEW t \in InHand
        PROVE  t \notin Waiting
    <3>1. PICK w \in Threads : t = task[w]
      BY <2>3, Zenon DEF InHand
    <3>2. t \notin Range(pending) /\ t \notin Range(posted)
      BY <2>1, <3>1, Zenon DEF PlaceInv
    <3>3. t \notin Fresh
      BY <2>1, <3>1, Zenon DEF PlaceInv
    <3>4. ~(t \in Tasks /\ pc[t] = "push")
      BY <3>3, Zenon DEF Fresh
    <3> QED BY <2>2, <2>3, <3>2, <3>4, Zenon DEF Waiting
  <2>4. Range(pending) \cap Range(posted) = {}
    BY <2>1, Zenon DEF PlaceInv
  <2>5. /\ Range(pending) \cap (Range(posted) \cup Claimed) = {}
        /\ Range(posted) \cap Claimed = {}
        /\ InHand \cap Waiting = {}
    BY <2>2, <2>3, <2>4, Zenon
  <2>6. \A x \in {pending, posted} \cup {toStart[p] : p \in Procs} : IsInjective(x)
    BY <2>1, Zenon DEF PlaceInv
  <2> QED BY <2>1, <2>5, <2>6, Zenon DEF EachTaskOnce, PlaceInv
<1> QED BY <1>1, PoolIsSound, PTL

\* running_blocking_tasks_ and queue_depth_ are exact.
THEOREM CountersDoNotDrift == Spec => []CountersExact
<1>1. PoolInv => CountersExact
  BY Zenon DEF PoolInv, CountInv, CountersExact, Slotted
<1> QED BY <1>1, PoolIsSound, PTL

\* A task waits only for a slot: whoever adds a slot or a task comes by the
\* wait list afterwards.
THEOREM NoTaskIsForgotten == Spec => []NothingParked
<1>1. PoolInv => NothingParked
  BY Zenon DEF PoolInv, ParkInv, NothingParked
<1> QED BY <1>1, PoolIsSound, PTL

\* The reserve works for any size of pool, any number of reserved threads and
\* any size the administrator asks for.
THEOREM ReserveHolds == Spec => []OneThreadFree
<1>1. PoolInv => OneThreadFree
  <2>1. SUFFICES ASSUME QueueTypeOK, PcInv, PlaceInv, CountInv, StartInv, LimitInv, Reserved > 0, count > 1,
                        \A w \in pool : task[w] # NoTask /\ MayBlock(task[w])
                 PROVE  FALSE
    BY Zenon DEF PoolInv, OneThreadFree
  <2>2. slots < count /\ slots \in Nat /\ count \in Nat
    <3>1. GetBlockingLimit < count /\ GetBlockingLimit \in Nat
      BY <2>1, LimitType, Zenon
    <3> QED BY <2>1, <3>1 DEF LimitInv, QueueTypeOK
  <2>3. count = Cardinality(pool) /\ IsFiniteSet(pool) /\ pool \subseteq Threads
    <3>1. pc[Control] \in {"created", "spawn", "dispatch", "post", "up", "discard", "join", "down"}
      BY <2>1, ProcsDistinct, Zenon DEF PcInv, Labels, Procs
    <3> QED BY <2>1, <3>1 DEF StartInv
  <2> DEFINE f == [w \in pool |-> task[w]]
  <2>4. f \in [pool -> Slotted]
    <3>1. \A w \in pool : task[w] \in Slotted
      BY <2>1, <2>3, Zenon DEF Slotted, InHand
    <3> QED BY <3>1, Zenon
  <2>5. \A v, w \in pool : v # w => f[v] # f[w]
    BY <2>1, <2>3, Zenon DEF PlaceInv
  <2>6. IsFiniteSet(Slotted) /\ Cardinality(Slotted) < Cardinality(pool)
    BY <2>1, <2>2, <2>3, Zenon DEF CountInv
  <2> HIDE DEF f
  <2>7. \E v, w \in pool : v # w /\ f[v] = f[w]
    BY <2>3, <2>4, <2>6, FS_PigeonHole, Zenon
  <2> QED BY <2>5, <2>7, Zenon
<1> QED BY <1>1, PoolIsSound, PTL

\* A stall is reported only when there is one.
THEOREM StallsAreReal == Spec => StallIsReal
<1> DEFINE Real == (~stalled /\ stalled') =>
             \A w \in pool : pc[w] # "left" => (pc[w] = "work" /\ task[w] \in aged)
<1>1. PoolInv /\ [Next]_vars => [Real]_vars
  <2>1. SUFFICES ASSUME PoolInv, Next, ~stalled, stalled'
                 PROVE  \A w \in pool : pc[w] # "left" => (pc[w] = "work" /\ task[w] \in aged)
    OBVIOUS
  <2>2. CheckRunning
    <3>1. ASSUME NEW p \in Procs, DispatchBlockingTasks(p) \/ PostTask(p)
          PROVE  stalled' = stalled
      BY <3>1, Zenon DEF DispatchBlockingTasks, PostTask, health_vars
    <3>2. ASSUME NEW t \in Tasks, AddTask(t) \/ PushPending(t) \/ Age(t)
          PROVE  stalled' = stalled
      BY <3>2, Zenon DEF AddTask, PushPending, Age, health_vars
    <3>3. ASSUME NEW w \in Threads, TakeHandler(w) \/ RegisterTask(w) \/ FinishTask(w) \/ ReleaseSlot(w)
                                    \/ LeaveQueue(w) \/ JoinWorker(w)
          PROVE  stalled' = stalled
      BY <3>3, Zenon DEF TakeHandler, RegisterTask, FinishTask, ReleaseSlot, LeaveQueue, JoinWorker, health_vars
    <3>4. ASSUME Start \/ SpawnThread \/ CountThreads \/ Stop \/ DiscardPending \/ StopReturns \/ ChangeMax
                 \/ ReportStalledTasks
          PROVE  stalled' = stalled
      BY <3>4, Zenon DEF Start, SpawnThread, CountThreads, Stop, DiscardPending, StopReturns, ChangeMax, ReportStalledTasks,
         health_vars
    <3>5. ReadCounts => ~stalled'
      BY <2>1, Zenon DEF ReadCounts
    <3>6. Threads \subseteq Procs /\ Tasks \subseteq Procs /\ {Control, Health, Admin} \subseteq Procs
      BY Zenon DEF Procs
    <3> QED BY <2>1, <3>1, <3>2, <3>3, <3>4, <3>5, <3>6, Zenon
         DEF Next, Caller, Worker, Proceed, Starting, Stopping, Administrator, HealthTask
  <2>3. Cardinality(running) >= seen /\ running \subseteq aged /\ pc[Health] = "check"
    BY <2>1, <2>2, Zenon DEF CheckRunning
  <2>4. /\ live <= seen /\ live = Cardinality(Alive) /\ live \in Nat /\ seen \in Nat
        /\ pool = {w \in Threads : pc[w] # "absent"} /\ IsFiniteSet(pool)
        /\ running = {task[w] : w \in {v \in Threads : pc[v] = "work"}}
    BY <2>1, <2>3, Zenon DEF PoolInv, HealthInv, StartInv, RunInv, QueueTypeOK
  <2> DEFINE Busy == {v \in Threads : pc[v] = "work"}
             f == [w \in Busy |-> task[w]]
  <2>5. Busy \subseteq Alive /\ Alive \subseteq pool
    BY <2>4, Zenon DEF Alive
  <2>6. IsFiniteSet(Alive) /\ IsFiniteSet(Busy) /\ Cardinality(Busy) <= Cardinality(Alive)
        /\ (Cardinality(Alive) = Cardinality(Busy) => Alive = Busy)
    <3>1. IsFiniteSet(Alive)
      BY <2>4, <2>5, FS_Subset, Zenon
    <3> HIDE DEF Busy
    <3> QED BY <2>5, <3>1, FS_Subset, Zenon
  <2>7. Cardinality(running) <= Cardinality(Busy) /\ Cardinality(running) \in Nat
    <3>1. f \in Surjection(Busy, running)
      BY <2>4, Zenon DEF Surjection
    <3> HIDE DEF f, Busy
    <3> QED BY <2>6, <3>1, FS_Surjection, FS_CardinalityType, Zenon
  <2>8. Alive = Busy
    <3>1. Cardinality(Busy) \in Nat /\ Cardinality(Alive) \in Nat
      BY <2>6, FS_CardinalityType, Zenon
    <3> HIDE DEF f, Busy
    <3> QED BY <2>3, <2>4, <2>6, <2>7, <3>1
  <2> QED BY <2>3, <2>4, <2>8, Zenon DEF Alive
<1> QED BY <1>1, PoolIsSound, PTL DEF Spec, StallIsReal
==============================================================================
