--------------------------- MODULE DeliveryQueue ----------------------------
(***************************************************************************)
(* The delivery queue as a whole: sessions that save received messages,    *)
(* the delivery manager that picks them up, the delivery threads           *)
(* (Deliverer), the administrator's operations on the queue, ETRN, the     *)
(* passing of time, and the stop or crash of the process and its restart.  *)
(* The parts meet only in the message store (MessageStore), in the message *)
(* cache and in the work queue that hands tasks to the threads.            *)
(***************************************************************************)
EXTENDS Deliverer

CONSTANTS
  CacheLimit,   \* messages in MessageCache above which it is emptied
  Ops,          \* the operations that are used, a subset of Operations
  EarlySessions, \* TRUE: a session may save a message before the manager,
                 \* which starts at the same time, has got through UnlockAll
  MaxCrashes    \* bound on restarts

Operations == {"clear", "remove", "reset", "etrn"}

ASSUME QueueAssumption ==
  /\ CacheLimit \in Nat
  /\ Ops \subseteq Operations
  /\ EarlySessions \in BOOLEAN
  /\ MaxCrashes \in Nat

VARIABLES
  recv,      \* recv[m] : how far the session that receives m has come
  envelope,  \* envelope[m] : the recipients m was received for
  cache,     \* MessageCache: messages as they were when received
  mgr,       \* the delivery manager: its step and the message it holds
  pending,   \* pending_messages_
  uncache,   \* uncache_pending_messages_
  clearing,  \* the step of DeliveryQueueClearer, "no" when there is none
  todo,      \* the messages it still has to delete
  deleter,   \* DeleteObject as run by the clearer and by Remove
  crashes,   \* restarts so far
  taken,     \* messages the manager has picked up at least once
  stale,     \* messages that were picked up from the cache after that
  purged     \* messages an administrator's request deleted

sessionVars == <<recv, envelope>>

managerVars == <<mgr, pending, uncache, cache, taken, stale>>

adminVars == <<clearing, todo, deleter, purged>>

vars == <<delivererVars, sessionVars, managerVars, adminVars, crashes>>

NoTask == [id |-> NoMsg, rcpts |-> {}, tries |-> 0, owner |-> "none"]

NoDelete == [pc |-> "idle", id |-> NoMsg, type |-> "none", owner |-> "none"]

Sessions == {"new", "inserted", "saved", "unlocked", "accepted", "refused"}

Entries == [id : Msgs, tries : Nat, owner : Owners]

TypeOK ==
  /\ DelivererTypeOK
  /\ recv \in [Msgs -> Sessions]
  /\ envelope \in [Msgs -> SUBSET Rcpts]
  /\ cache \in SUBSET Msgs
  /\ mgr \in [pc : {"start", "next", "pick", "wait"}, obj : {NoTask}]
             \cup [pc : {"lock", "post"}, obj : Tasks]
  /\ pending \in SUBSET Entries
  /\ uncache \in BOOLEAN
  /\ clearing \in {"no", "asked", "stopped", "deleting", "restarting"}
  /\ todo \in SUBSET [id : Msgs, owner : Owners]
  /\ deleter \in [{"clear", "remove"} ->
                    [pc : {"lock", "delrow", "delrcpt", "delfile"},
                     id : Msgs, type : Types, owner : Owners] \cup {NoDelete}]
  /\ crashes \in Nat
  /\ taken \in SUBSET Msgs
  /\ stale \in SUBSET Msgs
  /\ purged \in SUBSET Msgs

Init ==
  /\ DelivererInit
  /\ recv = [m \in Msgs |-> "new"]
  /\ envelope = [m \in Msgs |-> {}]
  /\ cache = {}
  /\ mgr = [pc |-> "start", obj |-> NoTask]
  /\ pending = {}
  /\ uncache = FALSE
  /\ clearing = "no"
  /\ todo = {}
  /\ deleter = [d \in {"clear", "remove"} |-> NoDelete]
  /\ crashes = 0
  /\ taken = {}
  /\ stale = {}
  /\ purged = {}

-----------------------------------------------------------------------------
(* Reception: PersistentMessage::SaveObject as called by the session, and   *)
(* what the session does with its result.                                   *)

Session(m, pc) == recv' = [recv EXCEPT ![m] = pc]

restOfSession ==
  <<running, posted, worker, holds, history, managerVars, adminVars, crashes>>

\* A message that cannot be inserted is refused and its file deleted.
InsertMessage(m) ==
  /\ recv[m] = "new"
  /\ EarlySessions \/ mgr.pc # "start"
  /\ \E S \in SUBSET Rcpts \ {{}} : envelope' = [envelope EXCEPT ![m] = S]
  /\ \/ /\ Works
        /\ row' = InsertRow(m)
        /\ file' = [file EXCEPT ![m] = "queue"]
        /\ Session(m, "inserted")
     \/ Fails /\ Session(m, "refused") /\ UNCHANGED <<row, file>>
  /\ UNCHANGED <<rcpt, restOfSession>>

\* When a recipient cannot be saved the message is refused, but DeleteFile
\* will not touch the file of a message that has an id: file, row and the
\* recipients saved so far stay.
SaveRecipients(m) ==
  /\ recv[m] = "inserted"
  /\ \/ Works /\ rcpt' = Add(rcpt, m, envelope[m]) /\ Session(m, "saved")
     \/ /\ Fails /\ Session(m, "refused")
        /\ \E S \in SUBSET envelope[m] \ {envelope[m]} : rcpt' = Add(rcpt, m, S)
  /\ UNCHANGED <<row, file, envelope, restOfSession>>

\* Mutant: a message with recipients stays locked.
UnlockSavedNot(m) ==
  /\ recv[m] = "saved"
  /\ Session(m, "unlocked")
  /\ UNCHANGED <<row, rcpt, file, faults, envelope, restOfSession>>

UnlockSaved(m) ==
  /\ recv[m] = "saved"
  /\ \/ Works /\ row' = UnlockObject(m) /\ Session(m, "unlocked")
     \/ Fails /\ Session(m, "refused") /\ UNCHANGED row
  /\ UNCHANGED <<rcpt, file, envelope, restOfSession>>

\* MessageCache::AddMessage, SubmitPendingEmail and the 250.
AcceptMessage(m) ==
  /\ recv[m] = "unlocked"
  /\ Session(m, "accepted")
  /\ cache' = (IF Cardinality(cache) > CacheLimit THEN {} ELSE cache) \cup {m}
  /\ UNCHANGED <<delivererVars, envelope, mgr, pending, uncache, taken, stale, adminVars, crashes>>

Receive(m) ==
  InsertMessage(m) \/ SaveRecipients(m) \/ UnlockSaved(m) \/ AcceptMessage(m)

-----------------------------------------------------------------------------
(* SMTPDeliveryManager::DoWork                                              *)

Manager(pc) == mgr' = [pc |-> pc, obj |-> NoTask]

restOfManager ==
  <<rcpt, file, running, worker, holds, history, sessionVars, adminVars, crashes>>

\* The result of UnlockAll is not looked at.
StartManager ==
  /\ mgr.pc = "start"
  /\ WriteRow(UnlockAll)
  /\ Manager("next")
  /\ UNCHANGED <<posted, cache, pending, uncache, taken, stale, restOfManager>>

LoadPendingMessageList ==
  /\ mgr.pc = "next"
  /\ pending = {} \/ uncache
  /\ uncache' = FALSE
  /\ \/ Works /\ pending' = PendingMessageList
     \/ Fails /\ pending' = {}
  /\ Manager(IF pending' = {} THEN "wait" ELSE "pick")
  /\ UNCHANGED <<row, posted, cache, taken, stale, restOfManager>>

Picking(p) ==
  /\ p \in pending
  /\ mgr.pc = "pick" \/ (mgr.pc = "next" /\ ~uncache)

Take(m, obj) ==
  /\ mgr' = [pc |-> "lock", obj |-> obj]
  /\ taken' = taken \cup {m}

\* The message is in the cache, as it was received.
TakeFromCache(p) ==
  LET m == p.id IN
  /\ Picking(p)
  /\ m \in cache
  /\ Take(m, [id |-> m, rcpts |-> envelope[m], tries |-> 0, owner |-> "none"])
  /\ stale' = stale \cup ({m} \cap taken)
  /\ cache' = cache \ {m}
  /\ pending' = pending \ {p}
  /\ UNCHANGED <<row, posted, faults, uncache, restOfManager>>

\* The row was read with the list, the recipients are read now.  A failure
\* ends this pass (HM6118) and leaves the list where it is.
TakeFromDatabase(p) ==
  LET m == p.id IN
  /\ Picking(p)
  /\ m \notin cache
  /\ \/ /\ Works
        /\ Take(m, [id |-> m, rcpts |-> rcpt[m], tries |-> p.tries, owner |-> p.owner])
        /\ pending' = pending \ {p}
     \/ Fails /\ Manager("wait") /\ UNCHANGED <<pending, taken>>
  /\ UNCHANGED <<row, posted, cache, uncache, stale, restOfManager>>

LockMessage ==
  /\ mgr.pc = "lock"
  /\ \/ Works /\ row' = LockObject(mgr.obj.id) /\ mgr' = [pc |-> "post", obj |-> mgr.obj]
     \/ Fails /\ Manager("next") /\ UNCHANGED row
  /\ UNCHANGED <<posted, cache, pending, uncache, taken, stale, restOfManager>>

\* Mutant: the manager does not let go of the message.
AddTaskAndKeep ==
  /\ mgr.pc = "post"
  /\ posted' = IF running THEN posted \cup {mgr.obj} ELSE posted
  /\ mgr' = [pc |-> "next", obj |-> mgr.obj]
  /\ UNCHANGED <<row, faults, cache, pending, uncache, taken, stale, restOfManager>>

\* WorkQueue::AddTask drops a task that comes while the queue is stopped.
AddTask ==
  /\ mgr.pc = "post"
  /\ posted' = IF running THEN posted \cup {mgr.obj} ELSE posted
  /\ Manager("next")
  /\ UNCHANGED <<row, faults, cache, pending, uncache, taken, stale, restOfManager>>

\* A minute has passed, or somebody called SetDeliverMessage.
WakeManager ==
  /\ mgr.pc = "wait"
  /\ Manager("next")
  /\ UNCHANGED <<row, posted, faults, cache, pending, uncache, taken, stale, restOfManager>>

DoWork ==
  \/ StartManager
  \/ LoadPendingMessageList
  \/ \E p \in pending : TakeFromCache(p) \/ TakeFromDatabase(p)
  \/ LockMessage
  \/ AddTask
  \/ WakeManager

-----------------------------------------------------------------------------
(* The administrator's operations, ETRN and time.                           *)

restOfAdmin == <<holds, history, sessionVars, mgr, pending, cache, taken, stale, crashes>>

\* DeliveryQueue::Clear starts a clearer unless there is one.
Clear ==
  /\ "clear" \in Ops
  /\ clearing = "no"
  /\ clearing' = "asked"
  /\ UNCHANGED <<row, rcpt, file, running, posted, worker, faults, uncache,
                 todo, deleter, purged, restOfAdmin>>

\* pWQ->Stop() gives the threads ten seconds and then goes on without them.
ClearerStop ==
  /\ clearing = "asked"
  /\ clearing' = "stopped"
  /\ StopQueue
  /\ UNCHANGED <<row, rcpt, file, posted, faults, uncache, todo, deleter, purged, restOfAdmin>>

\* Messages::Refresh of the queue: every type 1 row, locked or not.
ClearerRefresh ==
  /\ clearing = "stopped"
  /\ clearing' = "deleting"
  /\ \/ /\ Works
        /\ todo' = {[id |-> m, owner |-> row[m].owner] :
                      m \in {n \in Msgs : row[n].type = "delivering"}}
     \/ Fails /\ todo' = {}
  /\ UNCHANGED <<row, rcpt, file, running, posted, worker, uncache, deleter, purged, restOfAdmin>>

ClearerNext ==
  /\ clearing = "deleting"
  /\ deleter["clear"].pc = "idle"
  /\ \E t \in todo :
       /\ todo' = todo \ {t}
       /\ deleter' = [deleter EXCEPT !["clear"] =
            [pc |-> "delrow", id |-> t.id, type |-> "delivering", owner |-> t.owner]]
  /\ UNCHANGED <<row, rcpt, file, running, posted, worker, faults, uncache,
                 clearing, purged, restOfAdmin>>

ClearerUncache ==
  /\ clearing = "deleting"
  /\ deleter["clear"].pc = "idle" /\ todo = {}
  /\ clearing' = "restarting"
  /\ uncache' = TRUE
  /\ UNCHANGED <<row, rcpt, file, running, posted, worker, faults, todo, deleter, purged, restOfAdmin>>

ClearerStart ==
  /\ clearing = "restarting"
  /\ clearing' = "no"
  /\ running' = TRUE
  /\ UNCHANGED <<row, rcpt, file, posted, worker, faults, uncache, todo, deleter, purged, restOfAdmin>>

\* DeliveryQueue::Remove reads the message, whatever has become of it.
Remove(m) ==
  /\ "remove" \in Ops
  /\ deleter["remove"].pc = "idle"
  /\ Exists(m)
  /\ deleter' = [deleter EXCEPT !["remove"] =
       [pc |-> "lock", id |-> m, type |-> row[m].type, owner |-> row[m].owner]]
  /\ UNCHANGED <<row, rcpt, file, running, posted, worker, faults, uncache,
                 clearing, todo, purged, restOfAdmin>>

Deleter(d, pc) == deleter' = [deleter EXCEPT ![d] = [deleter[d] EXCEPT !.pc = pc]]

Deleted(d) == deleter' = [deleter EXCEPT ![d] = NoDelete]

RemoveLock ==
  /\ deleter["remove"].pc = "lock"
  /\ \/ Works /\ row' = LockObject(deleter["remove"].id) /\ Deleter("remove", "delrow")
     \/ Fails /\ Deleted("remove") /\ UNCHANGED row
  /\ UNCHANGED <<rcpt, file, running, posted, worker, uncache, clearing, todo, purged, restOfAdmin>>

\* Mutant: the result of the first statement is not looked at.
AdminDeleteRowUnchecked(d) ==
  LET x == deleter[d] IN
  /\ x.pc = "delrow"
  /\ \/ /\ Works
        /\ row' = DeleteRow(x.id)
        /\ purged' = purged \cup {x.id}
     \/ Fails /\ UNCHANGED <<row, purged>>
  /\ Deleter(d, IF x.type = "delivered" THEN "delfile" ELSE "delrcpt")
  /\ UNCHANGED <<rcpt, file, running, posted, worker, uncache, clearing, todo, restOfAdmin>>

\* PersistentMessage::DeleteObject, statement by statement.  A failure ends
\* it and is reported (HM6102, HM6103).
AdminDeleteRow(d) ==
  LET x == deleter[d] IN
  /\ x.pc = "delrow"
  /\ \/ /\ Works
        /\ row' = DeleteRow(x.id)
        /\ purged' = purged \cup {x.id}
        /\ Deleter(d, IF x.type = "delivered" THEN "delfile" ELSE "delrcpt")
     \/ Fails /\ Deleted(d) /\ UNCHANGED <<row, purged>>
  /\ UNCHANGED <<rcpt, file, running, posted, worker, uncache, clearing, todo, restOfAdmin>>

AdminDeleteRecipients(d) ==
  LET x == deleter[d] IN
  /\ x.pc = "delrcpt"
  /\ \/ Works /\ rcpt' = DeleteRecipients(x.id) /\ Deleter(d, "delfile")
     \/ Fails /\ Deleted(d) /\ UNCHANGED rcpt
  /\ UNCHANGED <<row, file, running, posted, worker, uncache, clearing, todo, purged, restOfAdmin>>

\* The file is looked for where the object says it is.
AdminDeleteFile(d) ==
  LET x == deleter[d] IN
  /\ x.pc = "delfile"
  /\ \/ /\ Works
        /\ file' = IF x.owner = "user"
                   THEN [file EXCEPT ![x.id] = IF @ = "account" THEN "none" ELSE @]
                   ELSE DeleteQueueFile(x.id)
     \/ (Fails \/ (x.owner = "route" /\ UNCHANGED faults)) /\ UNCHANGED file
  /\ Deleted(d)
  /\ UNCHANGED <<row, rcpt, running, posted, worker, uncache, clearing, todo, purged, restOfAdmin>>

\* DeliveryQueue::ResetDeliveryTime: due a minute ago.
ResetDeliveryTime(m) ==
  /\ "reset" \in Ops
  /\ Queued(m)
  /\ row' = SetNextTryTime(m, FALSE, TRUE)
  /\ UNCHANGED <<rcpt, file, running, posted, worker, faults, uncache, adminVars, restOfAdmin>>

\* ProtocolETRN_ for the route.
ETRN ==
  /\ "etrn" \in Ops
  /\ row' = ReleaseRoute
  /\ UNCHANGED <<rcpt, file, running, posted, worker, faults, uncache, adminVars, restOfAdmin>>

TimePasses(m) ==
  /\ row[m].type = "delivering" /\ ~row[m].due
  /\ row' = [row EXCEPT ![m] = [row[m] EXCEPT !.due = TRUE]]
  /\ UNCHANGED <<rcpt, file, running, posted, worker, faults, uncache, adminVars, restOfAdmin>>

\* DeliveryQueueClearer::DoWork, on a thread of the maintenance queue.
Clearer ==
  \/ ClearerStop
  \/ ClearerRefresh
  \/ ClearerNext
  \/ AdminDeleteRow("clear")
  \/ AdminDeleteRecipients("clear")
  \/ AdminDeleteFile("clear")
  \/ ClearerUncache
  \/ ClearerStart

Administer ==
  \/ Clear
  \/ Clearer
  \/ RemoveLock
  \/ AdminDeleteRow("remove")
  \/ AdminDeleteRecipients("remove")
  \/ AdminDeleteFile("remove")
  \/ \E m \in Msgs : Remove(m) \/ ResetDeliveryTime(m)
  \/ ETRN

-----------------------------------------------------------------------------
\* The process dies, and comes up again with what the database and the data
\* directory hold.  A session that had not answered never will, and of what the
\* threads had in hand those are lost whom no later attempt finds in the store.
Crash ==
  /\ crashes < MaxCrashes
  /\ crashes' = crashes + 1
  /\ cut' = [m \in Msgs |-> cut[m] \cup
       {r \in Rcpts : ~Stored(m, r) /\ \E w \in Workers : worker[w].id = m /\ r \in InHand(w)}]
  /\ recv' = [m \in Msgs |-> IF recv[m] \in {"inserted", "saved", "unlocked"}
                             THEN "refused" ELSE recv[m]]
  /\ running' = TRUE
  /\ posted' = {}
  /\ worker' = [w \in Workers |-> Idle]
  /\ holds' = [m \in Msgs |-> 0]
  /\ cache' = {}
  /\ Manager("start")
  /\ pending' = {}
  /\ uncache' = FALSE
  /\ clearing' = "no"
  /\ todo' = {}
  /\ deleter' = [d \in {"clear", "remove"} |-> NoDelete]
  /\ UNCHANGED <<row, rcpt, file, faults, reached, twice, closed, signed, resigned,
                 envelope, taken, stale, purged>>

\* A delivery thread touches nothing but the store and the work queue.
Work(w) ==
  /\ ExecuteTask(w) \/ Deliver(w) \/ Interrupt(w)
  /\ UNCHANGED <<sessionVars, managerVars, adminVars, crashes>>

Next ==
  \/ \E m \in Msgs : Receive(m)
  \/ DoWork
  \/ \E w \in Workers : Work(w)
  \/ Administer
  \/ \E m \in Msgs : TimePasses(m)
  \/ Crash

Spec == Init /\ [][Next]_vars

\* The threads, the manager and the clearer are scheduled, and time passes.  Sessions, the
\* administrator and crashes are up to the world.
Fairness ==
  /\ WF_vars(DoWork)
  /\ \A w \in Workers : WF_vars(Work(w))
  /\ WF_vars(Clearer)
  /\ \A m \in Msgs : WF_vars(TimePasses(m))

FairSpec == Spec /\ Fairness

-----------------------------------------------------------------------------
(* Properties                                                               *)

Settled(m) == reached[m] \cup closed[m] \cup cut[m]

\* Nobody's mail evaporates.  Once the session has answered 250, each recipient
\* of the message has it, or has been given up (by a policy, or with a report
\* to the sender), or is in a delivery thread's hands, or is still in the queue
\* with the row, the recipient row and the data file a later attempt needs --
\* whatever statement failed, whoever stopped the queue and whenever the process
\* died.  The exceptions are spelled out: an administrator deleted the message,
\* or the recipient was in the hands of a thread that was cut short (cut).
NoMailLost ==
  \A m \in Msgs : recv[m] = "accepted" /\ m \notin purged =>
    \A r \in envelope[m] :
      \/ r \in Settled(m)
      \/ Stored(m, r)
      \/ \E w \in Workers : worker[w].id = m /\ r \in InHand(w)

\* The places from which m is, or will be, delivered: the manager's obj, a
\* posted task, and a worker that has not unlocked the message.
InManager(m) == mgr.pc \in {"lock", "post"} /\ mgr.obj.id = m

InQueue(m) == \E t \in posted : t.id = m

InWorker(m) == \E w \in Workers : Delivering(w, m)

\* The lock column does its work: no message is in two delivery threads at
\* once, nor in a thread while the manager or the work queue holds another
\* delivery of it.
OneDeliverer ==
  \A m \in Msgs :
    /\ \A v, w \in Workers : Delivering(v, m) /\ Delivering(w, m) => v = w
    /\ \A s, t \in posted : s.id = m /\ t.id = m => s = t
    /\ InManager(m) => ~InQueue(m) /\ ~InWorker(m)
    /\ InQueue(m) => ~InWorker(m)

\* Why it does: what was handed over is locked (or deleted by an administrator),
\* a listed message is nowhere on its way, a message that is still being saved
\* is locked and unknown to the manager, and nothing is on its way when the
\* manager starts with UnlockAll.
LockedOrGone(m) == row[m].locked \/ row[m].type = "none"

LockInv ==
  /\ \A m \in Msgs :
       /\ InQueue(m) \/ InWorker(m) \/ (mgr.pc = "post" /\ mgr.obj.id = m) => LockedOrGone(m)
       /\ recv[m] \in {"new", "inserted", "saved"} =>
            /\ LockedOrGone(m)
            /\ ~InManager(m) /\ ~InQueue(m) /\ ~InWorker(m)
       /\ recv[m] = "new" => row[m].type = "none"
  /\ \A p \in pending :
       /\ ~InManager(p.id) /\ ~InQueue(p.id) /\ ~InWorker(p.id)
       /\ recv[p.id] \notin {"new", "inserted", "saved"}
       /\ \A q \in pending : p.id = q.id => p = q
  /\ mgr.pc = "start" =>
       /\ posted = {} /\ pending = {}
       /\ \A w \in Workers : At(w, "idle")
       /\ \A m \in Msgs : recv[m] \notin {"inserted", "saved"}
  /\ \A w \in Workers : worker[w].kept => At(w, "bounce")

\* The invariant that the proofs start from: it is inductive.
IInv == TypeOK /\ LockInv /\ OneDeliverer

\* A message is picked up only when it has been saved to the end: its row stays
\* locked until its recipients are in the database.
CompleteWhenTaken ==
  \A m \in Msgs : mgr.pc \in {"lock", "post"} /\ mgr.obj.id = m =>
    recv[m] \notin {"inserted", "saved"}

\* Without failing statements and restarts nobody is sent a message twice,
\* except through a message that the manager takes from the cache after it had
\* already delivered it once from the database.
AtMostOnce ==
  faults = 0 /\ crashes = 0 => \A m \in Msgs \ stale : twice[m] = {}

\* Likewise no message is DKIM-signed and mirrored a second time: a hold does
\* not count as a try, and every other way back into the queue does.
SignedOnce ==
  faults = 0 /\ crashes = 0 => resigned \subseteq stale

\* The retry budget: a message that stays queued has used at most its retries,
\* one more if a stale cached object made its count start over; an ETRN hold
\* counts as one.
RetryBound ==
  \A m \in Msgs : Queued(m) =>
    \/ row[m].tries <= MaxNoOfRetries + (IF m \in stale THEN 1 ELSE 0)
    \/ row[m].tries = 1 /\ EtrnRcpts # {}

\* av_hold_counts_ outgrows kMaxTrackedAvHolds only by the threads that passed
\* the check together.
HoldTableBound ==
  Cardinality({m \in Msgs : holds[m] > 0}) <= MaxTrackedAvHolds + Cardinality(Workers) - 1

\* As long as no statement fails, a queued message whose row is locked is on its
\* way, or an operation that locked it is still at work, or it waits for the
\* UnlockAll of the manager that is about to start.  This is for a queue that is
\* not cleared and has no ETRN route: Clear interrupts a thread before it
\* unlocks, and UnlockAll passes over a held row.
NoStranding ==
  faults = 0 => \A m \in Msgs :
    recv[m] = "accepted" /\ row[m].type = "delivering" /\ row[m].locked =>
      InManager(m) \/ InQueue(m) \/ InWorker(m) \/ deleter["remove"].id = m \/ mgr.pc = "start"

\* Only recipients of the route wait for its ETRN: a message is held when every
\* recipient it still has is one of them, so that nobody else's mail waits with
\* theirs.
HeldForRouteOnly ==
  faults = 0 => \A m \in Msgs : row[m].type = "held" => rcpt[m] \subseteq EtrnRcpts

\* An accepted message is finally settled for every recipient: retries and
\* holds end, and nothing waits for ever.
EventuallySettled ==
  \A m \in Msgs : recv[m] = "accepted" ~> envelope[m] \subseteq Settled(m)

\* And its row leaves the queue, so that no later pass delivers it again.
EventuallyDequeued ==
  \A m \in Msgs : recv[m] = "accepted" ~> ~Queued(m)

-----------------------------------------------------------------------------
(* What comments and documents say, and the code does not do.               *)

\* WarmStandby.md:225: messages a dead server held mid-delivery "are released and
\* retried", at the cost of a duplicate: a restart costs nobody their mail.
RestartLosesNothing ==
  \A m \in Msgs : recv[m] = "accepted" /\ m \notin purged =>
    \A r \in envelope[m] :
      \/ r \in reached[m] \cup closed[m]
      \/ Stored(m, r)
      \/ \E w \in Workers : worker[w].id = m /\ r \in InHand(w)

=============================================================================
