-------------------------- MODULE LeftBehindProofs --------------------------
(***************************************************************************)
(* What a delivery attempt could leave behind: entries of av_hold_counts_  *)
(* and locks in hm_messages.                                               *)
(*                                                                         *)
(* HoldTableBound holds of DeliveryQueue for any finite number of threads. *)
(* TakeAvHold_ looks at the size of av_hold_counts_ when a message could   *)
(* not be scanned, and the entry is made later, by when other threads may  *)
(* have made theirs.  So the bound counts the entries together with those  *)
(* that threads have been promised and not made yet.  That a promise stays *)
(* one entry needs OneDeliverer: nobody else removes the entry of the      *)
(* message a thread has in hand.                                           *)
(***************************************************************************)
EXTENDS MailSteps, DeliveryQueueProofs, FiniteSetTheorems

\* The messages with an entry in av_hold_counts_.
Held == {m \in Msgs : holds[m] > 0}

\* The threads that will add an entry to it.
Promised == {w \in Workers : At(w, "unscannable") /\ worker[w].counted /\ holds[worker[w].id] = 0}

RoomInv ==
  /\ IsFiniteSet(Held)
  /\ Cardinality(Held) + Cardinality(Promised) <= MaxTrackedAvHolds + Cardinality(Workers) - 1

\* Thread w does something that has nothing to do with the table.
Passes(w) == Others(w) /\ worker'[w].pc # "unscannable" /\ UNCHANGED holds

\* Thread w removes the entry of its message, if there is one.
Forgets(w) ==
  /\ Others(w) /\ worker'[w].pc # "unscannable"
  /\ ~At(w, "idle") /\ ~worker[w].kept
  /\ holds' = [holds EXCEPT ![worker[w].id] = 0]

-----------------------------------------------------------------------------
\* Fewer entries and fewer promises are within the bound.
LEMMA Fewer ==
  ASSUME IsFiniteSet(Workers), RoomInv, Held' \subseteq Held, Promised' \subseteq Promised
  PROVE  RoomInv'
<1>1. IsFiniteSet(Promised)
  BY FS_Subset, Zenon DEF Promised
<1>2. IsFiniteSet(Held') /\ Cardinality(Held') <= Cardinality(Held)
  BY FS_Subset, Zenon DEF RoomInv
<1>3. IsFiniteSet(Promised') /\ Cardinality(Promised') <= Cardinality(Promised)
  BY <1>1, FS_Subset, Zenon
<1>4. /\ Cardinality(Held) \in Nat /\ Cardinality(Held') \in Nat
      /\ Cardinality(Promised) \in Nat /\ Cardinality(Promised') \in Nat
      /\ Cardinality(Workers) \in Nat /\ MaxTrackedAvHolds \in Nat
  BY <1>1, <1>2, <1>3, FS_CardinalityType, DelivererAssumption, Zenon DEF RoomInv
<1>5. Cardinality(Held') + Cardinality(Promised') <= MaxTrackedAvHolds + Cardinality(Workers) - 1
  BY <1>2, <1>3, <1>4 DEF RoomInv
<1> QED BY <1>2, <1>5, Zenon DEF RoomInv

LEMMA PassesRoom ==
  ASSUME IsFiniteSet(Workers), RoomInv, NEW w \in Workers, Passes(w)
  PROVE  RoomInv'
<1>1. Held' = Held /\ Promised' \subseteq Promised
  BY Zenon DEF Passes, Held, Promised, Others, At
<1> QED BY <1>1, Fewer, Zenon

\* No other thread has been promised an entry for the message of thread w.
LEMMA ForgetsRoom ==
  ASSUME IsFiniteSet(Workers), IInv, RoomInv, NEW w \in Workers, Forgets(w)
  PROVE  RoomInv'
<1>1. holds \in [Msgs -> Nat]
  BY Zenon DEF IInv, TypeOK, DelivererTypeOK
<1>2. worker[w].id \in Msgs /\ Delivering(w, worker[w].id)
  BY Occupied, Zenon DEF IInv, TypeOK, Forgets, BusyStates, Delivering
<1>3. Held' \subseteq Held
  <2>1. ~(0 > 0)
    OBVIOUS
  <2> QED BY <1>1, <1>2, <2>1, Zenon DEF Held, Forgets
<1>4. ASSUME NEW v \in Promised' PROVE v \in Promised
  <2>1. v \in Workers /\ v # w /\ worker'[v] = worker[v] /\ At(v, "unscannable")
    BY <1>4, Zenon DEF Promised, Forgets, Others, At
  <2>2. worker[v].id \in Msgs /\ Delivering(v, worker[v].id)
    BY <2>1, Unkept, Zenon DEF At, BusyStates, Delivering
  <2>3. worker[v].id # worker[w].id
    BY <1>2, <2>1, <2>2, Zenon DEF IInv, OneDeliverer
  <2>4. holds'[worker[v].id] = holds[worker[v].id]
    BY <1>1, <1>2, <2>2, <2>3, Zenon DEF Forgets
  <2> QED BY <2>1, <2>4, Zenon DEF Promised, At
<1> QED BY <1>3, <1>4, Fewer, Zenon

\* A promise is made only while there is room for one entry more.
LEMMA DefersRoom ==
  ASSUME IsFiniteSet(Workers), IInv, RoomInv, NEW w \in Workers, DeferDelivery(w)
  PROVE  RoomInv'
<1>1. DelivererTypeOK
  BY Zenon DEF IInv, TypeOK
<1>2. /\ worker[w] \in BusyStates /\ Others(w) /\ worker'[w].counted = HoldCounted(worker[w].id)
      /\ worker'[w].id = worker[w].id
  BY <1>1, Defers, Zenon DEF SameLocal, SameTask
<1>3. holds' = holds /\ Held' = Held
  BY Zenon DEF DeferDelivery, Held
<1>4. CASE w \notin Promised'
  <2>1. Promised' \subseteq Promised
    BY <1>2, <1>3, <1>4, Zenon DEF Promised, Others, At
  <2> QED BY <1>3, <2>1, Fewer, Zenon
<1>5. CASE w \in Promised'
  <2>1. HoldCounted(worker[w].id) /\ holds[worker[w].id] = 0
    BY <1>2, <1>3, <1>5, Zenon DEF Promised
  <2>2. Cardinality(Held) < MaxTrackedAvHolds
    <3>1. ~(holds[worker[w].id] > 0)
      BY <2>1
    <3> QED BY <2>1, <3>1, Zenon DEF HoldCounted, Held
  <2>3. IsFiniteSet(Promised') /\ Cardinality(Promised') <= Cardinality(Workers)
    BY FS_Subset, Zenon DEF Promised
  <2>4. /\ Cardinality(Held) \in Nat /\ Cardinality(Promised') \in Nat
        /\ Cardinality(Workers) \in Nat /\ MaxTrackedAvHolds \in Nat
    BY <2>3, FS_CardinalityType, DelivererAssumption, Zenon DEF RoomInv
  <2>5. Cardinality(Held) + Cardinality(Promised') <= MaxTrackedAvHolds + Cardinality(Workers) - 1
    BY <2>2, <2>3, <2>4
  <2> QED BY <1>3, <2>5, Zenon DEF RoomInv
<1> QED BY <1>4, <1>5, Zenon

\* The promise becomes the entry.
LEMMA HoldsRoom ==
  ASSUME IsFiniteSet(Workers), IInv, RoomInv, NEW w \in Workers, HoldUnscannable(w)
  PROVE  RoomInv'
<1>1. DelivererTypeOK /\ holds \in [Msgs -> Nat]
  BY Zenon DEF IInv, TypeOK, DelivererTypeOK
<1>2. /\ worker[w] \in BusyStates /\ Others(w) /\ worker'[w].pc = "holdunlock" /\ At(w, "unscannable")
  BY <1>1, Sent, Zenon DEF HoldUnscannable, At
<1>3. worker[w].id \in Msgs
  BY <1>2, Zenon DEF BusyStates
<1>4. CASE ~worker[w].counted
  <2>1. Passes(w)
    BY <1>2, <1>4, Zenon DEF Passes, HoldUnscannable
  <2> QED BY <2>1, PassesRoom, Zenon
<1>5. CASE worker[w].counted
  <2> DEFINE m == worker[w].id
  <2>1. holds' = [holds EXCEPT ![m] = @ + 1]
    BY <1>5, Zenon DEF HoldUnscannable
  <2>2. /\ holds[m] \in Nat /\ holds'[m] = holds[m] + 1
        /\ \A n \in Msgs : n # m => holds'[n] = holds[n]
    BY <1>1, <1>3, <2>1, Zenon
  <2>3. holds'[m] > 0 /\ holds'[m] # 0
    BY <2>2
  <2>4. Held' = Held \cup {m}
    BY <1>3, <2>2, <2>3, Zenon DEF Held
  <2>5. Promised' \subseteq Promised \ {w}
    <3> SUFFICES ASSUME NEW v \in Promised' PROVE v \in Promised \ {w}
      OBVIOUS
    <3>1. v \in Workers /\ v # w /\ worker'[v] = worker[v] /\ At(v, "unscannable")
      BY <1>2, Zenon DEF Promised, Others, At
    <3>2. worker[v].id \in Msgs
      BY <1>1, <3>1, Occupied, Zenon DEF At, BusyStates
    <3>3. worker[v].id # m
      BY <2>3, <3>1, Zenon DEF Promised
    <3> QED BY <2>2, <3>1, <3>2, <3>3, Zenon DEF Promised, At
  <2>6. IsFiniteSet(Promised)
    BY FS_Subset, Zenon DEF Promised
  <2>7. CASE m \in Held
    <3>1. Held' \subseteq Held /\ Promised' \subseteq Promised
      BY <2>4, <2>5, <2>7, Zenon
    <3> QED BY <3>1, Fewer, Zenon
  <2>8. CASE m \notin Held
    <3>1. w \in Promised
      <4>1. ~(holds[m] > 0)
        BY <1>3, <2>8, Zenon DEF Held
      <4>2. holds[m] = 0
        BY <2>2, <4>1
      <4> QED BY <1>2, <1>5, <4>2, Zenon DEF Promised
    <3>2. IsFiniteSet(Held') /\ Cardinality(Held') = Cardinality(Held) + 1
      BY <2>4, <2>8, FS_AddElement, Zenon DEF RoomInv
    <3>3. IsFiniteSet(Promised \ {w}) /\ Cardinality(Promised \ {w}) = Cardinality(Promised) - 1
      BY <2>6, <3>1, FS_RemoveElement, Zenon
    <3>4. IsFiniteSet(Promised') /\ Cardinality(Promised') <= Cardinality(Promised \ {w})
      BY <2>5, <3>3, FS_Subset, Zenon
    <3>5. /\ Cardinality(Held) \in Nat /\ Cardinality(Promised') \in Nat /\ Cardinality(Promised) \in Nat
          /\ Cardinality(Workers) \in Nat /\ MaxTrackedAvHolds \in Nat
      BY <2>6, <3>4, FS_CardinalityType, DelivererAssumption, Zenon DEF RoomInv
    <3>6. Cardinality(Held') + Cardinality(Promised') <= MaxTrackedAvHolds + Cardinality(Workers) - 1
      BY <3>2, <3>3, <3>4, <3>5 DEF RoomInv
    <3> QED BY <3>2, <3>6, Zenon DEF RoomInv
  <2> QED BY <2>7, <2>8, Zenon
<1> QED BY <1>4, <1>5, Zenon

-----------------------------------------------------------------------------
\* The other steps of a thread leave the table alone or remove an entry.
LEMMA WorkRoom ==
  ASSUME IsFiniteSet(Workers), IInv, RoomInv, NEW w \in Workers, Work(w)
  PROVE  RoomInv'
<1>1. DelivererTypeOK
  BY Zenon DEF IInv, TypeOK
<1>2. Idle.pc = "idle"
  BY Zenon DEF Idle
<1>3. CASE ExecuteTask(w)
  <2>1. PICK t \in posted :
          Continue(w, [Idle EXCEPT !.pc = "check", !.id = t.id, !.rcpts = t.rcpts,
                                   !.tries = t.tries, !.owner = t.owner])
    BY <1>3, Zenon DEF ExecuteTask
  <2>2. /\ Others(w)
        /\ worker'[w] = [Idle EXCEPT !.pc = "check", !.id = t.id, !.rcpts = t.rcpts,
                                     !.tries = t.tries, !.owner = t.owner]
    BY <1>1, <2>1, Continues, Zenon
  <2>3. worker'[w].pc = "check"
    BY <2>2, Zenon DEF Idle
  <2> QED BY <1>3, <2>2, <2>3, PassesRoom, Zenon DEF Passes, ExecuteTask
<1>4. CASE PreprocessMessage(w) \/ AbortDelivery(w)
  <2>1. Others(w) /\ worker'[w].pc \in {"local", "delrow"} /\ ~worker[w].kept /\ ~At(w, "idle")
    BY <1>1, <1>4, Sent, Unkept, Zenon DEF PreprocessMessage, AbortDelivery, At
  <2>2. Forgets(w)
    BY <1>4, <2>1, Zenon DEF Forgets, PreprocessMessage, AbortDelivery
  <2> QED BY <2>2, ForgetsRoom, Zenon
<1>5. CASE RefuseUnscannable(w)
  <2>1. Others(w) /\ worker'[w].pc = "refuse" /\ ~worker[w].kept /\ ~At(w, "idle")
    BY <1>1, <1>5, Refuses, Unkept, Zenon DEF At
  <2>2. Forgets(w)
    BY <1>5, <2>1, Zenon DEF Forgets, RefuseUnscannable
  <2> QED BY <2>2, ForgetsRoom, Zenon
<1>6. CASE DeferDelivery(w)
  BY <1>6, DefersRoom, Zenon
<1>7. CASE HoldUnscannable(w)
  BY <1>7, HoldsRoom, Zenon
<1>8. CASE CheckMessage(w) \/ LocalDone(w) \/ Collected(w) \/ HoldForEtrn(w) \/ RescheduleDelivery(w)
  <2>1. PICK pc \in {"preprocess", "delrow", "external", "bounce", "reschedule", "unlock"} : Goto(w, pc)
    BY <1>8, Zenon DEF CheckMessage, LocalDone, Collected, HoldForEtrn, RescheduleDelivery
  <2>2. ~At(w, "idle") /\ UNCHANGED holds
    BY <1>8, Zenon DEF CheckMessage, LocalDone, Collected, HoldForEtrn, RescheduleDelivery, At
  <2>3. Others(w) /\ worker'[w].pc = pc
    BY <1>1, <2>1, <2>2, Sent, Zenon
  <2> QED BY <2>1, <2>2, <2>3, PassesRoom, Zenon DEF Passes
<1>9. CASE UnlockHeld(w) \/ DeleteDataFile(w) \/ Interrupt(w)
  <2>1. Finish(w) /\ UNCHANGED holds
    BY <1>9, Zenon DEF UnlockHeld, DeleteDataFile, Interrupt
  <2> QED BY <1>1, <1>2, <2>1, Finishes, PassesRoom, Zenon DEF Passes
<1>10. CASE DeleteQueueRow(w) \/ DeleteQueueRecipients(w)
  <2>1. /\ UNCHANGED holds /\ ~At(w, "idle")
        /\ Finish(w) \/ Goto(w, "delrcpt") \/ Goto(w, "delfile")
    BY <1>10, Zenon DEF DeleteQueueRow, DeleteQueueRecipients, At
  <2>2. Others(w) /\ worker'[w].pc \in {"idle", "delrcpt", "delfile"}
    BY <1>1, <1>2, <2>1, Finishes, Sent, Zenon
  <2> QED BY <2>1, <2>2, PassesRoom, Zenon DEF Passes
<1>11. ASSUME NEW r \in LocalRcpts,
              DropLocal(w, r) \/ RejectLocal(w, r) \/ CopyToAccount(w, r) \/ ReuseMessage(w, r)
       PROVE  RoomInv'
  <2>1. Others(w) /\ worker'[w].pc \in {"localrow", "save"}
    BY <1>1, <1>11, Drops, Rejects, Copies, Reuses, Zenon DEF Handled
  <2>2. UNCHANGED holds
    BY <1>11, Zenon DEF DropLocal, RejectLocal, CopyToAccount, ReuseMessage
  <2> QED BY <2>1, <2>2, PassesRoom, Zenon DEF Passes
<1>12. CASE DropReused(w) \/ SaveReused(w) \/ DeleteLocalRecipient(w)
  <2>1. Others(w) /\ worker'[w].pc \in {"localrow", "local"}
    BY <1>1, <1>12, DropsReused, SavesReused, DeletesLocal, Zenon
  <2>2. UNCHANGED holds
    BY <1>12, Zenon DEF DropReused, SaveReused, DeleteLocalRecipient
  <2> QED BY <2>1, <2>2, PassesRoom, Zenon DEF Passes
<1>13. CASE DeliverBatch(w) \/ CollectDeliveryResult(w) \/ UnlockRescheduled(w) \/ GiveUp(w)
  <2>1. Others(w) /\ worker'[w].pc \in {"collect", "bounce"}
    BY <1>1, <1>13, Batches, Collects, UnlocksRescheduled, GivesUp, Zenon
  <2>2. UNCHANGED holds
    BY <1>13, Zenon DEF DeliverBatch, CollectDeliveryResult, UnlockRescheduled, GiveUp
  <2> QED BY <2>1, <2>2, PassesRoom, Zenon DEF Passes
<1>14. CASE SubmitErrorLog(w)
  <2>1. Others(w) /\ worker'[w].pc \in {"idle", "delrow"}
    BY <1>1, <1>2, <1>14, Submits, Zenon
  <2> QED BY <1>14, <2>1, PassesRoom, Zenon DEF Passes, SubmitErrorLog
<1> QED BY <1>3, <1>4, <1>5, <1>6, <1>7, <1>8, <1>9, <1>10, <1>11, <1>12, <1>13, <1>14, Zenon
     DEF Work, Deliver

\* Whoever else moves leaves the entries and the promises as they are.
LEMMA OthersRoom ==
  ASSUME IsFiniteSet(Workers), RoomInv, UNCHANGED holds,
         \A w \in Workers : /\ worker'[w].pc = worker[w].pc
                            /\ worker'[w].counted = worker[w].counted
                            /\ worker'[w].id = worker[w].id
  PROVE  RoomInv'
<1>1. Held' = Held /\ Promised' \subseteq Promised
  BY Zenon DEF Held, Promised, At
<1> QED BY <1>1, Fewer, Zenon

\* There is room for the entries when there is none and none is promised.
LEMMA EmptyTable ==
  ASSUME IsFiniteSet(Workers), Workers # {}
  PROVE  /\ IsFiniteSet({})
         /\ Cardinality({}) + Cardinality({}) <= MaxTrackedAvHolds + Cardinality(Workers) - 1
<1>1. Cardinality(Workers) \in Nat /\ Cardinality(Workers) # 0
  BY FS_CardinalityType, FS_EmptySet, Zenon
<1> QED BY <1>1, FS_EmptySet, DelivererAssumption

\* No count is above 0 when all are 0, and an idle thread is promised nothing.
LEMMA NoCount == ~(0 > 0) /\ Idle.pc # "unscannable"
BY DEF Idle

LEMMA RoomStep ==
  ASSUME IsFiniteSet(Workers), Workers # {}, IInv, RoomInv, [Next]_vars
  PROVE  RoomInv'
<1>1. CASE UNCHANGED <<holds, worker>>
  BY <1>1, OthersRoom, Zenon
<1>2. CASE ClearerStop
  <2>1. \A w \in Workers : worker'[w].pc = worker[w].pc /\ Same(worker[w], worker'[w])
    BY <1>2, Stops, Zenon DEF ClearerStop, IInv, TypeOK
  <2>2. UNCHANGED holds
    BY <1>2, Zenon DEF ClearerStop, restOfAdmin
  <2> QED BY <2>1, <2>2, OthersRoom, Zenon DEF Same, SameLocal, SameTask, SameFlags
<1>3. CASE Crash
  <2>1. /\ holds' = [m \in Msgs |-> 0]
        /\ \A w \in Workers : worker'[w] = Idle
    BY <1>3, Zenon DEF Crash
  <2>2. Held' = {} /\ Promised' = {}
    BY <2>1, NoCount, Zenon DEF Held, Promised, At
  <2> QED BY <2>2, EmptyTable, Zenon DEF RoomInv
<1>4. ASSUME NEW m \in Msgs, Receive(m) \/ TimePasses(m)
      PROVE  UNCHANGED <<holds, worker>>
  BY <1>4, Zenon DEF Receive, InsertMessage, SaveRecipients, UnlockSaved, AcceptMessage,
     TimePasses, restOfSession, delivererVars, restOfAdmin
<1>5. ASSUME DoWork PROVE UNCHANGED <<holds, worker>>
  BY <1>5, Zenon DEF DoWork, StartManager, LoadPendingMessageList, TakeFromCache, TakeFromDatabase,
     LockMessage, AddTask, WakeManager, restOfManager
<1>6. ASSUME Administer PROVE UNCHANGED <<holds, worker>> \/ ClearerStop
  BY <1>6, Zenon DEF Administer, Clearer, Clear, ClearerRefresh, ClearerNext, ClearerUncache, ClearerStart,
     Remove, RemoveLock, AdminDeleteRow, AdminDeleteRecipients, AdminDeleteFile, ResetDeliveryTime, ETRN,
     restOfAdmin
<1>7. ASSUME UNCHANGED vars PROVE UNCHANGED <<holds, worker>>
  BY <1>7, Zenon DEF vars, delivererVars
<1> QED BY <1>1, <1>2, <1>3, <1>4, <1>5, <1>6, <1>7, WorkRoom, Zenon DEF Next

-----------------------------------------------------------------------------
\* av_hold_counts_ outgrows kMaxTrackedAvHolds by no more than the threads that
\* passed the check of TakeAvHold_ together, one fewer than the queue has: for
\* any limit and any queue of one thread or more, through restarts.
THEOREM HoldTableIsBounded ==
  ASSUME EarlySessions = FALSE, IsFiniteSet(Workers), Workers # {}
  PROVE  Spec => []HoldTableBound
<1>1. Init => IInv /\ RoomInv
  <2>1. Init => holds = [m \in Msgs |-> 0] /\ \A w \in Workers : worker[w] = Idle
    BY Zenon DEF Init, DelivererInit
  <2>2. Init => Held = {} /\ Promised = {}
    BY <2>1, NoCount, Zenon DEF Held, Promised, At
  <2> QED BY <2>2, LockInit, EmptyTable, Zenon DEF RoomInv
<1>2. IInv /\ RoomInv /\ [Next]_vars => (IInv /\ RoomInv)'
  BY LockStep, RoomStep, Zenon
<1>3. RoomInv => HoldTableBound
  <2> SUFFICES ASSUME RoomInv PROVE HoldTableBound
    OBVIOUS
  <2>1. IsFiniteSet(Promised)
    BY FS_Subset, Zenon DEF Promised
  <2>2. /\ Cardinality(Held) \in Nat /\ Cardinality(Promised) \in Nat
        /\ Cardinality(Workers) \in Nat /\ MaxTrackedAvHolds \in Nat
    BY <2>1, FS_CardinalityType, DelivererAssumption, Zenon DEF RoomInv
  <2>3. Cardinality(Held) <= MaxTrackedAvHolds + Cardinality(Workers) - 1
    BY <2>2 DEF RoomInv
  <2> QED BY <2>3, Zenon DEF HoldTableBound, Held
<1> QED BY <1>1, <1>2, <1>3, PTL DEF Spec

-----------------------------------------------------------------------------
(***************************************************************************)
(* NoStranding holds where no queue is cleared and no route waits for      *)
(* ETRN.  With either it does not: a clearer interrupts threads before     *)
(* they unlock their messages, and a row held for a route, if the process  *)
(* dies before it is unlocked, keeps its lock through UnlockAll and is     *)
(* listed, still locked, when it is released.                              *)
(*                                                                         *)
(* A locked row stays locked only if whoever holds the message ends        *)
(* without unlocking or deleting it, which DeliverMessage does for an      *)
(* object that claims an account (HM5208).  So the invariant says where    *)
(* such a claim can come from: from the moved file of the last recipient,  *)
(* whose row has left the queue by the time the attempt ends.              *)
(***************************************************************************)

\* No queue is cleared and no thread interrupted.
Undisturbed ==
  /\ running /\ clearing = "no" /\ deleter["clear"].pc = "idle"
  /\ \A w \in Workers : ~worker[w].hit

\* The manager will list the message once it is due and not locked.
Listed(m) == row[m].type = "delivering"

OnItsWay(m) ==
  InManager(m) \/ InQueue(m) \/ InWorker(m) \/ deleter["remove"].id = m \/ mgr.pc = "start"

\* A locked row has somebody who will unlock or delete it.
RowFree(m) ==
  /\ row[m].type # "held" /\ (Listed(m) => row[m].owner = "none")
  /\ recv[m] \in {"unlocked", "accepted"} /\ Listed(m) /\ row[m].locked => OnItsWay(m)

\* The recipients left when the local one in hand has been dealt with.
Left(x) == IF x.pc = "localrow" THEN x.rcpts \ x.cur ELSE x.rcpts

\* What a thread with the locals x needs to get rid of the lock of m: the object
\* claims an account only if the file went there, and then the row has left
\* the queue, or is about to; the file is there for as long as there are
\* recipients; and the row goes first.
Releases(x, m) ==
  /\ x.owner # "none" => x.reused
  /\ x.pc = "save" => x.rcpts = x.cur
  /\ x.pc = "reschedule" => x.soft # {}
  /\ Listed(m) =>
       /\ x.reused => x.pc = "save"
       /\ x.pc \notin {"delrcpt", "delfile"}
       /\ x.pc \in {"preprocess", "local", "localrow"} /\ Left(x) # {} => file[m] = "queue"

Removing ==
  LET x == deleter["remove"] IN
  /\ x.pc \in {"delrcpt", "delfile"} => ~Listed(x.id)
  /\ x.pc # "idle" => recv[x.id] # "new"

Tidy ==
  /\ \A m \in Msgs : RowFree(m)
  /\ \A p \in pending : p.owner = "none"
  /\ \A t \in posted : t.owner = "none"
  /\ mgr.obj.owner = "none"
  /\ \A w \in Workers, m \in Msgs : Delivering(w, m) => Releases(worker[w], m)
  /\ Removing

StrandInv == Undisturbed /\ (faults = 0 => Tidy)

-----------------------------------------------------------------------------
(* Nobody is interrupted *)

\* A thread is not interrupted by what it does itself.
LEMMA WorkUnhit ==
  ASSUME IInv, NEW w \in Workers, Work(w), ~worker[w].hit
  PROVE  Others(w) /\ ~worker'[w].hit
<1>1. DelivererTypeOK
  BY Zenon DEF IInv, TypeOK
<1>2. ~Idle.hit
  BY Zenon DEF Idle
<1>3. ASSUME Finish(w) PROVE Others(w) /\ ~worker'[w].hit
  BY <1>1, <1>2, <1>3, Finishes, Zenon
<1>4. ASSUME NEW next, Continue(w, next), ~next.hit PROVE Others(w) /\ ~worker'[w].hit
  <2>1. worker'[w] = next /\ Others(w)
    BY <1>1, <1>4, Continues, Zenon
  <2> QED BY <1>4, <2>1, Zenon
<1>5. CASE ExecuteTask(w)
  <2>1. PICK t \in posted :
          Continue(w, [Idle EXCEPT !.pc = "check", !.id = t.id, !.rcpts = t.rcpts,
                                   !.tries = t.tries, !.owner = t.owner])
    BY <1>5, Zenon DEF ExecuteTask
  <2>2. ~[Idle EXCEPT !.pc = "check", !.id = t.id, !.rcpts = t.rcpts, !.tries = t.tries, !.owner = t.owner].hit
    BY Zenon DEF Idle
  <2> QED BY <1>4, <2>1, <2>2, Zenon
<1>6. CASE ~ExecuteTask(w)
  <2>1. worker[w] \in BusyStates
    BY <1>1, <1>6, DeliverBusy, Zenon DEF Work
  <2>2. \A pc : ~[worker[w] EXCEPT !.pc = pc].hit
    BY <2>1, Zenon DEF BusyStates
  <2>3. ASSUME NEW pc, Goto(w, pc) PROVE Others(w) /\ ~worker'[w].hit
    BY <1>4, <2>2, <2>3, Zenon DEF Goto
  <2>4. CASE CheckMessage(w) \/ PreprocessMessage(w) \/ AbortDelivery(w) \/ HoldUnscannable(w)
             \/ LocalDone(w) \/ Collected(w) \/ HoldForEtrn(w) \/ RescheduleDelivery(w)
    BY <2>3, <2>4, Zenon DEF CheckMessage, PreprocessMessage, AbortDelivery, HoldUnscannable, LocalDone,
       Collected, HoldForEtrn, RescheduleDelivery
  <2>5. CASE UnlockHeld(w) \/ DeleteDataFile(w) \/ Interrupt(w)
    BY <1>3, <2>5, Zenon DEF UnlockHeld, DeleteDataFile, Interrupt
  <2>6. CASE DeleteQueueRow(w) \/ DeleteQueueRecipients(w)
    BY <1>3, <2>3, <2>6, Zenon DEF DeleteQueueRow, DeleteQueueRecipients
  <2>7. CASE DeferDelivery(w)
    <3>1. ~[worker[w] EXCEPT !.pc = "unscannable", !.counted = HoldCounted(worker[w].id)].hit
      BY <2>1, Zenon DEF BusyStates
    <3> QED BY <1>4, <2>7, <3>1, Zenon DEF DeferDelivery
  <2>8. CASE RefuseUnscannable(w)
    <3>1. ~[worker[w] EXCEPT !.pc = "refuse", !.errs = worker[w].rcpts].hit
      BY <2>1, Zenon DEF BusyStates
    <3> QED BY <1>4, <2>8, <3>1, Zenon DEF RefuseUnscannable
  <2>9. ASSUME NEW r, NEW next, LocalFailure(w, r, next), ~next.hit,
               "hit" \in DOMAIN next
        PROVE  Others(w) /\ ~worker'[w].hit
    <3>1. ~[next EXCEPT !.errs = @ \cup ({r} \ Silent)].hit
      BY <2>9, Zenon
    <3> QED BY <1>4, <2>9, <3>1, Zenon DEF LocalFailure
  <2>10. ASSUME NEW r \in LocalRcpts, DropLocal(w, r) \/ RejectLocal(w, r) \/ CopyToAccount(w, r)
         PROVE  Others(w) /\ ~worker'[w].hit
    <3>1. PICK shared : LET next == [worker[w] EXCEPT !.pc = "localrow", !.cur = {r}, !.shared = shared]
                        IN  Continue(w, next) \/ LocalFailure(w, r, next)
      BY <2>10, Zenon DEF DropLocal, RejectLocal, CopyToAccount
    <3> DEFINE next == [worker[w] EXCEPT !.pc = "localrow", !.cur = {r}, !.shared = shared]
    <3>2. ~next.hit /\ "hit" \in DOMAIN next
      BY <2>1, Zenon DEF BusyStates
    <3> QED BY <1>4, <2>9, <3>1, <3>2, Zenon
  <2>11. ASSUME NEW r \in LocalRcpts, ReuseMessage(w, r)
         PROVE  Others(w) /\ ~worker'[w].hit
    <3>1. /\ ~[worker[w] EXCEPT !.pc = "save", !.cur = {r}, !.reused = TRUE, !.owner = "user"].hit
          /\ ~[worker[w] EXCEPT !.pc = "localrow", !.cur = {r}, !.reused = TRUE, !.owner = "user"].hit
          /\ "hit" \in DOMAIN [worker[w] EXCEPT !.pc = "localrow", !.cur = {r}, !.reused = TRUE, !.owner = "user"]
      BY <2>1, Zenon DEF BusyStates
    <3> QED BY <1>4, <2>9, <2>11, <3>1, Zenon DEF ReuseMessage
  <2>12. CASE DropReused(w) \/ SaveReused(w)
    <3>1. /\ ~GiveBack(w).hit /\ "hit" \in DOMAIN GiveBack(w)
          /\ ~[worker[w] EXCEPT !.pc = "localrow", !.saved = TRUE].hit
      BY <2>1, Zenon DEF BusyStates, GiveBack
    <3>2. ~[GiveBack(w) EXCEPT !.saved = TRUE].hit /\ "hit" \in DOMAIN [GiveBack(w) EXCEPT !.saved = TRUE]
      BY <3>1, Zenon
    <3> QED BY <1>4, <2>9, <2>12, <3>1, <3>2, Zenon DEF DropReused, SaveReused
  <2>13. CASE DeleteLocalRecipient(w)
    <3>1. ~[worker[w] EXCEPT !.pc = "local", !.cur = {}, !.rcpts = @ \ worker[w].cur].hit
      BY <2>1, Zenon DEF BusyStates
    <3> QED BY <1>4, <2>13, <3>1, Zenon DEF DeleteLocalRecipient
  <2>14. CASE DeliverBatch(w)
    <3>1. PICK batch, ok, fatal :
            Continue(w, [worker[w] EXCEPT !.pc = "collect", !.rcpts = @ \ batch, !.ok = ok, !.fatal = fatal,
                                          !.soft = @ \cup (batch \ (ok \cup fatal))])
      BY <2>14, Zenon DEF DeliverBatch
    <3>2. ~[worker[w] EXCEPT !.pc = "collect", !.rcpts = @ \ batch, !.ok = ok, !.fatal = fatal,
                             !.soft = @ \cup (batch \ (ok \cup fatal))].hit
      BY <2>1, Zenon DEF BusyStates
    <3> QED BY <1>4, <3>1, <3>2, Zenon
  <2>15. CASE CollectDeliveryResult(w)
    <3>1. PICK r :
            Continue(w, [worker[w] EXCEPT !.ok = @ \ {r}, !.fatal = @ \ {r},
                                          !.errs = @ \cup (({r} \cap worker[w].fatal) \ Silent)])
      BY <2>15, Zenon DEF CollectDeliveryResult
    <3>2. ~[worker[w] EXCEPT !.ok = @ \ {r}, !.fatal = @ \ {r},
                             !.errs = @ \cup (({r} \cap worker[w].fatal) \ Silent)].hit
      BY <2>1, Zenon DEF BusyStates
    <3> QED BY <1>4, <3>1, <3>2, Zenon
  <2>16. CASE UnlockRescheduled(w)
    <3>1. ~[worker[w] EXCEPT !.pc = "bounce", !.kept = TRUE].hit
      BY <2>1, Zenon DEF BusyStates
    <3> QED BY <1>4, <2>16, <3>1, Zenon DEF UnlockRescheduled
  <2>17. CASE GiveUp(w)
    <3>1. ~[worker[w] EXCEPT !.pc = "bounce", !.errs = @ \cup (worker[w].soft \ Silent)].hit
      BY <2>1, Zenon DEF BusyStates
    <3> QED BY <1>4, <2>17, <3>1, Zenon DEF GiveUp
  <2>18. CASE SubmitErrorLog(w)
    <3>1. ~[worker[w] EXCEPT !.pc = "delrow", !.errs = {}].hit
      BY <2>1, Zenon DEF BusyStates
    <3> QED BY <1>3, <1>4, <2>18, <3>1, Zenon DEF SubmitErrorLog
  <2> QED BY <1>6, <2>4, <2>5, <2>6, <2>7, <2>8, <2>10, <2>11, <2>12, <2>13, <2>14, <2>15,
       <2>16, <2>17, <2>18, Zenon DEF Work, Deliver
<1> QED BY <1>5, <1>6, Zenon

-----------------------------------------------------------------------------
(* The rest of the server does not move *)

Unmoved == UNCHANGED <<posted, pending, mgr, recv, deleter>>

\* Only the row and the file of m are written, and m is not listed anew.
OwnRow(m) ==
  /\ \A n \in Msgs : n # m => row'[n] = row[n] /\ file'[n] = file[n]
  /\ row'[m].type # "held"
  /\ Listed(m)' => Listed(m) /\ row'[m].owner = row[m].owner

\* A thread goes on with its message, or it ends with the message unlocked or
\* no longer listed.
LEMMA OwnTidy ==
  ASSUME IInv, Tidy, NEW w \in Workers, NEW m \in Msgs, Delivering(w, m), Others(w), Unmoved, OwnRow(m),
         \/ Delivering(w, m)' /\ Releases(worker[w], m)'
         \/ (\A n \in Msgs : ~Delivering(w, n)') /\ (Listed(m)' => ~row'[m].locked)
  PROVE  Tidy'
<1>1. \A n \in Msgs : n # m /\ OnItsWay(n) => OnItsWay(n)'
  BY Zenon DEF OnItsWay, InManager, InQueue, InWorker, Delivering, At, Others, Unmoved
<1>2. ASSUME NEW n \in Msgs PROVE RowFree(n)'
  <2>1. RowFree(n)
    BY Zenon DEF Tidy
  <2>2. CASE n # m
    BY <1>1, <2>1, <2>2, Zenon DEF RowFree, Listed, OwnRow, Unmoved
  <2>3. CASE n = m
    <3>1. Listed(m)' /\ row'[m].locked => OnItsWay(m)'
      BY Zenon DEF OnItsWay, InWorker
    <3> QED BY <2>1, <2>3, <3>1, Zenon DEF RowFree, Listed, OwnRow
  <2> QED BY <2>2, <2>3, Zenon
<1>3. ASSUME NEW v \in Workers, NEW n \in Msgs, Delivering(v, n)' PROVE Releases(worker[v], n)'
  <2>1. CASE v = w
    BY <1>3, <2>1, Zenon DEF Delivering
  <2>2. CASE v # w
    <3>1. worker'[v] = worker[v] /\ Delivering(v, n)
      BY <1>3, <2>2, Zenon DEF Others, Delivering, At
    <3>2. n # m
      BY <2>2, <3>1, Zenon DEF IInv, OneDeliverer
    <3>3. Releases(worker[v], n) /\ row'[n] = row[n] /\ file'[n] = file[n]
      BY <3>1, <3>2, Zenon DEF Tidy, OwnRow
    <3> QED BY <3>1, <3>3, Zenon DEF Releases, Listed, Left
  <2> QED BY <2>1, <2>2, Zenon
<1>4. Removing'
  <2>1. Removing /\ deleter' = deleter /\ recv' = recv
    BY Zenon DEF Tidy, Unmoved
  <2>2. \A n \in Msgs : Listed(n)' => Listed(n)
    BY Zenon DEF OwnRow, Listed
  <2>3. deleter["remove"].pc # "idle" => deleter["remove"].id \in Msgs
    BY DeleterId, Zenon DEF IInv
  <2> QED BY <2>1, <2>2, <2>3, Zenon DEF Removing
<1> QED BY <1>2, <1>3, <1>4, Zenon DEF Tidy, Unmoved

\* Where no statement has failed, none fails in this step.
LEMMA NoFail ==
  ASSUME IInv, faults' = 0
  PROVE  ~Fails
<1>1. faults \in Nat
  BY Zenon DEF IInv, TypeOK, DelivererTypeOK
<1> QED BY <1>1 DEF Fails

\* R is a table in which only the row of m may differ: it is not held, and
\* listed only if it was, for the same account.
Writes(m, R) ==
  /\ \A n \in Msgs : n # m => R[n] = row[n]
  /\ R[m].type # "held"
  /\ R[m].type = "delivering" => Listed(m) /\ R[m].owner = row[m].owner

\* What the statements on hm_messages do to a row that is not held.
LEMMA Statements ==
  ASSUME StoreTypeOK, NEW m \in Msgs, row[m].type # "held", NEW b \in BOOLEAN, NEW d \in BOOLEAN
  PROVE  /\ Writes(m, row)
         /\ Writes(m, SetNextTryTime(m, b, d))
         /\ Writes(m, LockObject(m))
         /\ Writes(m, UnlockObject(m))
         /\ Writes(m, SaveDelivered(m))
         /\ Writes(m, DeleteRow(m))
         /\ UnlockObject(m)[m].type = "delivering" => ~UnlockObject(m)[m].locked
         /\ SaveDelivered(m)[m].type # "delivering" /\ DeleteRow(m)[m].type # "delivering"
<1>1. row \in [Msgs -> Rows] /\ row[m] \in Rows
  BY Zenon DEF StoreTypeOK
<1>2. ASSUME NEW r
      PROVE  [row EXCEPT ![m] = r][m] = r /\ \A n \in Msgs : n # m => [row EXCEPT ![m] = r][n] = row[n]
  BY <1>1, Zenon
<1>3. Writes(m, row)
  BY Zenon DEF Writes, Listed
<1>4. ASSUME NEW r \in Rows, r.type = row[m].type, r.owner = row[m].owner
      PROVE  Writes(m, Update(m, r)) /\ Writes(m, [row EXCEPT ![m] = r])
  BY <1>2, <1>3, <1>4, Zenon DEF Writes, Update, Listed
<1>5. /\ [row[m] EXCEPT !.locked = TRUE] \in Rows
      /\ [row[m] EXCEPT !.locked = TRUE].type = row[m].type
      /\ [row[m] EXCEPT !.locked = TRUE].owner = row[m].owner
  BY <1>1, Zenon DEF Rows
<1>6. /\ [row[m] EXCEPT !.locked = FALSE] \in Rows
      /\ [row[m] EXCEPT !.locked = FALSE].type = row[m].type
      /\ [row[m] EXCEPT !.locked = FALSE].owner = row[m].owner
      /\ ~[row[m] EXCEPT !.locked = FALSE].locked
  BY <1>1, Zenon DEF Rows
<1>7. Writes(m, LockObject(m)) /\ Writes(m, UnlockObject(m))
  BY <1>4, <1>5, <1>6, Zenon DEF LockObject, UnlockObject
<1>8. UnlockObject(m)[m].type = "delivering" => ~UnlockObject(m)[m].locked
  BY <1>2, <1>6, Zenon DEF UnlockObject, Update, Exists
<1>9. Writes(m, SetNextTryTime(m, b, d))
  <2> DEFINE r == [row[m] EXCEPT !.type = "delivering", !.due = d, !.tries = IF b THEN @ + 1 ELSE @]
  <2>1. row[m].tries \in Nat /\ row[m].tries + 1 \in Nat
    BY <1>1 DEF Rows
  <2>2. (IF b THEN row[m].tries + 1 ELSE row[m].tries) \in Nat
    BY <2>1, Zenon
  <2>3. r \in Rows /\ r.type = "delivering" /\ r.owner = row[m].owner
    BY <1>1, <2>2, Zenon DEF Rows, Types
  <2>4. Queued(m) => row[m].type = "delivering"
    BY Zenon DEF Queued
  <2>5. CASE Queued(m)
    BY <1>4, <2>3, <2>4, <2>5, Zenon DEF SetNextTryTime
  <2>6. CASE ~Queued(m)
    BY <1>3, <2>6, Zenon DEF SetNextTryTime
  <2> QED BY <2>5, <2>6, Zenon
<1>10. Writes(m, SaveDelivered(m)) /\ SaveDelivered(m)[m].type # "delivering"
  <2>1. [row[m] EXCEPT !.type = "delivered", !.owner = "user"].type = "delivered"
    BY <1>1, Zenon DEF Rows
  <2> QED BY <1>2, <1>3, <2>1, Zenon DEF Writes, SaveDelivered, Update, Exists
<1>11. Writes(m, DeleteRow(m)) /\ DeleteRow(m)[m].type # "delivering"
  <2>1. NoRow.type = "none"
    BY Zenon DEF NoRow
  <2> QED BY <1>2, <2>1, Zenon DEF Writes, DeleteRow
<1> QED BY <1>3, <1>7, <1>8, <1>9, <1>10, <1>11, Zenon

-----------------------------------------------------------------------------
(* The steps of a delivery *)

\* Thread w is about to do a step of the delivery of m.
Acts(w, m) ==
  /\ m = worker[w].id /\ worker[w] \in BusyStates /\ ~worker[w].kept
  /\ Unmoved

LEMMA Acting ==
  ASSUME IInv, Tidy, NEW w \in Workers, NEW m \in Msgs, Acts(w, m)
  PROVE  /\ DelivererTypeOK /\ StoreTypeOK
         /\ Delivering(w, m) /\ Releases(worker[w], m) /\ row[m].type # "held"
<1>1. worker[w].pc # "idle"
  BY Zenon DEF Acts, BusyStates, Steps
<1>2. Delivering(w, m)
  BY <1>1, Zenon DEF Acts, Delivering, At
<1> QED BY <1>2, Zenon DEF Tidy, RowFree, IInv, TypeOK, DelivererTypeOK

\* A step that leaves row and file as they are.
LEMMA StillTidy ==
  ASSUME IInv, Tidy, NEW w \in Workers, NEW m \in Msgs, Acts(w, m), Others(w), UNCHANGED <<row, file>>,
         worker'[w].id = m, worker'[w].pc # "idle", ~worker'[w].kept, Releases(worker'[w], m)
  PROVE  Tidy'
<1>1. Delivering(w, m) /\ row[m].type # "held"
  BY Acting, Zenon
<1>2. OwnRow(m)
  BY <1>1, Zenon DEF OwnRow, Listed
<1>3. Delivering(w, m)'
  BY Zenon DEF Delivering, At
<1>4. Releases(worker[w], m)'
  BY Zenon DEF Releases, Listed, Left
<1>5. Unmoved
  BY Zenon DEF Acts
<1> QED BY <1>1, <1>2, <1>3, <1>4, <1>5, OwnTidy, Zenon

LEMMA FirstTidy ==
  ASSUME IInv, Tidy, NEW w \in Workers, NEW m \in Msgs, Acts(w, m),
         CheckMessage(w) \/ PreprocessMessage(w) \/ AbortDelivery(w) \/ DeferDelivery(w) \/ RefuseUnscannable(w)
  PROVE  Tidy'
<1>1. /\ DelivererTypeOK /\ Releases(worker[w], m) /\ ~At(w, "idle") /\ worker[w].id = m /\ ~worker[w].kept
  BY Acting, Zenon DEF Delivering
<1>2. UNCHANGED <<row, file>>
  BY Zenon DEF CheckMessage, PreprocessMessage, AbortDelivery, DeferDelivery, RefuseUnscannable
<1>3. CASE CheckMessage(w)
  <2>1. PICK pc \in {"preprocess", "delrow"} : Goto(w, pc) /\ (pc = "preprocess" => file[m] = "queue")
    BY <1>1, <1>3, Zenon DEF CheckMessage
  <2>2. Others(w) /\ worker'[w].pc = pc /\ Same(worker[w], worker'[w]) /\ worker[w].pc = "check"
    BY <1>1, <1>3, <2>1, Sent, Zenon DEF CheckMessage, At
  <2>3. Releases(worker'[w], m)
    BY <1>1, <2>1, <2>2, Zenon DEF Releases, Left, Same, SameLocal, SameRcpts, SameFlags
  <2> QED BY <1>1, <1>2, <2>1, <2>2, <2>3, StillTidy, Zenon DEF Same, SameLocal, SameTask
<1>4. CASE PreprocessMessage(w) \/ AbortDelivery(w)
  <2>1. PICK pc \in {"local", "delrow"} : Goto(w, pc)
    BY <1>4, Zenon DEF PreprocessMessage, AbortDelivery
  <2>2. Others(w) /\ worker'[w].pc = pc /\ Same(worker[w], worker'[w]) /\ worker[w].pc = "preprocess"
    BY <1>1, <1>4, <2>1, Sent, Zenon DEF PreprocessMessage, AbortDelivery, At
  <2>3. Releases(worker'[w], m)
    BY <1>1, <2>1, <2>2, Zenon DEF Releases, Left, Same, SameLocal, SameRcpts, SameFlags
  <2> QED BY <1>1, <1>2, <2>1, <2>2, <2>3, StillTidy, Zenon DEF Same, SameLocal, SameTask
<1>5. CASE DeferDelivery(w) \/ RefuseUnscannable(w)
  <2>1. /\ Others(w) /\ worker[w].pc \in {"preprocess", "unscannable"}
        /\ worker'[w].pc \in {"unscannable", "refuse"}
        /\ worker'[w].owner = worker[w].owner /\ worker'[w].reused = worker[w].reused
        /\ SameLocal(worker[w], worker'[w])
    BY <1>1, <1>5, Defers, Refuses, Zenon DEF SameFlags
  <2>2. Releases(worker'[w], m)
    BY <1>1, <2>1, Zenon DEF Releases
  <2> QED BY <1>1, <1>2, <2>1, <2>2, StillTidy, Zenon DEF SameLocal, SameTask
<1> QED BY <1>3, <1>4, <1>5, Zenon

\* A local recipient is handled without the file being moved.
LEMMA HandledTidy ==
  ASSUME IInv, Tidy, NEW w \in Workers, NEW m \in Msgs, Acts(w, m), NEW r,
         DropLocal(w, r) \/ RejectLocal(w, r) \/ CopyToAccount(w, r)
  PROVE  Tidy'
<1>1. /\ DelivererTypeOK /\ Releases(worker[w], m) /\ worker[w].id = m /\ ~worker[w].kept
  BY Acting, Zenon DEF Delivering
<1>2. UNCHANGED <<row, file>>
  BY Zenon DEF DropLocal, RejectLocal, CopyToAccount
<1>3. Handled(w, r) /\ worker'[w].pc = "localrow" /\ SameFlags(worker[w], worker'[w])
  BY <1>1, Drops, Rejects, Copies, Zenon
<1>4. worker[w].pc = "local" /\ worker'[w].rcpts = worker[w].rcpts
  BY <1>3, Zenon DEF Handled, SameLocal, SameRcpts
<1>5. Left(worker'[w]) # {} => Left(worker[w]) # {}
  BY <1>3, <1>4, Zenon DEF Left
<1>6. Releases(worker'[w], m)
  BY <1>1, <1>3, <1>4, <1>5, Zenon DEF Releases, SameFlags
<1> QED BY <1>1, <1>2, <1>3, <1>6, StillTidy, Zenon DEF Handled, SameLocal, SameTask

\* The file is moved only for the last recipient.
LEMMA ReusedTidy ==
  ASSUME IInv, Tidy, faults' = 0, NEW w \in Workers, NEW m \in Msgs, Acts(w, m), NEW r, ReuseMessage(w, r)
  PROVE  Tidy'
<1>1. /\ DelivererTypeOK /\ Releases(worker[w], m) /\ worker[w].id = m /\ ~worker[w].kept
      /\ Delivering(w, m) /\ row[m].type # "held" /\ file \in [Msgs -> Folders]
  BY Acting, Tables, Zenon DEF Delivering
<1>2. /\ Handled(w, r) /\ worker[w].rcpts = {r} /\ worker'[w].reused /\ worker'[w].owner = "user"
  BY <1>1, Reuses, Zenon
<1>3. /\ worker[w].pc = "local" /\ worker'[w].rcpts = {r} /\ worker'[w].cur = {r}
      /\ worker'[w].id = m /\ ~worker'[w].kept /\ Others(w)
  BY <1>1, <1>2, Zenon DEF Handled, SameLocal, SameTask, SameRcpts
<1>4. row' = row
  BY Zenon DEF ReuseMessage
<1>5. CASE worker'[w].pc = "save" /\ file' = MoveFileToUserFolder(m)
  <2>1. OwnRow(m)
    BY <1>1, <1>4, <1>5, Zenon DEF OwnRow, Listed, MoveFileToUserFolder
  <2>2. Delivering(w, m)'
    BY <1>3, <1>5, Zenon DEF Delivering, At
  <2>3. Releases(worker[w], m)'
    BY <1>2, <1>3, <1>5, Zenon DEF Releases
  <2> QED BY <1>1, <1>3, <2>1, <2>2, <2>3, OwnTidy, Zenon DEF Acts
<1>6. CASE worker'[w].pc = "localrow" /\ file' = file /\ file[m] # "queue"
  <2>1. ~Listed(m)
    <3>1. Left(worker[w]) # {}
      BY <1>2, <1>3, Zenon DEF Left
    <3> QED BY <1>1, <1>3, <1>6, <3>1, Zenon DEF Releases
  <2>2. Releases(worker'[w], m)
    BY <1>2, <1>6, <2>1, Zenon DEF Releases
  <2> QED BY <1>3, <1>4, <1>6, <2>2, StillTidy, Zenon
<1> QED BY <1>1, <1>5, <1>6, Reuses, NoFail, Zenon

\* The message whose file was moved leaves the queue, or has no recipient left.
LEMMA SavedTidy ==
  ASSUME IInv, Tidy, faults' = 0, NEW w \in Workers, NEW m \in Msgs, Acts(w, m), DropReused(w) \/ SaveReused(w)
  PROVE  Tidy'
<1>1. /\ DelivererTypeOK /\ StoreTypeOK /\ Releases(worker[w], m) /\ worker[w].id = m /\ ~worker[w].kept
      /\ Delivering(w, m) /\ row[m].type # "held" /\ file \in [Msgs -> Folders]
  BY Acting, Tables, Zenon DEF Delivering
<1>2. /\ Others(w) /\ worker[w].pc = "save" /\ worker'[w].pc = "localrow"
      /\ SameLocal(worker[w], worker'[w]) /\ worker'[w].cur = worker[w].cur
  BY <1>1, DropsReused, SavesReused, Zenon
<1>3. worker'[w].rcpts = worker'[w].cur /\ worker'[w].id = m /\ ~worker'[w].kept
  BY <1>1, <1>2, Zenon DEF Releases, SameLocal, SameTask, SameRcpts
<1>4. Left(worker'[w]) = {}
  BY <1>2, <1>3, Zenon DEF Left
<1>5. Delivering(w, m)'
  BY <1>2, <1>3, Zenon DEF Delivering, At
<1>6. CASE DropReused(w)
  <2>1. row' = row /\ file' = [file EXCEPT ![m] = "none"]
    BY <1>1, <1>6, Zenon DEF DropReused
  <2>2. OwnRow(m)
    BY <1>1, <2>1, Zenon DEF OwnRow, Listed
  <2>3. ~worker'[w].reused /\ worker'[w].owner = "none"
    BY <1>1, <1>6, DropsReused, Zenon
  <2>4. Releases(worker[w], m)'
    BY <1>2, <1>4, <2>3, Zenon DEF Releases, Left
  <2> QED BY <1>1, <1>2, <1>5, <2>2, <2>4, OwnTidy, Zenon DEF Acts
<1>7. CASE SaveReused(w)
  <2>1. /\ row' = SaveDelivered(m) /\ file' = file
        /\ worker'[w].reused = worker[w].reused /\ worker'[w].owner = worker[w].owner
    BY <1>1, <1>7, SavesReused, NoFail, Zenon
  <2>2. Writes(m, SaveDelivered(m)) /\ SaveDelivered(m)[m].type # "delivering"
    BY <1>1, Statements, Zenon
  <2>3. OwnRow(m) /\ ~Listed(m)'
    BY <2>1, <2>2, Zenon DEF OwnRow, Listed, Writes
  <2>4. Releases(worker[w], m)'
    BY <1>1, <1>2, <2>1, <2>3, Zenon DEF Releases
  <2> QED BY <1>1, <1>2, <1>5, <2>3, <2>4, OwnTidy, Zenon DEF Acts
<1> QED BY <1>6, <1>7, Zenon

\* The recipients are dealt with one by one, row and file stay.
LEMMA OnwardTidy ==
  ASSUME IInv, Tidy, NEW w \in Workers, NEW m \in Msgs, Acts(w, m),
         \/ DeleteLocalRecipient(w) \/ LocalDone(w) \/ DeliverBatch(w)
         \/ CollectDeliveryResult(w) \/ Collected(w) \/ GiveUp(w)
  PROVE  Tidy'
<1>1. /\ DelivererTypeOK /\ Releases(worker[w], m) /\ ~At(w, "idle") /\ worker[w].id = m /\ ~worker[w].kept
  BY Acting, Zenon DEF Delivering
<1>2. UNCHANGED <<row, file>>
  BY Zenon DEF DeleteLocalRecipient, LocalDone, DeliverBatch, CollectDeliveryResult, Collected, GiveUp
<1>3. CASE DeleteLocalRecipient(w)
  <2>1. /\ Others(w) /\ worker[w].pc = "localrow" /\ worker'[w].pc = "local"
        /\ SameTask(worker[w], worker'[w]) /\ SameFlags(worker[w], worker'[w])
        /\ worker'[w].rcpts = worker[w].rcpts \ worker[w].cur
    BY <1>1, <1>3, DeletesLocal, Zenon
  <2>2. Left(worker'[w]) = Left(worker[w])
    BY <2>1, Zenon DEF Left
  <2>3. Releases(worker'[w], m)
    BY <1>1, <2>1, <2>2, Zenon DEF Releases, SameFlags
  <2> QED BY <1>1, <1>2, <2>1, <2>3, StillTidy, Zenon DEF SameTask
<1>4. CASE LocalDone(w) \/ Collected(w)
  <2>1. PICK pc \in {"external", "reschedule", "bounce"} :
          Goto(w, pc) /\ (pc = "reschedule" => worker[w].soft # {})
    BY <1>4, Zenon DEF LocalDone, Collected
  <2>2. /\ Others(w) /\ worker'[w].pc = pc /\ Same(worker[w], worker'[w])
        /\ worker[w].pc \in {"local", "collect"}
    BY <1>1, <1>4, <2>1, Sent, Zenon DEF LocalDone, Collected, At
  <2>3. Releases(worker'[w], m)
    BY <1>1, <2>1, <2>2, Zenon DEF Releases, Same, SameLocal, SameRcpts, SameFlags
  <2> QED BY <1>1, <1>2, <2>1, <2>2, <2>3, StillTidy, Zenon DEF Same, SameLocal, SameTask
<1>5. CASE DeliverBatch(w) \/ CollectDeliveryResult(w) \/ GiveUp(w)
  <2>1. /\ Others(w) /\ worker[w].pc \in {"external", "collect", "reschedule"}
        /\ worker'[w].pc \in {"collect", "bounce"}
        /\ SameTask(worker[w], worker'[w]) /\ SameFlags(worker[w], worker'[w])
    BY <1>1, <1>5, Batches, Collects, GivesUp, Zenon DEF SameLocal
  <2>2. Releases(worker'[w], m)
    BY <1>1, <2>1, Zenon DEF Releases, SameFlags
  <2> QED BY <1>1, <1>2, <2>1, <2>2, StillTidy, Zenon DEF SameTask
<1> QED BY <1>3, <1>4, <1>5, Zenon

\* The message is put off, and unlocked next.
LEMMA PutOffTidy ==
  ASSUME IInv, Tidy, faults' = 0, EtrnRcpts = {}, NEW w \in Workers, NEW m \in Msgs, Acts(w, m),
         HoldUnscannable(w) \/ HoldForEtrn(w) \/ RescheduleDelivery(w)
  PROVE  Tidy'
<1>1. /\ DelivererTypeOK /\ StoreTypeOK /\ Releases(worker[w], m) /\ ~At(w, "idle") /\ worker[w].id = m
      /\ ~worker[w].kept /\ Delivering(w, m) /\ row[m].type # "held"
  BY Acting, Zenon DEF Delivering
<1>2. ~HoldForEtrn(w)
  <2>1. worker[w].pc = "reschedule" => worker[w].soft # {}
    BY <1>1, Zenon DEF Releases
  <2> QED BY <2>1, Zenon DEF HoldForEtrn, At
<1>3. PICK b \in BOOLEAN : row' = SetNextTryTime(m, b, FALSE)
  BY <1>1, <1>2, NoFail, Zenon DEF HoldUnscannable, RescheduleDelivery, WriteRow
<1>4. Writes(m, SetNextTryTime(m, b, FALSE))
  BY <1>1, Statements, Zenon
<1>5. file' = file
  BY <1>2, Zenon DEF HoldUnscannable, RescheduleDelivery
<1>6. OwnRow(m)
  BY <1>3, <1>4, <1>5, Zenon DEF OwnRow, Writes, Listed
<1>7. PICK pc \in {"holdunlock", "unlock"} : Goto(w, pc)
  BY <1>2, Zenon DEF HoldUnscannable, RescheduleDelivery
<1>8. /\ Others(w) /\ worker'[w].pc = pc /\ Same(worker[w], worker'[w])
      /\ worker[w].pc \in {"unscannable", "reschedule"}
  BY <1>1, <1>2, <1>7, Sent, Zenon DEF HoldUnscannable, RescheduleDelivery, At
<1>9. Delivering(w, m)'
  BY <1>1, <1>7, <1>8, Zenon DEF Delivering, At, Same, SameLocal, SameTask
<1>10. Listed(m)' => Listed(m)
  BY <1>6, Zenon DEF OwnRow
<1>11. Releases(worker[w], m)'
  BY <1>1, <1>7, <1>8, <1>10, Zenon DEF Releases, Same, SameFlags
<1> QED BY <1>1, <1>6, <1>8, <1>9, <1>11, OwnTidy, Zenon DEF Acts

\* A thread that has unlocked the message lets go of it.
LEMMA UnlockedTidy ==
  ASSUME IInv, Tidy, faults' = 0, NEW w \in Workers, NEW m \in Msgs, Acts(w, m),
         UnlockHeld(w) \/ UnlockRescheduled(w)
  PROVE  Tidy'
<1>1. /\ DelivererTypeOK /\ StoreTypeOK /\ worker[w].id = m /\ Delivering(w, m) /\ row[m].type # "held"
  BY Acting, Zenon DEF Delivering
<1>2. row' = UnlockObject(m) /\ file' = file
  BY <1>1, NoFail, Zenon DEF UnlockHeld, UnlockRescheduled, WriteRow
<1>3. Writes(m, UnlockObject(m)) /\ (UnlockObject(m)[m].type = "delivering" => ~UnlockObject(m)[m].locked)
  BY <1>1, Statements, Zenon
<1>4. OwnRow(m) /\ (Listed(m)' => ~row'[m].locked)
  BY <1>2, <1>3, Zenon DEF OwnRow, Writes, Listed
<1>5. Others(w) /\ \A n \in Msgs : ~Delivering(w, n)'
  BY <1>1, Finishes, UnlocksRescheduled, NoId, Zenon DEF UnlockHeld, Delivering
<1> QED BY <1>1, <1>4, <1>5, OwnTidy, Zenon DEF Acts

\* The delivery ends with the report, or the row is deleted next.
LEMMA ReportedTidy ==
  ASSUME IInv, Tidy, NEW w \in Workers, NEW m \in Msgs, Acts(w, m), SubmitErrorLog(w)
  PROVE  Tidy'
<1>1. /\ DelivererTypeOK /\ Releases(worker[w], m) /\ worker[w].id = m
      /\ ~worker[w].kept /\ Delivering(w, m) /\ row[m].type # "held"
  BY Acting, Zenon DEF Delivering
<1>2. UNCHANGED <<row, file>> /\ Others(w) /\ worker[w].pc \in {"bounce", "refuse"}
  BY <1>1, Submits, Zenon DEF SubmitErrorLog
<1>3. CASE worker'[w] = Idle /\ worker[w].pc = "bounce" /\ (worker[w].reused \/ worker[w].owner # "none")
  <2>1. ~Listed(m)
    BY <1>1, <1>3, Zenon DEF Releases
  <2>2. OwnRow(m) /\ ~Listed(m)'
    BY <1>1, <1>2, <2>1, Zenon DEF OwnRow, Listed
  <2>3. \A n \in Msgs : ~Delivering(w, n)'
    BY <1>3, NoId, Zenon DEF Delivering
  <2> QED BY <1>1, <1>2, <2>2, <2>3, OwnTidy, Zenon DEF Acts
<1>4. CASE /\ worker'[w].pc = "delrow"
           /\ SameLocal(worker[w], worker'[w]) /\ SameFlags(worker[w], worker'[w])
  <2>1. Releases(worker'[w], m)
    BY <1>1, <1>2, <1>4, Zenon DEF Releases, SameFlags
  <2> QED BY <1>1, <1>2, <1>4, <2>1, StillTidy, Zenon DEF SameLocal, SameTask
<1> QED BY <1>1, <1>3, <1>4, Submits, Zenon

\* The row is deleted first, so that what follows cannot leave it locked.
LEMMA DeletedTidy ==
  ASSUME IInv, Tidy, faults' = 0, NEW w \in Workers, NEW m \in Msgs, Acts(w, m),
         DeleteQueueRow(w) \/ DeleteQueueRecipients(w) \/ DeleteDataFile(w)
  PROVE  Tidy'
<1>1. /\ DelivererTypeOK /\ StoreTypeOK /\ Releases(worker[w], m) /\ worker[w].id = m /\ ~At(w, "idle")
      /\ ~worker[w].kept /\ Delivering(w, m) /\ row[m].type # "held" /\ file \in [Msgs -> Folders]
  BY Acting, Tables, Zenon DEF Delivering
<1>2. CASE DeleteQueueRow(w)
  <2>1. row' = DeleteRow(m) /\ file' = file /\ (Goto(w, "delfile") \/ Goto(w, "delrcpt"))
    BY <1>1, <1>2, NoFail, Zenon DEF DeleteQueueRow
  <2>2. Writes(m, DeleteRow(m)) /\ DeleteRow(m)[m].type # "delivering"
    BY <1>1, Statements, Zenon
  <2>3. OwnRow(m) /\ ~Listed(m)'
    BY <2>1, <2>2, Zenon DEF OwnRow, Writes, Listed
  <2>4. Others(w) /\ worker'[w].pc \in {"delfile", "delrcpt"} /\ Same(worker[w], worker'[w])
    BY <1>1, <2>1, Sent, Zenon
  <2>5. Delivering(w, m)'
    BY <1>1, <2>4, Zenon DEF Delivering, At, Same, SameLocal, SameTask
  <2>6. Releases(worker[w], m)'
    BY <1>1, <2>3, <2>4, Zenon DEF Releases, Same, SameFlags
  <2> QED BY <1>1, <2>3, <2>4, <2>5, <2>6, OwnTidy, Zenon DEF Acts
<1>3. CASE DeleteQueueRecipients(w)
  <2>1. UNCHANGED <<row, file>> /\ Goto(w, "delfile") /\ worker[w].pc = "delrcpt"
    BY <1>1, <1>3, NoFail, Zenon DEF DeleteQueueRecipients, At
  <2>2. Others(w) /\ worker'[w].pc = "delfile" /\ Same(worker[w], worker'[w])
    BY <1>1, <2>1, Sent, Zenon
  <2>3. Releases(worker'[w], m)
    BY <1>1, <2>1, <2>2, Zenon DEF Releases, Same, SameFlags
  <2> QED BY <1>1, <2>1, <2>2, <2>3, StillTidy, Zenon DEF Same, SameLocal, SameTask
<1>4. CASE DeleteDataFile(w)
  <2>1. row' = row /\ Finish(w) /\ worker[w].pc = "delfile" /\ (file' = file \/ file' = DeleteQueueFile(m))
    BY <1>1, <1>4, Zenon DEF DeleteDataFile, At
  <2>2. ~Listed(m)
    BY <1>1, <2>1, Zenon DEF Releases
  <2>3. \A n \in Msgs : n # m => file'[n] = file[n]
    BY <1>1, <2>1, Zenon DEF DeleteQueueFile
  <2>4. OwnRow(m) /\ ~Listed(m)'
    BY <1>1, <2>1, <2>2, <2>3, Zenon DEF OwnRow, Listed
  <2>5. Others(w) /\ \A n \in Msgs : ~Delivering(w, n)'
    BY <1>1, <2>1, Finishes, NoId, Zenon DEF Delivering
  <2> QED BY <1>1, <2>4, <2>5, OwnTidy, Zenon DEF Acts
<1> QED BY <1>2, <1>3, <1>4, Zenon

-----------------------------------------------------------------------------
\* A thread that had unlocked its message ends and leaves the store alone.
LEMMA KeptTidy ==
  ASSUME IInv, Tidy, NEW w \in Workers, Others(w), Unmoved, UNCHANGED <<row, file>>,
         worker[w].kept, \A n \in Msgs : ~Delivering(w, n)'
  PROVE  Tidy'
<1>1. \A v \in Workers, n \in Msgs : Delivering(v, n)' <=> Delivering(v, n)
  BY Zenon DEF Delivering, At, Others
<1>2. \A v \in Workers, n \in Msgs : Delivering(v, n) => worker'[v] = worker[v]
  BY Zenon DEF Delivering, Others
<1>3. \A n \in Msgs : OnItsWay(n) => OnItsWay(n)'
  BY <1>1, Zenon DEF OnItsWay, InManager, InQueue, InWorker, Unmoved
<1>4. ASSUME NEW n \in Msgs PROVE RowFree(n)'
  BY <1>3, Zenon DEF Tidy, RowFree, Listed, Unmoved
<1>5. ASSUME NEW v \in Workers, NEW n \in Msgs, Delivering(v, n)' PROVE Releases(worker[v], n)'
  <2>1. Releases(worker[v], n) /\ worker'[v] = worker[v]
    BY <1>1, <1>2, <1>5, Zenon DEF Tidy
  <2> QED BY <2>1, Zenon DEF Releases, Listed, Left
<1>6. Removing'
  BY Zenon DEF Tidy, Removing, Unmoved, Listed
<1> QED BY <1>4, <1>5, <1>6, Zenon DEF Tidy, Unmoved

\* A thread takes over a task, for which no account is claimed.
LEMMA ExecuteTidy ==
  ASSUME IInv, Tidy, NEW w \in Workers, ExecuteTask(w), UNCHANGED <<pending, mgr, recv, deleter>>
  PROVE  Tidy'
<1>1. DelivererTypeOK
  BY Zenon DEF IInv, TypeOK
<1>2. PICK t \in posted :
        /\ posted' = posted \ {t}
        /\ Continue(w, [Idle EXCEPT !.pc = "check", !.id = t.id, !.rcpts = t.rcpts,
                                    !.tries = t.tries, !.owner = t.owner])
  BY Zenon DEF ExecuteTask
<1>3. /\ Others(w)
      /\ worker'[w] = [Idle EXCEPT !.pc = "check", !.id = t.id, !.rcpts = t.rcpts,
                                   !.tries = t.tries, !.owner = t.owner]
  BY <1>1, <1>2, Continues, Zenon
<1>4. /\ worker'[w].pc = "check" /\ worker'[w].id = t.id /\ worker'[w].owner = t.owner
      /\ ~worker'[w].kept /\ ~worker'[w].reused
  BY <1>3, Zenon DEF Idle
<1>5. t.owner = "none" /\ UNCHANGED <<row, file>>
  BY Zenon DEF Tidy, ExecuteTask
<1>6. \A v \in Workers, n \in Msgs : Delivering(v, n) => v # w
  BY Zenon DEF Delivering, ExecuteTask
<1>7. ASSUME NEW n \in Msgs, OnItsWay(n) PROVE OnItsWay(n)'
  <2>1. InWorker(n) => InWorker(n)'
    BY <1>3, <1>6, Zenon DEF InWorker, Delivering, At, Others
  <2>2. t.id = n => InWorker(n)'
    BY <1>4, Zenon DEF InWorker, Delivering, At
  <2>3. InQueue(n) => InQueue(n)' \/ t.id = n
    BY <1>2, Zenon DEF InQueue
  <2> QED BY <1>7, <2>1, <2>2, <2>3, Zenon DEF OnItsWay, InManager
<1>8. ASSUME NEW n \in Msgs PROVE RowFree(n)'
  BY <1>5, <1>7, Zenon DEF Tidy, RowFree, Listed
<1>9. ASSUME NEW v \in Workers, NEW n \in Msgs, Delivering(v, n)' PROVE Releases(worker[v], n)'
  <2>1. CASE v = w
    BY <1>4, <1>5, <2>1, Zenon DEF Releases
  <2>2. CASE v # w
    <3>1. worker'[v] = worker[v] /\ Delivering(v, n)
      BY <1>3, <1>9, <2>2, Zenon DEF Others, Delivering, At
    <3>2. Releases(worker[v], n)
      BY <3>1, Zenon DEF Tidy
    <3> QED BY <1>5, <3>1, <3>2, Zenon DEF Releases, Listed, Left
  <2> QED BY <2>1, <2>2, Zenon
<1>10. Removing'
  BY <1>5, Zenon DEF Tidy, Removing, Listed
<1> QED BY <1>2, <1>8, <1>9, <1>10, Zenon DEF Tidy

\* Every step of a thread that is not interrupted and in which nothing fails.
LEMMA WorkTidy ==
  ASSUME IInv, Tidy, Undisturbed, faults' = 0, EtrnRcpts = {}, NEW w \in Workers, Work(w)
  PROVE  Tidy'
<1>1. UNCHANGED <<pending, mgr, recv, deleter>>
  BY Zenon DEF Work, sessionVars, managerVars, adminVars
<1>2. CASE ExecuteTask(w)
  BY <1>1, <1>2, ExecuteTidy, Zenon
<1>3. CASE Deliver(w)
  <2>1. DelivererTypeOK
    BY Zenon DEF IInv, TypeOK
  <2>2. worker[w] \in BusyStates
    BY <1>3, <2>1, DeliverBusy, Zenon
  <2>3. Unmoved
    <3>1. posted' = posted
      BY <1>3, Zenon DEF Deliver, CheckMessage, PreprocessMessage, AbortDelivery, DeferDelivery, HoldUnscannable,
         UnlockHeld, RefuseUnscannable, DropLocal, RejectLocal, CopyToAccount, ReuseMessage, DropReused,
         SaveReused, DeleteLocalRecipient, LocalDone, DeliverBatch, CollectDeliveryResult, Collected,
         HoldForEtrn, RescheduleDelivery, UnlockRescheduled, GiveUp, SubmitErrorLog, DeleteQueueRow,
         DeleteQueueRecipients, DeleteDataFile, queueVars
    <3> QED BY <1>1, <3>1, Zenon DEF Unmoved
  <2>4. CASE worker[w].kept
    <3>1. worker[w].pc = "bounce"
      BY <2>4, Zenon DEF IInv, LockInv, At
    <3>2. SubmitErrorLog(w)
      BY <1>3, <3>1, Zenon DEF Deliver, At, CheckMessage, PreprocessMessage, AbortDelivery, DeferDelivery,
         HoldUnscannable, UnlockHeld, RefuseUnscannable, DropLocal, RejectLocal, CopyToAccount, ReuseMessage,
         Handling, DropReused, SaveReused, DeleteLocalRecipient, LocalDone, DeliverBatch,
         CollectDeliveryResult, Collected, HoldForEtrn, RescheduleDelivery, UnlockRescheduled, GiveUp,
         DeleteQueueRow, DeleteQueueRecipients, DeleteDataFile
    <3>3. worker'[w] = Idle /\ Others(w) /\ UNCHANGED <<row, file>>
      BY <2>1, <2>4, <3>1, <3>2, Submits, Zenon DEF SubmitErrorLog
    <3>4. \A n \in Msgs : ~Delivering(w, n)'
      BY <3>3, NoId, Zenon DEF Delivering
    <3> QED BY <2>3, <2>4, <3>3, <3>4, KeptTidy, Zenon
  <2>5. CASE ~worker[w].kept
    <3>1. PICK m \in Msgs : Acts(w, m)
      BY <2>2, <2>3, <2>5, Zenon DEF Acts, BusyStates
    <3> QED BY <1>3, <3>1, FirstTidy, HandledTidy, ReusedTidy, SavedTidy, OnwardTidy, PutOffTidy, UnlockedTidy,
         ReportedTidy, DeletedTidy, Zenon DEF Deliver
  <2> QED BY <2>4, <2>5, Zenon
<1> QED BY <1>2, <1>3, Zenon DEF Work, Undisturbed, Interrupt

-----------------------------------------------------------------------------
(* The steps of the rest of the server *)

\* No object of the manager or of the work queue claims an account.
NoAccounts ==
  /\ \A p \in pending : p.owner = "none"
  /\ \A t \in posted : t.owner = "none"
  /\ mgr.obj.owner = "none"

\* A step in which no thread moves, and which lists no message in a thread anew
\* and takes away no file of one.
LEMMA OtherTidy ==
  ASSUME Tidy, UNCHANGED worker, \A n \in Msgs : RowFree(n)', NoAccounts', Removing',
         \A n \in Msgs : InWorker(n) /\ Listed(n)' => Listed(n) /\ (file[n] = "queue" => file'[n] = "queue")
  PROVE  Tidy'
<1>1. ASSUME NEW v \in Workers, NEW n \in Msgs, Delivering(v, n)' PROVE Releases(worker[v], n)'
  <2>1. Delivering(v, n) /\ InWorker(n)
    BY <1>1, Zenon DEF Delivering, At, InWorker
  <2>2. Releases(worker[v], n)
    BY <2>1, Zenon DEF Tidy
  <2> QED BY <2>1, <2>2, Zenon DEF Releases, Left
<1> QED BY <1>1, Zenon DEF Tidy, NoAccounts

\* A step of that kind which leaves the types, accounts and files alone, locks
\* nothing and leaves on its way what was.
LEMMA SameTidy ==
  ASSUME Tidy, UNCHANGED <<worker, file, deleter, recv>>, NoAccounts', IInv,
         \A n \in Msgs : /\ row'[n].type = row[n].type /\ row'[n].owner = row[n].owner
                         /\ Listed(n) /\ row'[n].locked => row[n].locked \/ OnItsWay(n)'
                         /\ OnItsWay(n) => OnItsWay(n)' \/ (Listed(n) => ~row'[n].locked)
  PROVE  Tidy'
<1>1. \A n \in Msgs : Listed(n)' <=> Listed(n)
  BY Zenon DEF Listed
<1>2. ASSUME NEW n \in Msgs PROVE RowFree(n)'
  BY <1>1, Zenon DEF Tidy, RowFree
<1>3. Removing'
  <2>1. deleter["remove"].pc # "idle" => deleter["remove"].id \in Msgs
    BY DeleterId, Zenon DEF IInv
  <2> QED BY <1>1, <2>1, Zenon DEF Tidy, Removing
<1> QED BY <1>1, <1>2, <1>3, OtherTidy, Zenon

\* A message is listed when it is inserted, before anybody knows of it.
LEMMA ReceiveTidy ==
  ASSUME IInv, Tidy, faults' = 0, NEW m \in Msgs, Receive(m)
  PROVE  Tidy'
<1>1. /\ StoreTypeOK /\ recv \in [Msgs -> Sessions] /\ row \in [Msgs -> Rows] /\ file \in [Msgs -> Folders]
      /\ row[m].type # "held"
  BY Zenon DEF IInv, TypeOK, DelivererTypeOK, StoreTypeOK, Tidy, RowFree
<1>2. UNCHANGED <<worker, posted, pending, mgr, deleter>>
  BY Zenon DEF Receive, InsertMessage, SaveRecipients, UnlockSaved, AcceptMessage, restOfSession,
     managerVars, adminVars, delivererVars
<1>3. NoAccounts'
  BY <1>2, Zenon DEF Tidy, NoAccounts
<1>4. \A n \in Msgs : OnItsWay(n) => OnItsWay(n)'
  BY <1>2, Zenon DEF OnItsWay, InManager, InQueue, InWorker, Delivering, At
<1>5. CASE InsertMessage(m)
  <2>1. /\ recv[m] = "new" /\ recv' = [recv EXCEPT ![m] = "inserted"]
        /\ row' = InsertRow(m) /\ file' = [file EXCEPT ![m] = "queue"]
    BY <1>5, NoFail, Zenon DEF InsertMessage, Session
  <2>2. /\ \A n \in Msgs : n # m => row'[n] = row[n] /\ recv'[n] = recv[n]
        /\ recv'[m] = "inserted" /\ file'[m] = "queue"
        /\ row'[m] = [type |-> "delivering", locked |-> TRUE, due |-> TRUE, tries |-> 0, owner |-> "none"]
    BY <1>1, <2>1, Zenon DEF InsertRow
  <2>3. row'[m].type = "delivering" /\ row'[m].owner = "none"
    BY <2>2
  <2>4. \A n \in Msgs : n # m => file'[n] = file[n]
    BY <1>1, <2>1, Zenon
  <2>5. ASSUME NEW n \in Msgs PROVE RowFree(n)'
    BY <1>4, <2>2, <2>3, Zenon DEF Tidy, RowFree, Listed
  <2>6. ~InWorker(m)
    BY <2>1, Zenon DEF IInv, LockInv
  <2>7. Removing'
    <3>1. deleter["remove"].pc # "idle" => deleter["remove"].id \in Msgs /\ deleter["remove"].id # m
      BY <2>1, DeleterId, Zenon DEF IInv, Tidy, Removing
    <3>2. deleter["remove"].pc \in {"delrcpt", "delfile"} => deleter["remove"].pc # "idle"
      BY Zenon
    <3> QED BY <1>2, <2>2, <3>1, <3>2, Zenon DEF Tidy, Removing, Listed
  <2> QED BY <1>2, <1>3, <2>2, <2>4, <2>5, <2>6, <2>7, OtherTidy, Zenon DEF Listed
<1>6. CASE ~InsertMessage(m)
  <2>1. /\ UNCHANGED file /\ recv[m] \in {"inserted", "saved", "unlocked"}
        /\ \/ row' = row /\ recv' = [recv EXCEPT ![m] = IF recv[m] = "inserted" THEN "saved" ELSE "accepted"]
              /\ recv[m] # "saved"
           \/ row' = UnlockObject(m) /\ recv' = [recv EXCEPT ![m] = "unlocked"]
    BY <1>6, NoFail, Zenon DEF Receive, SaveRecipients, UnlockSaved, AcceptMessage, Session, delivererVars
  <2>2. /\ Writes(m, row) /\ Writes(m, UnlockObject(m))
        /\ UnlockObject(m)[m].type = "delivering" => ~UnlockObject(m)[m].locked
    BY <1>1, Statements, Zenon
  <2>3. /\ Writes(m, row')
        /\ \A n \in Msgs : n # m => recv'[n] = recv[n]
        /\ \/ row' = row /\ recv'[m] = "saved"
           \/ row' = row /\ recv[m] = "unlocked"
           \/ row'[m].type = "delivering" => ~row'[m].locked
        /\ recv'[m] # "new"
    BY <1>1, <2>1, <2>2, Zenon
  <2>4. ASSUME NEW n \in Msgs PROVE RowFree(n)'
    BY <1>4, <2>3, Zenon DEF Tidy, RowFree, Listed, Writes
  <2>5. \A n \in Msgs : Listed(n)' => Listed(n)
    BY <2>3, Zenon DEF Writes, Listed
  <2>6. Removing'
    <3>1. deleter["remove"].pc # "idle" => deleter["remove"].id \in Msgs
      BY DeleterId, Zenon DEF IInv
    <3> QED BY <1>2, <2>3, <2>5, <3>1, Zenon DEF Tidy, Removing
  <2> QED BY <1>2, <1>3, <2>1, <2>4, <2>5, <2>6, OtherTidy, Zenon
<1> QED BY <1>5, <1>6, Zenon

\* UnlockAll frees every listed row, and what the manager locks it hands over.
LEMMA ManagerTidy ==
  ASSUME IInv, Tidy, Undisturbed, faults' = 0, DoWork
  PROVE  Tidy'
<1>1. TypeOK /\ row \in [Msgs -> Rows] /\ NoTask.owner = "none"
  BY Zenon DEF IInv, TypeOK, DelivererTypeOK, StoreTypeOK, NoTask
<1>2. UNCHANGED <<worker, file, deleter, recv>>
  BY Zenon DEF DoWork, StartManager, LoadPendingMessageList, TakeFromCache, TakeFromDatabase,
     LockMessage, AddTask, WakeManager, restOfManager, sessionVars, adminVars
<1>3. NoAccounts
  BY Zenon DEF Tidy, NoAccounts
<1>4. \A n \in Msgs : (InWorker(n)' <=> InWorker(n)) /\ (deleter'["remove"].id = n <=> deleter["remove"].id = n)
  BY <1>2, Zenon DEF InWorker, Delivering, At
<1>5. CASE StartManager
  <2>1. /\ row' = UnlockAll /\ mgr' = [pc |-> "next", obj |-> NoTask] /\ UNCHANGED <<posted, pending>>
    BY <1>5, NoFail, Zenon DEF StartManager, WriteRow, Manager
  <2>2. mgr'.obj = NoTask
    BY <2>1, Zenon
  <2>3. NoAccounts'
    BY <1>1, <1>3, <2>1, <2>2, Zenon DEF NoAccounts
  <2>4. ASSUME NEW n \in Msgs
        PROVE  row'[n].type = row[n].type /\ row'[n].owner = row[n].owner /\ (Listed(n) => ~row'[n].locked)
    <3>1. row'[n] = IF row[n].type = "delivering" THEN [row[n] EXCEPT !.locked = FALSE] ELSE row[n]
      BY <2>1, Zenon DEF UnlockAll
    <3>2. /\ [row[n] EXCEPT !.locked = FALSE].type = row[n].type
          /\ [row[n] EXCEPT !.locked = FALSE].owner = row[n].owner
          /\ ~[row[n] EXCEPT !.locked = FALSE].locked
      BY <1>1, Zenon DEF Rows
    <3> QED BY <3>1, <3>2, Zenon DEF Listed
  <2> QED BY <1>2, <2>3, <2>4, SameTidy, Zenon
<1>6. CASE LoadPendingMessageList
  <2>1. /\ mgr.pc = "next" /\ pending' = PendingMessageList /\ UNCHANGED <<row, posted>>
        /\ \E pc \in {"wait", "pick"} : mgr' = [pc |-> pc, obj |-> NoTask]
    BY <1>6, NoFail, Zenon DEF LoadPendingMessageList, Manager
  <2>2. mgr'.obj = NoTask
    BY <2>1
  <2>3. ASSUME NEW p \in PendingMessageList PROVE p.owner = "none"
    <3>1. PICK n \in Msgs : Listed(n) /\ p = [id |-> n, tries |-> row[n].tries, owner |-> row[n].owner]
      BY <2>3, Zenon DEF PendingMessageList, Listed
    <3>2. p.owner = row[n].owner
      BY <3>1, Zenon
    <3> QED BY <3>1, <3>2, Zenon DEF Tidy, RowFree
  <2>4. NoAccounts'
    BY <1>1, <1>3, <2>1, <2>2, <2>3, Zenon DEF NoAccounts
  <2>5. ASSUME NEW n \in Msgs, OnItsWay(n) PROVE OnItsWay(n)'
    BY <1>4, <2>1, <2>5, Zenon DEF OnItsWay, InManager, InQueue
  <2> QED BY <1>2, <2>1, <2>4, <2>5, SameTidy, Zenon
<1>7. ASSUME NEW p \in pending, TakeFromCache(p) \/ TakeFromDatabase(p) PROVE Tidy'
  <2>1. mgr.pc \in {"pick", "next"} /\ pending' \subseteq pending /\ UNCHANGED <<row, posted>>
    BY <1>7, NoFail, Zenon DEF TakeFromCache, TakeFromDatabase, Picking
  <2>2. mgr'.obj.owner = "none"
    <3>1. p.owner = "none"
      BY <1>3, Zenon DEF NoAccounts
    <3>2. CASE TakeFromCache(p)
      <4>1. mgr' = [pc |-> "lock", obj |-> [id |-> p.id, rcpts |-> envelope[p.id], tries |-> 0, owner |-> "none"]]
        BY <3>2, Zenon DEF TakeFromCache, Take
      <4> QED BY <4>1
    <3>3. CASE TakeFromDatabase(p)
      <4>1. mgr' = [pc |-> "lock", obj |-> [id |-> p.id, rcpts |-> rcpt[p.id], tries |-> p.tries, owner |-> p.owner]]
        BY <3>3, NoFail, Zenon DEF TakeFromDatabase, Take
      <4> QED BY <3>1, <4>1
    <3> QED BY <1>7, <3>2, <3>3, Zenon
  <2>3. NoAccounts'
    BY <1>3, <2>1, <2>2, Zenon DEF NoAccounts
  <2>4. ASSUME NEW n \in Msgs, OnItsWay(n) PROVE OnItsWay(n)'
    BY <1>4, <2>1, <2>4, Zenon DEF OnItsWay, InManager, InQueue
  <2> QED BY <1>2, <2>1, <2>3, <2>4, SameTidy, Zenon
<1>8. CASE LockMessage
  <2>1. /\ mgr.pc = "lock" /\ row' = LockObject(mgr.obj.id) /\ UNCHANGED <<posted, pending>>
        /\ mgr' = [pc |-> "post", obj |-> mgr.obj]
    BY <1>8, NoFail, Zenon DEF LockMessage
  <2>2. PICK m \in Msgs : m = mgr.obj.id
    <3>1. mgr.obj \in Tasks
      BY <1>1, <2>1, Zenon DEF TypeOK
    <3> QED BY <3>1, Zenon DEF Tasks
  <2>3. mgr'.pc = "post" /\ mgr'.obj = mgr.obj
    BY <2>1, Zenon
  <2>4. NoAccounts'
    BY <1>3, <2>1, <2>3, Zenon DEF NoAccounts
  <2>5. OnItsWay(m)'
    BY <2>2, <2>3, Zenon DEF OnItsWay, InManager
  <2>6. ASSUME NEW n \in Msgs, OnItsWay(n) PROVE OnItsWay(n)'
    BY <1>4, <2>1, <2>3, <2>6, Zenon DEF OnItsWay, InManager, InQueue
  <2>7. ASSUME NEW n \in Msgs
        PROVE  /\ row'[n].type = row[n].type /\ row'[n].owner = row[n].owner
               /\ n # m => row'[n] = row[n]
    <3>1. row' = row \/ row' = [row EXCEPT ![m] = [row[m] EXCEPT !.locked = TRUE]]
      BY <2>1, <2>2, Zenon DEF LockObject, Update
    <3>2. [row[m] EXCEPT !.locked = TRUE].type = row[m].type /\ [row[m] EXCEPT !.locked = TRUE].owner = row[m].owner
      BY <1>1, Zenon DEF Rows
    <3> QED BY <1>1, <3>1, <3>2, Zenon
  <2> QED BY <1>2, <2>4, <2>5, <2>6, <2>7, SameTidy, Zenon
<1>9. CASE AddTask
  <2>1. /\ mgr.pc = "post" /\ posted' = posted \cup {mgr.obj} /\ UNCHANGED <<row, pending>>
        /\ mgr' = [pc |-> "next", obj |-> NoTask]
    BY <1>9, Zenon DEF AddTask, Manager, Undisturbed
  <2>2. mgr'.obj = NoTask
    BY <2>1, Zenon
  <2>3. NoAccounts'
    BY <1>1, <1>3, <2>1, <2>2, Zenon DEF NoAccounts
  <2>4. ASSUME NEW n \in Msgs, OnItsWay(n) PROVE OnItsWay(n)'
    <3>1. InManager(n) \/ InQueue(n) => InQueue(n)'
      BY <2>1, Zenon DEF InManager, InQueue
    <3> QED BY <1>4, <2>1, <2>4, <3>1, Zenon DEF OnItsWay
  <2> QED BY <1>2, <2>1, <2>3, <2>4, SameTidy, Zenon
<1>10. CASE WakeManager
  <2>1. mgr.pc = "wait" /\ mgr' = [pc |-> "next", obj |-> NoTask] /\ UNCHANGED <<row, posted, pending>>
    BY <1>10, Zenon DEF WakeManager, Manager
  <2>2. mgr'.obj = NoTask
    BY <2>1, Zenon
  <2>3. NoAccounts'
    BY <1>1, <1>3, <2>1, <2>2, Zenon DEF NoAccounts
  <2>4. ASSUME NEW n \in Msgs, OnItsWay(n) PROVE OnItsWay(n)'
    BY <1>4, <2>1, <2>4, Zenon DEF OnItsWay, InManager, InQueue
  <2> QED BY <1>2, <2>1, <2>3, <2>4, SameTidy, Zenon
<1> QED BY <1>5, <1>6, <1>7, <1>8, <1>9, <1>10, Zenon DEF DoWork

\* While the queue is not cleared, what an administrator does is one of these.
LEMMA AdminSteps ==
  ASSUME Undisturbed, "clear" \notin Ops, Administer
  PROVE  \/ RemoveLock \/ AdminDeleteRow("remove") \/ AdminDeleteRecipients("remove") \/ AdminDeleteFile("remove")
         \/ (\E m \in Msgs : Remove(m) \/ ResetDeliveryTime(m)) \/ ETRN
BY Zenon DEF Administer, Clear, Clearer, ClearerStop, ClearerRefresh, ClearerNext, ClearerUncache, ClearerStart,
   AdminDeleteRow, AdminDeleteRecipients, AdminDeleteFile, Undisturbed

\* Remove deletes the row it has locked before it is through.
LEMMA AdminTidy ==
  ASSUME IInv, Tidy, Undisturbed, faults' = 0, "clear" \notin Ops, Administer
  PROVE  Tidy'
<1> DEFINE x == deleter["remove"]
<1>1. /\ StoreTypeOK /\ row \in [Msgs -> Rows] /\ file \in [Msgs -> Folders] /\ TypeOK
      /\ \A n \in Msgs : row[n].type # "held"
  BY Zenon DEF IInv, TypeOK, DelivererTypeOK, StoreTypeOK, Tidy, RowFree
<1>2. UNCHANGED <<worker, posted, pending, mgr, recv>>
  BY AdminSteps, Zenon DEF RemoveLock, AdminDeleteRow, AdminDeleteRecipients, AdminDeleteFile, Remove,
     ResetDeliveryTime, ETRN, restOfAdmin, sessionVars
<1>3. NoAccounts'
  BY <1>2, Zenon DEF Tidy, NoAccounts
<1>4. \A n \in Msgs : /\ InManager(n)' <=> InManager(n)
                      /\ InQueue(n)' <=> InQueue(n)
                      /\ InWorker(n)' <=> InWorker(n)
  BY <1>2, Zenon DEF InManager, InQueue, InWorker, Delivering, At
<1>5. x.pc # "idle" => /\ x.id \in Msgs
                       /\ x \in [pc : {"lock", "delrow", "delrcpt", "delfile"}, id : Msgs, type : Types, owner : Owners]
  <2>1. deleter \in [{"clear", "remove"} ->
                       [pc : {"lock", "delrow", "delrcpt", "delfile"}, id : Msgs, type : Types, owner : Owners]
                       \cup {NoDelete}]
    BY <1>1, Zenon DEF TypeOK
  <2>2. NoDelete.pc = "idle"
    BY Zenon DEF NoDelete
  <2> QED BY <1>1, <2>1, <2>2, DeleterId, Zenon
<1>6. ASSUME NEW pc, Deleter("remove", pc), x.pc # "idle"
      PROVE  deleter'["remove"].pc = pc /\ deleter'["remove"].id = x.id
  <2>1. deleter'["remove"] = [x EXCEPT !.pc = pc]
    BY <1>1, <1>6, Zenon DEF Deleter, TypeOK
  <2> QED BY <1>5, <1>6, <2>1, Zenon
<1>7. ASSUME NEW m \in Msgs, m = x.id, x.pc # "idle",
             deleter'["remove"].id = m, deleter'["remove"].pc \in {"delrow", "delrcpt", "delfile"},
             Writes(m, row'), UNCHANGED file,
             deleter'["remove"].pc # "delrow" => ~Listed(m)'
      PROVE  Tidy'
  <2>1. \A n \in Msgs : OnItsWay(n) => OnItsWay(n)'
    BY <1>2, <1>4, <1>7, Zenon DEF OnItsWay
  <2>2. ASSUME NEW n \in Msgs PROVE RowFree(n)'
    <3>1. OnItsWay(m)'
      BY <1>7, Zenon DEF OnItsWay
    <3> QED BY <1>2, <1>7, <2>1, <3>1, Zenon DEF Tidy, RowFree, Listed, Writes
  <2>3. \A n \in Msgs : Listed(n)' => Listed(n)
    BY <1>7, Zenon DEF Writes, Listed
  <2>4. Removing'
    BY <1>2, <1>7, Zenon DEF Tidy, Removing
  <2> QED BY <1>2, <1>3, <1>7, <2>2, <2>3, <2>4, OtherTidy, Zenon
<1>8. CASE RemoveLock
  <2>1. x.pc = "lock" /\ row' = LockObject(x.id) /\ Deleter("remove", "delrow") /\ UNCHANGED file
    BY <1>8, NoFail, Zenon DEF RemoveLock
  <2>2. Writes(x.id, LockObject(x.id))
    BY <1>1, <1>5, <2>1, Statements, Zenon
  <2> QED BY <1>5, <1>6, <1>7, <2>1, <2>2, Zenon
<1>9. CASE AdminDeleteRow("remove")
  <2>1. /\ x.pc = "delrow" /\ row' = DeleteRow(x.id) /\ UNCHANGED file
        /\ \E pc \in {"delfile", "delrcpt"} : Deleter("remove", pc)
    BY <1>9, NoFail, Zenon DEF AdminDeleteRow
  <2>2. Writes(x.id, DeleteRow(x.id)) /\ DeleteRow(x.id)[x.id].type # "delivering"
    BY <1>1, <1>5, <2>1, Statements, Zenon
  <2>3. ~Listed(x.id)'
    <3>1. PICK m : m = x.id
      OBVIOUS
    <3>2. deleter'["remove"].id = m
      BY <1>6, <2>1, <3>1, Zenon
    <3> QED BY <2>1, <2>2, <3>1, <3>2, Zenon DEF Listed
  <2> QED BY <1>5, <1>6, <1>7, <2>1, <2>2, <2>3, Zenon
<1>10. CASE AdminDeleteRecipients("remove")
  <2>1. x.pc = "delrcpt" /\ UNCHANGED <<row, file>> /\ Deleter("remove", "delfile")
    BY <1>10, NoFail, Zenon DEF AdminDeleteRecipients
  <2>2. PICK m \in Msgs : m = x.id
    BY <1>5, <2>1, Zenon
  <2>3. Writes(m, row)
    BY <1>1, Statements, Zenon
  <2>4. ~Listed(m)
    BY <2>1, <2>2, Zenon DEF Tidy, Removing
  <2> QED BY <1>6, <1>7, <2>1, <2>2, <2>3, <2>4, Zenon DEF Listed
<1>11. CASE AdminDeleteFile("remove")
  <2>1. PICK m \in Msgs : m = x.id
    BY <1>5, <1>11, Zenon DEF AdminDeleteFile
  <2>2. /\ x.pc = "delfile" /\ row' = row /\ deleter' = [deleter EXCEPT !["remove"] = NoDelete]
        /\ \/ file' = [file EXCEPT ![m] = IF @ = "account" THEN "none" ELSE @]
           \/ file' = DeleteQueueFile(m)
           \/ file' = file
    BY <1>11, <2>1, NoFail, Zenon DEF AdminDeleteFile, Deleted
  <2>3. \A n \in Msgs : n # m => file'[n] = file[n]
    BY <1>1, <2>2, Zenon DEF DeleteQueueFile
  <2>4. deleter'["remove"] = NoDelete /\ NoDelete.pc = "idle"
    BY <1>1, <2>2, Zenon DEF TypeOK, NoDelete
  <2>5. ~Listed(m)
    BY <2>1, <2>2, Zenon DEF Tidy, Removing
  <2>6. \A n \in Msgs : Listed(n)' <=> Listed(n)
    BY <2>2, Zenon DEF Listed
  <2>7. ASSUME NEW n \in Msgs PROVE RowFree(n)'
    <3>1. n # m /\ OnItsWay(n) => OnItsWay(n)'
      BY <1>2, <1>4, <2>1, Zenon DEF OnItsWay
    <3> QED BY <1>2, <2>2, <2>5, <2>6, <3>1, Zenon DEF Tidy, RowFree
  <2>8. Removing'
    BY <2>4, Zenon DEF Removing
  <2> QED BY <1>2, <1>3, <2>3, <2>5, <2>6, <2>7, <2>8, OtherTidy, Zenon
<1>12. ASSUME NEW m \in Msgs, Remove(m) PROVE Tidy'
  <2> DEFINE y == [pc |-> "lock", id |-> m, type |-> row[m].type, owner |-> row[m].owner]
  <2>1. /\ x.pc = "idle" /\ row[m].type # "none" /\ UNCHANGED <<row, file>>
        /\ deleter' = [deleter EXCEPT !["remove"] = y]
    BY <1>12, Zenon DEF Remove, Exists
  <2>2. deleter'["remove"] = y
    BY <1>1, <2>1, Zenon DEF TypeOK
  <2>3. deleter'["remove"].pc = "lock" /\ deleter'["remove"].id = m
    BY <2>2
  <2>4. \A n \in Msgs : x.id # n
    <3>1. x \in [pc : {"lock", "delrow", "delrcpt", "delfile"}, id : Msgs, type : Types, owner : Owners] \cup {NoDelete}
      BY <1>1, Zenon DEF TypeOK
    <3>2. x = NoDelete
      BY <2>1, <3>1, Zenon
    <3>3. x.id = NoMsg
      BY <3>2 DEF NoDelete
    <3> QED BY <3>3, DelivererAssumption, Zenon
  <2>5. \A n \in Msgs : OnItsWay(n) => OnItsWay(n)'
    BY <1>2, <1>4, <2>4, Zenon DEF OnItsWay
  <2>6. ASSUME NEW n \in Msgs PROVE RowFree(n)'
    BY <1>2, <2>1, <2>5, Zenon DEF Tidy, RowFree, Listed
  <2>7. recv[m] # "new"
    BY <2>1, Zenon DEF IInv, LockInv
  <2>8. Removing'
    BY <1>2, <2>3, <2>7, Zenon DEF Removing
  <2> QED BY <1>2, <1>3, <2>1, <2>6, <2>8, OtherTidy, Zenon DEF Listed
<1>13. ASSUME NEW m \in Msgs, ResetDeliveryTime(m) PROVE Tidy'
  <2>1. row' = SetNextTryTime(m, FALSE, TRUE) /\ UNCHANGED <<file, deleter>>
    BY <1>13, Zenon DEF ResetDeliveryTime, adminVars
  <2>2. row[m] \in Rows /\ row[m].type = "delivering"
    BY <1>1, <1>13, Zenon DEF ResetDeliveryTime, Queued
  <2>3. row' = [row EXCEPT ![m] = [row[m] EXCEPT !.type = "delivering", !.due = TRUE,
                                                 !.tries = IF FALSE THEN @ + 1 ELSE @]]
    BY <1>13, <2>1, Zenon DEF SetNextTryTime, ResetDeliveryTime
  <2>4. /\ row'[m] = [row[m] EXCEPT !.type = "delivering", !.due = TRUE, !.tries = IF FALSE THEN @ + 1 ELSE @]
        /\ \A n \in Msgs : n # m => row'[n] = row[n]
    BY <1>1, <2>3, Zenon
  <2>5. row'[m].type = row[m].type /\ row'[m].owner = row[m].owner /\ row'[m].locked = row[m].locked
    BY <2>2, <2>4 DEF Rows
  <2>6. \A n \in Msgs : OnItsWay(n) => OnItsWay(n)'
    BY <1>2, <1>4, <2>1, Zenon DEF OnItsWay
  <2> QED BY <1>2, <1>3, <2>1, <2>4, <2>5, <2>6, SameTidy, Zenon
<1>14. CASE ETRN
  <2>1. row' = ReleaseRoute /\ UNCHANGED <<file, deleter>>
    BY <1>14, Zenon DEF ETRN, adminVars
  <2>2. \A n \in Msgs : row'[n] = row[n]
    BY <1>1, <2>1, Zenon DEF ReleaseRoute
  <2>3. \A n \in Msgs : OnItsWay(n) => OnItsWay(n)'
    BY <1>2, <1>4, <2>1, Zenon DEF OnItsWay
  <2> QED BY <1>2, <1>3, <2>1, <2>2, <2>3, SameTidy, Zenon
<1> QED BY <1>8, <1>9, <1>10, <1>11, <1>12, <1>13, <1>14, AdminSteps, Zenon

\* The passing of time does nothing to a lock, and after a restart every lock
\* waits for UnlockAll.
LEMMA TimeTidy ==
  ASSUME IInv, Tidy, NEW m \in Msgs, TimePasses(m)
  PROVE  Tidy'
<1>1. row \in [Msgs -> Rows] /\ row[m] \in Rows
  BY Zenon DEF IInv, TypeOK, DelivererTypeOK, StoreTypeOK
<1>2. UNCHANGED <<worker, posted, pending, mgr, recv, deleter, file>>
  BY Zenon DEF TimePasses, restOfAdmin, sessionVars, adminVars
<1>3. row'[m] = [row[m] EXCEPT !.due = TRUE] /\ \A n \in Msgs : n # m => row'[n] = row[n]
  BY <1>1, Zenon DEF TimePasses
<1>4. row'[m].type = row[m].type /\ row'[m].owner = row[m].owner /\ row'[m].locked = row[m].locked
  BY <1>1, <1>3, Zenon DEF Rows
<1>5. \A n \in Msgs : OnItsWay(n) => OnItsWay(n)'
  BY <1>2, Zenon DEF OnItsWay, InManager, InQueue, InWorker, Delivering, At
<1>6. NoAccounts'
  BY <1>2, Zenon DEF Tidy, NoAccounts
<1> QED BY <1>2, <1>3, <1>4, <1>5, <1>6, SameTidy, Zenon

LEMMA CrashTidy ==
  ASSUME IInv, Tidy, Crash
  PROVE  Tidy'
<1>1. /\ UNCHANGED row /\ posted' = {} /\ pending' = {} /\ \A w \in Workers : worker'[w] = Idle
      /\ mgr' = [pc |-> "start", obj |-> NoTask]
      /\ deleter' = [d \in {"clear", "remove"} |-> NoDelete]
  BY Zenon DEF Crash, Manager
<1>2. mgr'.pc = "start" /\ mgr'.obj.owner = "none"
  BY <1>1 DEF NoTask
<1>3. deleter'["remove"].pc = "idle"
  BY <1>1 DEF NoDelete
<1>4. ASSUME NEW n \in Msgs PROVE RowFree(n)'
  <2>1. OnItsWay(n)'
    BY <1>2, Zenon DEF OnItsWay
  <2> QED BY <1>1, <2>1, Zenon DEF Tidy, RowFree, Listed
<1>5. \A w \in Workers, n \in Msgs : ~Delivering(w, n)'
  BY <1>1, NoId, Zenon DEF Delivering
<1>6. Removing'
  BY <1>3, Zenon DEF Removing
<1> QED BY <1>1, <1>2, <1>4, <1>5, <1>6, Zenon DEF Tidy

-----------------------------------------------------------------------------
\* Failures are counted and never forgotten.
LEMMA FaultsStay ==
  ASSUME IInv, Next, faults' = 0
  PROVE  faults = 0
<1>1. ~Fails
  BY NoFail, Zenon
<1>2. ASSUME NEW m \in Msgs, Receive(m) \/ TimePasses(m) PROVE UNCHANGED faults
  BY <1>1, <1>2, Zenon DEF Receive, InsertMessage, SaveRecipients, UnlockSaved, AcceptMessage, TimePasses,
     Works, delivererVars
<1>3. ASSUME DoWork PROVE UNCHANGED faults
  BY <1>1, <1>3, Zenon DEF DoWork, StartManager, LoadPendingMessageList, TakeFromCache, TakeFromDatabase,
     LockMessage, AddTask, WakeManager, Works, WriteRow
<1>4. ASSUME Administer PROVE UNCHANGED faults
  BY <1>1, <1>4, Zenon DEF Administer, Clearer, Clear, ClearerStop, ClearerRefresh, ClearerNext, ClearerUncache,
     ClearerStart, Remove, RemoveLock, AdminDeleteRow, AdminDeleteRecipients, AdminDeleteFile,
     ResetDeliveryTime, ETRN, Works
<1>5. ASSUME NEW w \in Workers, Work(w) PROVE UNCHANGED faults
  BY <1>1, <1>5, Zenon DEF Work, ExecuteTask, Interrupt, Deliver, CheckMessage, PreprocessMessage,
     AbortDelivery, DeferDelivery, HoldUnscannable, UnlockHeld, RefuseUnscannable, DropLocal, RejectLocal,
     CopyToAccount, ReuseMessage, DropReused, SaveReused, DeleteLocalRecipient, LocalDone, DeliverBatch,
     CollectDeliveryResult, Collected, HoldForEtrn, RescheduleDelivery, UnlockRescheduled, GiveUp,
     SubmitErrorLog, DeleteQueueRow, DeleteQueueRecipients, DeleteDataFile, Works, WriteRow
<1>6. ASSUME Crash PROVE UNCHANGED faults
  BY <1>6, Zenon DEF Crash
<1> QED BY <1>2, <1>3, <1>4, <1>5, <1>6, Zenon DEF Next

LEMMA UndisturbedStep ==
  ASSUME IInv, Undisturbed, "clear" \notin Ops, Next
  PROVE  Undisturbed'
<1>1. CASE UNCHANGED <<running, clearing, worker>> /\ deleter'["clear"] = deleter["clear"]
  BY <1>1, Zenon DEF Undisturbed
<1>2. ASSUME NEW m \in Msgs, Receive(m) \/ TimePasses(m) PROVE UNCHANGED <<running, clearing, worker, deleter>>
  BY <1>2, Zenon DEF Receive, InsertMessage, SaveRecipients, UnlockSaved, AcceptMessage, TimePasses,
     restOfSession, adminVars, delivererVars
<1>3. ASSUME DoWork PROVE UNCHANGED <<running, clearing, worker, deleter>>
  BY <1>3, Zenon DEF DoWork, StartManager, LoadPendingMessageList, TakeFromCache, TakeFromDatabase,
     LockMessage, AddTask, WakeManager, restOfManager, adminVars
<1>4. ASSUME Administer PROVE UNCHANGED <<running, clearing, worker>> /\ deleter'["clear"] = deleter["clear"]
  <2>1. UNCHANGED <<running, clearing, worker>>
    BY <1>4, AdminSteps, Zenon DEF RemoveLock, AdminDeleteRow, AdminDeleteRecipients, AdminDeleteFile, Remove,
       ResetDeliveryTime, ETRN, adminVars
  <2>2. deleter' = deleter \/ \E y : deleter' = [deleter EXCEPT !["remove"] = y]
    BY <1>4, AdminSteps, Zenon DEF RemoveLock, AdminDeleteRow, AdminDeleteRecipients, AdminDeleteFile, Remove,
       ResetDeliveryTime, ETRN, adminVars, Deleter, Deleted
  <2> QED BY <2>1, <2>2, Zenon DEF IInv, TypeOK
<1>5. ASSUME NEW w \in Workers, Work(w) PROVE Undisturbed'
  <2>1. Others(w) /\ ~worker'[w].hit
    BY <1>5, WorkUnhit, Zenon DEF Undisturbed
  <2>2. UNCHANGED <<running, clearing, deleter>>
    BY <1>5, Zenon DEF Work, adminVars, ExecuteTask, Interrupt, Deliver, CheckMessage, PreprocessMessage,
     AbortDelivery, DeferDelivery, HoldUnscannable, UnlockHeld, RefuseUnscannable, DropLocal, RejectLocal,
     CopyToAccount, ReuseMessage, DropReused, SaveReused, DeleteLocalRecipient, LocalDone, DeliverBatch,
     CollectDeliveryResult, Collected, HoldForEtrn, RescheduleDelivery, UnlockRescheduled, GiveUp,
     SubmitErrorLog, DeleteQueueRow, DeleteQueueRecipients, DeleteDataFile, queueVars
  <2> QED BY <2>1, <2>2, Zenon DEF Undisturbed, Others
<1>6. ASSUME Crash PROVE Undisturbed'
  <2>1. /\ running' /\ clearing' = "no" /\ \A w \in Workers : worker'[w] = Idle
        /\ deleter'["clear"] = NoDelete
    BY <1>6, Zenon DEF Crash
  <2>2. ~Idle.hit /\ NoDelete.pc = "idle"
    BY Zenon DEF Idle, NoDelete
  <2> QED BY <2>1, <2>2, Zenon DEF Undisturbed
<1> QED BY <1>1, <1>2, <1>3, <1>4, <1>5, <1>6, Zenon DEF Next

LEMMA StrandStep ==
  ASSUME IInv, StrandInv, "clear" \notin Ops, EtrnRcpts = {}, [Next]_vars
  PROVE  StrandInv'
<1>1. CASE UNCHANGED vars
  BY <1>1, Zenon DEF StrandInv, Undisturbed, Tidy, RowFree, Listed, OnItsWay, InManager, InQueue, InWorker,
     Delivering, At, Releases, Left, Removing, vars, delivererVars, sessionVars, managerVars, adminVars
<1>2. CASE Next
  <2>1. Undisturbed'
    BY <1>2, UndisturbedStep, Zenon DEF StrandInv
  <2>2. ASSUME faults' = 0 PROVE Tidy'
    <3>1. Tidy /\ Undisturbed
      BY <1>2, <2>2, FaultsStay, Zenon DEF StrandInv
    <3> QED BY <1>2, <2>2, <3>1, WorkTidy, ReceiveTidy, ManagerTidy, AdminTidy, TimeTidy, CrashTidy, Zenon DEF Next
  <2> QED BY <2>1, <2>2, Zenon DEF StrandInv
<1> QED BY <1>1, <1>2, Zenon

LEMMA StrandStart ==
  ASSUME Init
  PROVE  StrandInv
<1>1. /\ row = [m \in Msgs |-> NoRow] /\ posted = {} /\ pending = {} /\ running = TRUE /\ clearing = "no"
      /\ \A w \in Workers : worker[w] = Idle
      /\ mgr = [pc |-> "start", obj |-> NoTask]
      /\ deleter["remove"] = NoDelete /\ deleter["clear"] = NoDelete
  BY Zenon DEF Init, DelivererInit
<1>2. mgr.obj.owner = "none"
  BY <1>1 DEF NoTask
<1>3. NoDelete.pc = "idle" /\ ~Idle.hit /\ NoRow.type = "none"
  BY Zenon DEF NoDelete, Idle, NoRow
<1>4. \A m \in Msgs : row[m].type = "none"
  BY <1>1, <1>3, Zenon
<1>5. \A m \in Msgs : RowFree(m)
  BY <1>4, Zenon DEF RowFree, Listed
<1>6. \A w \in Workers, n \in Msgs : ~Delivering(w, n)
  BY <1>1, NoId, Zenon DEF Delivering
<1> QED BY <1>1, <1>2, <1>3, <1>5, <1>6, Zenon DEF StrandInv, Undisturbed, Tidy, Removing

\* No message is stranded: on a server without ETRN routes whose queue is never
\* cleared, and as long as no statement fails, a queued message whose row is
\* locked is on its way to a thread or in one, or Remove is deleting it, or the
\* manager is about to unlock it -- whatever the attempts come to, whatever else an
\* administrator does and however often the process restarts.
THEOREM NobodyIsStranded ==
  ASSUME EarlySessions = FALSE, "clear" \notin Ops, EtrnRcpts = {}
  PROVE  Spec => []NoStranding
<1>1. Init => IInv /\ StrandInv
  BY LockInit, StrandStart, Zenon
<1>2. IInv /\ StrandInv /\ [Next]_vars => (IInv /\ StrandInv)'
  BY LockStep, StrandStep, Zenon
<1>3. StrandInv => NoStranding
  BY Zenon DEF StrandInv, Tidy, RowFree, Listed, OnItsWay, NoStranding
<1> QED BY <1>1, <1>2, <1>3, PTL DEF Spec
=============================================================================
