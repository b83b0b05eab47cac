------------------------ MODULE DeliveryQueueProofs -------------------------
(***************************************************************************)
(* TypeOK, LockInv and OneDeliverer hold of DeliveryQueue for any set of   *)
(* messages, recipients and threads and any bounds.                        *)
(***************************************************************************)
EXTENDS DeliveryQueue, TLAPS

(* Types: first what the statements of the store return. *)

\* Each statement on hm_messages returns a table of rows.
LEMMA RowOps ==
  ASSUME StoreTypeOK, NEW m \in Msgs, NEW b \in BOOLEAN, NEW d \in BOOLEAN
  PROVE  /\ InsertRow(m) \in [Msgs -> Rows]
         /\ SaveDelivered(m) \in [Msgs -> Rows]
         /\ LockObject(m) \in [Msgs -> Rows]
         /\ UnlockObject(m) \in [Msgs -> Rows]
         /\ UnlockAll \in [Msgs -> Rows]
         /\ SetNextTryTime(m, b, d) \in [Msgs -> Rows]
         /\ HoldForRoute(m) \in [Msgs -> Rows]
         /\ ReleaseRoute \in [Msgs -> Rows]
         /\ DeleteRow(m) \in [Msgs -> Rows]
<1> USE DEF StoreTypeOK, Rows, Types, Owners, Update
<1>1. InsertRow(m) \in [Msgs -> Rows]
  BY Zenon DEF InsertRow
<1>2. SaveDelivered(m) \in [Msgs -> Rows]
  BY DEF SaveDelivered
<1>3. LockObject(m) \in [Msgs -> Rows]
  BY Zenon DEF LockObject
<1>4. UnlockObject(m) \in [Msgs -> Rows]
  BY Zenon DEF UnlockObject
<1>5. UnlockAll \in [Msgs -> Rows]
  BY Zenon DEF UnlockAll
<1>6. SetNextTryTime(m, b, d) \in [Msgs -> Rows]
  <2>1. row[m].tries \in Nat /\ row[m].tries + 1 \in Nat
    OBVIOUS
  <2>2. (IF b THEN row[m].tries + 1 ELSE row[m].tries) \in Nat
    BY <2>1, Zenon
  <2>3. [row[m] EXCEPT !.type = "delivering", !.due = d,
                       !.tries = IF b THEN @ + 1 ELSE @] \in Rows
    BY <2>2, Zenon
  <2> QED BY <2>3, Zenon DEF SetNextTryTime
<1>7. HoldForRoute(m) \in [Msgs -> Rows]
  BY DEF HoldForRoute
<1>8. ReleaseRoute \in [Msgs -> Rows]
  BY Zenon DEF ReleaseRoute
<1>9. DeleteRow(m) \in [Msgs -> Rows]
  BY Zenon DEF DeleteRow, NoRow
<1> QED BY <1>1, <1>2, <1>3, <1>4, <1>5, <1>6, <1>7, <1>8, <1>9, Zenon

\* A worker that is not idle holds a message, and its locals have their types.
LEMMA BusyType ==
  ASSUME DelivererTypeOK, NEW w \in Workers, ~At(w, "idle")
  PROVE  worker[w] \in BusyStates
BY DEF DelivererTypeOK, At, Idle

\* Continuing as a worker state keeps the type of worker.
LEMMA ContinueType ==
  ASSUME DelivererTypeOK, NEW w \in Workers, NEW next \in BusyStates \cup {Idle},
         Continue(w, next)
  PROVE  worker' \in [Workers -> BusyStates \cup {Idle}]
BY Zenon DEF DelivererTypeOK, Continue

\* So does the growth of a history.
LEMMA AddType ==
  ASSUME NEW f \in [Msgs -> SUBSET Rcpts], NEW m \in Msgs, NEW S \in SUBSET Rcpts
  PROVE  Add(f, m, S) \in [Msgs -> SUBSET Rcpts]
BY Zenon DEF Add

\* A checked or unchecked write of hm_messages.
LEMMA WriteRowType ==
  ASSUME DelivererTypeOK, NEW r \in [Msgs -> Rows], WriteRow(r)
  PROVE  row' \in [Msgs -> Rows] /\ faults' \in Nat
BY DEF WriteRow, Works, Fails, DelivererTypeOK, StoreTypeOK

\* Every fault that is counted keeps the counter a number.
LEMMA FaultType ==
  ASSUME DelivererTypeOK, Works \/ Fails
  PROVE  faults' \in Nat
BY DEF Works, Fails, DelivererTypeOK

\* A delivery, recorded as such.
LEMMA ReachType ==
  ASSUME DelivererTypeOK, NEW m \in Msgs, NEW S \in SUBSET Rcpts, Reach(m, S)
  PROVE  reached' \in [Msgs -> SUBSET Rcpts] /\ twice' \in [Msgs -> SUBSET Rcpts]
BY AddType, Zenon DEF Reach, DelivererTypeOK

\* A local recipient's failure keeps the types of what it touches.
LEMMA LocalFailureType ==
  ASSUME DelivererTypeOK, NEW w \in Workers, worker[w].id \in Msgs, NEW r \in Rcpts,
         NEW next \in BusyStates, LocalFailure(w, r, next)
  PROVE  /\ worker' \in [Workers -> BusyStates \cup {Idle}]
         /\ closed' \in [Msgs -> SUBSET Rcpts]
<1>1. [next EXCEPT !.errs = @ \cup ({r} \ Silent)] \in BusyStates
  BY Zenon DEF BusyStates
<1>2. closed' \in [Msgs -> SUBSET Rcpts]
  BY AddType, Zenon DEF LocalFailure, DelivererTypeOK
<1> QED BY <1>1, <1>2, ContinueType, Zenon DEF LocalFailure

\* Whether there is a template is a truth value.
LEMMA TemplateType ==
  ASSUME NEW w, worker[w] \in BusyStates, NEW r
  PROVE  Template(w, r) \subseteq BOOLEAN
<1>1. worker[w].shared \in BOOLEAN /\ HardLinks \in BOOLEAN
  BY DelivererAssumption, Zenon DEF BusyStates
<1> QED BY <1>1, Zenon DEF Template

\* A thread that goes on to delete a local recipient's row.
LEMMA LocalRowType ==
  ASSUME NEW w, worker[w] \in BusyStates, NEW r \in Rcpts
  PROVE  \A shared \in Template(w, r) :
           [worker[w] EXCEPT !.pc = "localrow", !.cur = {r}, !.shared = shared] \in BusyStates
<1>1. \A shared \in BOOLEAN :
        [worker[w] EXCEPT !.pc = "localrow", !.cur = {r}, !.shared = shared] \in BusyStates
  BY Zenon DEF BusyStates, Steps
<1> QED BY <1>1, TemplateType, Zenon

\* Every step of a delivery thread keeps the types of the store, of the work
\* queue, of the threads and of the histories.
LEMMA WorkType ==
  ASSUME DelivererTypeOK, NEW w \in Workers,
         ExecuteTask(w) \/ Deliver(w) \/ Interrupt(w)
  PROVE  DelivererTypeOK'
<1>1. CASE ExecuteTask(w)
  <2>1. PICK t \in posted :
          /\ Continue(w, [Idle EXCEPT !.pc = "check", !.id = t.id, !.rcpts = t.rcpts,
                                      !.tries = t.tries, !.owner = t.owner])
          /\ posted' = posted \ {t}
    BY <1>1, Zenon DEF ExecuteTask
  <2>2. t \in Tasks
    BY Zenon DEF DelivererTypeOK
  <2>3. [Idle EXCEPT !.pc = "check", !.id = t.id, !.rcpts = t.rcpts,
                     !.tries = t.tries, !.owner = t.owner] \in BusyStates
    BY <2>2, Zenon DEF Idle, BusyStates, Steps, Tasks
  <2>4. worker' \in [Workers -> BusyStates \cup {Idle}]
    BY <2>1, <2>3, ContinueType, Zenon
  <2> QED BY <1>1, <2>1, <2>4, Zenon DEF ExecuteTask, DelivererTypeOK, StoreTypeOK, history
<1>2. CASE CheckMessage(w)
  <2>1. worker[w] \in BusyStates
    BY <1>2, BusyType, Zenon DEF CheckMessage, At
  <2>2. worker' \in [Workers -> BusyStates \cup {Idle}]
    BY <1>2, <2>1, Zenon DEF CheckMessage, Goto, Continue, BusyStates, Steps, DelivererTypeOK
  <2> QED BY <1>2, <2>1, <2>2, Zenon DEF CheckMessage, DelivererTypeOK, StoreTypeOK, history, queueVars
<1>3. CASE PreprocessMessage(w)
  <2>1. worker[w] \in BusyStates
    BY <1>3, BusyType, Zenon DEF PreprocessMessage, At
  <2>2. worker' \in [Workers -> BusyStates \cup {Idle}]
    BY <1>3, <2>1, Zenon DEF PreprocessMessage, Goto, Continue, BusyStates, Steps, DelivererTypeOK
  <2> QED BY <1>3, <2>1, <2>2, Zenon DEF PreprocessMessage, DelivererTypeOK, StoreTypeOK, BusyStates, queueVars
<1>4. CASE AbortDelivery(w)
  <2>1. worker[w] \in BusyStates
    BY <1>4, BusyType, Zenon DEF AbortDelivery, At
  <2>2. worker' \in [Workers -> BusyStates \cup {Idle}]
    BY <1>4, <2>1, Zenon DEF AbortDelivery, Goto, Continue, BusyStates, Steps, DelivererTypeOK
  <2>3. worker[w].id \in Msgs
    BY <2>1, Zenon DEF BusyStates
  <2>4. closed' \in [Msgs -> SUBSET Rcpts]
    BY <1>4, <2>1, <2>3, AddType, Zenon DEF AbortDelivery, DelivererTypeOK, BusyStates
  <2> QED BY <1>4, <2>1, <2>2, <2>3, <2>4, Zenon DEF AbortDelivery, DelivererTypeOK, StoreTypeOK, queueVars
<1>5. CASE DeferDelivery(w)
  <2>1. worker[w] \in BusyStates
    BY <1>5, BusyType, Zenon DEF DeferDelivery, At
  <2>2. HoldCounted(worker[w].id) \in BOOLEAN
    BY Zenon DEF HoldCounted
  <2>3. worker' \in [Workers -> BusyStates \cup {Idle}]
    BY <1>5, <2>1, <2>2, Zenon DEF DeferDelivery, Continue, BusyStates, Steps, DelivererTypeOK
  <2> QED BY <1>5, <2>1, <2>2, <2>3, Zenon DEF DeferDelivery, DelivererTypeOK, StoreTypeOK, history, queueVars
<1>6. CASE HoldUnscannable(w)
  <2>1. worker[w] \in BusyStates
    BY <1>6, BusyType, Zenon DEF HoldUnscannable, At
  <2>2. worker' \in [Workers -> BusyStates \cup {Idle}]
    BY <1>6, <2>1, Zenon DEF HoldUnscannable, Goto, Continue, BusyStates, Steps, DelivererTypeOK
  <2>3. worker[w].id \in Msgs
    BY <2>1, Zenon DEF BusyStates
  <2>4. SetNextTryTime(worker[w].id, FALSE, FALSE) \in [Msgs -> Rows]
    BY <2>3, RowOps, Zenon DEF DelivererTypeOK
  <2>5. row' \in [Msgs -> Rows] /\ faults' \in Nat
    BY <1>6, <2>4, WriteRowType, Zenon DEF HoldUnscannable
  <2> QED BY <1>6, <2>1, <2>2, <2>3, <2>4, <2>5 DEF HoldUnscannable, DelivererTypeOK, StoreTypeOK, history, queueVars
<1>7. CASE UnlockHeld(w)
  <2>1. worker[w] \in BusyStates
    BY <1>7, BusyType, Zenon DEF UnlockHeld, At
  <2>2. worker' \in [Workers -> BusyStates \cup {Idle}]
    BY <1>7, <2>1, Zenon DEF UnlockHeld, Finish, Continue, BusyStates, Steps, DelivererTypeOK
  <2>3. worker[w].id \in Msgs
    BY <2>1, Zenon DEF BusyStates
  <2>4. UnlockObject(worker[w].id) \in [Msgs -> Rows]
    BY <2>3, RowOps, Zenon DEF DelivererTypeOK
  <2>5. row' \in [Msgs -> Rows] /\ faults' \in Nat
    BY <1>7, <2>4, WriteRowType, Zenon DEF UnlockHeld
  <2> QED BY <1>7, <2>1, <2>2, <2>3, <2>4, <2>5, Zenon DEF UnlockHeld, DelivererTypeOK, StoreTypeOK, history, queueVars
<1>8. CASE RefuseUnscannable(w)
  <2>1. worker[w] \in BusyStates
    BY <1>8, BusyType, Zenon DEF RefuseUnscannable, At
  <2>2. worker' \in [Workers -> BusyStates \cup {Idle}]
    BY <1>8, <2>1, Zenon DEF RefuseUnscannable, At, Continue, BusyStates, Steps, DelivererTypeOK
  <2> QED BY <1>8, <2>1, <2>2, Zenon DEF RefuseUnscannable, DelivererTypeOK, StoreTypeOK, BusyStates, history, queueVars
<1>9. ASSUME NEW r \in LocalRcpts, DropLocal(w, r)
     PROVE  DelivererTypeOK'
  <2>1. worker[w] \in BusyStates /\ worker[w].id \in Msgs /\ r \in Rcpts
    BY <1>9, BusyType, Zenon DEF DropLocal, Handling, At, BusyStates, Rcpts
  <2>2. \A shared \in Template(w, r) :
          [worker[w] EXCEPT !.pc = "localrow", !.cur = {r}, !.shared = shared] \in BusyStates
    BY <2>1, LocalRowType, Zenon
  <2>3. worker' \in [Workers -> BusyStates \cup {Idle}]
    BY <1>9, <2>2, ContinueType, Zenon DEF DropLocal
  <2>4. closed' \in [Msgs -> SUBSET Rcpts]
    BY <1>9, <2>1, AddType, Zenon DEF DropLocal, DelivererTypeOK
  <2> QED BY <1>9, <2>1, <2>2, <2>3, <2>4, Zenon DEF DropLocal, DelivererTypeOK, StoreTypeOK, queueVars
<1>10. ASSUME NEW r \in LocalRcpts, RejectLocal(w, r)
     PROVE  DelivererTypeOK'
  <2>1. worker[w] \in BusyStates /\ worker[w].id \in Msgs /\ r \in Rcpts
    BY <1>10, BusyType, Zenon DEF RejectLocal, Handling, At, BusyStates, Rcpts
  <2>2. \A shared \in Template(w, r) :
          [worker[w] EXCEPT !.pc = "localrow", !.cur = {r}, !.shared = shared] \in BusyStates
    BY <2>1, LocalRowType, Zenon
  <2>3. worker' \in [Workers -> BusyStates \cup {Idle}] /\ closed' \in [Msgs -> SUBSET Rcpts]
    BY <1>10, <2>1, <2>2, LocalFailureType, Zenon DEF RejectLocal
  <2> QED BY <1>10, <2>1, <2>2, <2>3, Zenon DEF RejectLocal, DelivererTypeOK, StoreTypeOK, queueVars
<1>11. ASSUME NEW r \in LocalRcpts, CopyToAccount(w, r)
     PROVE  DelivererTypeOK'
  <2>1. worker[w] \in BusyStates /\ worker[w].id \in Msgs /\ r \in Rcpts
    BY <1>11, BusyType, Zenon DEF CopyToAccount, Handling, At, BusyStates, Rcpts
  <2>2. \A shared \in Template(w, r) :
          [worker[w] EXCEPT !.pc = "localrow", !.cur = {r}, !.shared = shared] \in BusyStates
    BY <2>1, LocalRowType, Zenon
  <2>3. worker' \in [Workers -> BusyStates \cup {Idle}] /\ closed' \in [Msgs -> SUBSET Rcpts]
    <3>1. PICK shared \in Template(w, r) :
            \/ Continue(w, [worker[w] EXCEPT !.pc = "localrow", !.cur = {r}, !.shared = shared]) /\ UNCHANGED closed
            \/ LocalFailure(w, r, [worker[w] EXCEPT !.pc = "localrow", !.cur = {r}, !.shared = shared])
      BY <1>11, Zenon DEF CopyToAccount
    <3>2. [worker[w] EXCEPT !.pc = "localrow", !.cur = {r}, !.shared = shared] \in BusyStates
      BY <2>2, Zenon
    <3> QED BY <2>1, <3>1, <3>2, ContinueType, LocalFailureType, Zenon DEF DelivererTypeOK
  <2>4. Add(rcpt, worker[w].id, {r}) \in [Msgs -> SUBSET Rcpts]
    BY <2>1, AddType, Zenon DEF DelivererTypeOK, StoreTypeOK
  <2>5. rcpt' \in [Msgs -> SUBSET Rcpts]
    BY <1>11, <2>4, Zenon DEF CopyToAccount, DelivererTypeOK, StoreTypeOK
  <2>6. reached' \in [Msgs -> SUBSET Rcpts] /\ twice' \in [Msgs -> SUBSET Rcpts]
    BY <1>11, <2>1, ReachType DEF CopyToAccount, NoReach, DelivererTypeOK
  <2>7. faults' \in Nat
    BY <1>11, FaultType, Zenon DEF CopyToAccount, Works
  <2> QED BY <1>11, <2>1, <2>2, <2>3, <2>4, <2>5, <2>6, <2>7, Zenon DEF CopyToAccount, DelivererTypeOK, StoreTypeOK, queueVars
<1>12. ASSUME NEW r \in LocalRcpts, ReuseMessage(w, r)
     PROVE  DelivererTypeOK'
  <2>1. worker[w] \in BusyStates /\ worker[w].id \in Msgs /\ r \in Rcpts
    BY <1>12, BusyType, Zenon DEF ReuseMessage, Handling, At, BusyStates, Rcpts
  <2>2. [worker[w] EXCEPT !.pc = "save", !.cur = {r}, !.reused = TRUE, !.owner = "user"] \in BusyStates
    BY <2>1, Zenon DEF BusyStates, Steps, Owners
  <2>3. [worker[w] EXCEPT !.pc = "localrow", !.cur = {r}, !.reused = TRUE, !.owner = "user"] \in BusyStates
    BY <2>1, Zenon DEF BusyStates, Steps, Owners
  <2>4. worker' \in [Workers -> BusyStates \cup {Idle}] /\ closed' \in [Msgs -> SUBSET Rcpts]
    BY <1>12, <2>1, <2>2, <2>3, ContinueType, LocalFailureType, Zenon DEF ReuseMessage, DelivererTypeOK
  <2>5. file' \in [Msgs -> Folders]
    BY <1>12, Zenon DEF ReuseMessage, MoveFileToUserFolder, Folders, DelivererTypeOK, StoreTypeOK
  <2>6. faults' \in Nat
    BY <1>12, FaultType, Zenon DEF ReuseMessage, Works
  <2> QED BY <1>12, <2>1, <2>2, <2>3, <2>4, <2>5, <2>6, Zenon DEF ReuseMessage, DelivererTypeOK, StoreTypeOK, queueVars
<1>13. CASE DropReused(w)
  <2>1. worker[w] \in BusyStates
    BY <1>13, BusyType, Zenon DEF DropReused, At
  <2>2. worker[w].id \in Msgs /\ worker[w].cur \in SUBSET Rcpts
    BY <2>1, Zenon DEF BusyStates
  <2>3. GiveBack(w) \in BusyStates
    BY <2>1, Zenon DEF GiveBack, BusyStates, Steps, Owners
  <2>4. worker' \in [Workers -> BusyStates \cup {Idle}] /\ closed' \in [Msgs -> SUBSET Rcpts]
    BY <1>13, <2>2, <2>3, ContinueType, LocalFailureType, AddType DEF DropReused, DelivererTypeOK
  <2>5. file' \in [Msgs -> Folders]
    BY <1>13, Zenon DEF DropReused, Folders, DelivererTypeOK, StoreTypeOK
  <2> QED BY <1>13, <2>1, <2>2, <2>3, <2>4, <2>5, Zenon DEF DropReused, DelivererTypeOK, StoreTypeOK, queueVars
<1>14. CASE SaveReused(w)
  <2>1. worker[w] \in BusyStates
    BY <1>14, BusyType, Zenon DEF SaveReused, At
  <2>2. worker[w].id \in Msgs /\ worker[w].cur \in SUBSET Rcpts
    BY <2>1, Zenon DEF BusyStates
  <2>3. [GiveBack(w) EXCEPT !.saved = TRUE] \in BusyStates
    BY <2>1, Zenon DEF GiveBack, BusyStates, Steps, Owners
  <2>4. [worker[w] EXCEPT !.pc = "localrow", !.saved = TRUE] \in BusyStates
    BY <2>1, Zenon DEF BusyStates, Steps
  <2>5. worker' \in [Workers -> BusyStates \cup {Idle}] /\ closed' \in [Msgs -> SUBSET Rcpts]
    BY <1>14, <2>2, <2>3, <2>4, ContinueType, LocalFailureType, Zenon DEF SaveReused, DelivererTypeOK
  <2>6. file' \in [Msgs -> Folders]
    BY <1>14, Zenon DEF SaveReused, Folders, DelivererTypeOK, StoreTypeOK
  <2>7. SaveDelivered(worker[w].id) \in [Msgs -> Rows]
    BY <2>2, RowOps, Zenon DEF DelivererTypeOK
  <2>8. row' \in [Msgs -> Rows]
    BY <1>14, <2>7, Zenon DEF SaveReused, DelivererTypeOK, StoreTypeOK
  <2>9. reached' \in [Msgs -> SUBSET Rcpts] /\ twice' \in [Msgs -> SUBSET Rcpts]
    BY <1>14, <2>2, ReachType, Zenon DEF SaveReused, NoReach, DelivererTypeOK
  <2>10. faults' \in Nat
    BY <1>14, FaultType, Zenon DEF SaveReused
  <2> QED BY <1>14, <2>1, <2>2, <2>3, <2>4, <2>5, <2>6, <2>7, <2>8, <2>9, <2>10, Zenon DEF SaveReused, DelivererTypeOK, StoreTypeOK, queueVars
<1>15. CASE DeleteLocalRecipient(w)
  <2>1. worker[w] \in BusyStates
    BY <1>15, BusyType, Zenon DEF DeleteLocalRecipient, At
  <2>2. worker' \in [Workers -> BusyStates \cup {Idle}]
    BY <1>15, <2>1, Zenon DEF DeleteLocalRecipient, Goto, Continue, BusyStates, Steps, DelivererTypeOK
  <2>3. rcpt' \in [Msgs -> SUBSET Rcpts]
    BY <1>15, <2>1 DEF DeleteLocalRecipient, DeleteRecipient, BusyStates, DelivererTypeOK, StoreTypeOK
  <2>4. faults' \in Nat
    BY <1>15, FaultType, Zenon DEF DeleteLocalRecipient
  <2> QED BY <1>15, <2>1, <2>2, <2>3, <2>4, Zenon DEF DeleteLocalRecipient, DelivererTypeOK, StoreTypeOK, history, queueVars
<1>16. CASE LocalDone(w)
  <2>1. worker[w] \in BusyStates
    BY <1>16, BusyType, Zenon DEF LocalDone, At
  <2>2. worker' \in [Workers -> BusyStates \cup {Idle}]
    BY <1>16, <2>1, Zenon DEF LocalDone, Goto, Continue, BusyStates, Steps, DelivererTypeOK
  <2> QED BY <1>16, <2>1, <2>2, Zenon DEF LocalDone, DelivererTypeOK, StoreTypeOK, history, queueVars
<1>17. CASE DeliverBatch(w)
  <2>1. worker[w] \in BusyStates
    BY <1>17, BusyType, Zenon DEF DeliverBatch, At
  <2>2. worker[w].id \in Msgs /\ worker[w].cur \in SUBSET Rcpts
    BY <2>1, Zenon DEF BusyStates
  <2>3. worker' \in [Workers -> BusyStates \cup {Idle}] /\ reached' \in [Msgs -> SUBSET Rcpts] /\ twice' \in [Msgs -> SUBSET Rcpts]
    <3>1. PICK batch \in SUBSET worker[w].rcpts, ok, fatal \in SUBSET worker[w].rcpts :
            /\ Continue(w, [worker[w] EXCEPT !.pc = "collect", !.rcpts = @ \ batch,
                                             !.ok = ok, !.fatal = fatal,
                                             !.soft = @ \cup (batch \ (ok \cup fatal))])
            /\ Reach(worker[w].id, ok)
      BY <1>17, Zenon DEF DeliverBatch
    <3>2. [worker[w] EXCEPT !.pc = "collect", !.rcpts = @ \ batch, !.ok = ok, !.fatal = fatal,
                            !.soft = @ \cup (batch \ (ok \cup fatal))] \in BusyStates
      BY <2>1, Zenon DEF BusyStates, Steps
    <3>3. ok \in SUBSET Rcpts
      BY <2>1, Zenon DEF BusyStates
    <3> QED BY <2>2, <3>1, <3>2, <3>3, ContinueType, ReachType, Zenon
  <2> QED BY <1>17, <2>1, <2>2, <2>3, Zenon DEF DeliverBatch, DelivererTypeOK, StoreTypeOK, queueVars
<1>18. CASE CollectDeliveryResult(w)
  <2>1. worker[w] \in BusyStates
    BY <1>18, BusyType, Zenon DEF CollectDeliveryResult, At
  <2>2. worker[w].id \in Msgs /\ worker[w].cur \in SUBSET Rcpts
    BY <2>1, Zenon DEF BusyStates
  <2>3. PICK r \in worker[w].ok \cup worker[w].fatal :
          /\ Continue(w, [worker[w] EXCEPT !.ok = @ \ {r}, !.fatal = @ \ {r},
                                           !.errs = @ \cup (({r} \cap worker[w].fatal) \ Silent)])
          /\ closed' = Add(closed, worker[w].id, {r} \cap worker[w].fatal \cap Silent)
    BY <1>18, Zenon DEF CollectDeliveryResult
  <2>4. r \in Rcpts
    BY <2>1, Zenon DEF BusyStates
  <2>5. [worker[w] EXCEPT !.ok = @ \ {r}, !.fatal = @ \ {r},
                          !.errs = @ \cup (({r} \cap worker[w].fatal) \ Silent)] \in BusyStates
    BY <2>1, <2>4, Zenon DEF BusyStates
  <2>6. worker' \in [Workers -> BusyStates \cup {Idle}]
    BY <2>3, <2>5, ContinueType, Zenon
  <2>7. closed' \in [Msgs -> SUBSET Rcpts]
    BY <2>2, <2>3, <2>4, AddType, Zenon DEF DelivererTypeOK
  <2>8. rcpt' \in [Msgs -> SUBSET Rcpts]
    BY <1>18, <2>1 DEF CollectDeliveryResult, DeleteRecipient, BusyStates, DelivererTypeOK, StoreTypeOK
  <2>9. faults' \in Nat
    BY <1>18, FaultType, Zenon DEF CollectDeliveryResult
  <2> QED BY <1>18, <2>1, <2>2, <2>3, <2>4, <2>5, <2>6, <2>7, <2>8, <2>9, Zenon DEF CollectDeliveryResult, DelivererTypeOK, StoreTypeOK, queueVars
<1>19. CASE Collected(w)
  <2>1. worker[w] \in BusyStates
    BY <1>19, BusyType, Zenon DEF Collected, At
  <2>2. worker' \in [Workers -> BusyStates \cup {Idle}]
    BY <1>19, <2>1, Zenon DEF Collected, Goto, Continue, BusyStates, Steps, DelivererTypeOK
  <2> QED BY <1>19, <2>1, <2>2, Zenon DEF Collected, DelivererTypeOK, StoreTypeOK, history, queueVars
<1>20. CASE HoldForEtrn(w)
  <2>1. worker[w] \in BusyStates
    BY <1>20, BusyType, Zenon DEF HoldForEtrn, At
  <2>2. worker' \in [Workers -> BusyStates \cup {Idle}]
    BY <1>20, <2>1, Zenon DEF HoldForEtrn, Goto, Continue, BusyStates, Steps, DelivererTypeOK
  <2>3. worker[w].id \in Msgs
    BY <2>1, Zenon DEF BusyStates
  <2>4. HoldForRoute(worker[w].id) \in [Msgs -> Rows]
    BY <2>3, RowOps, Zenon DEF DelivererTypeOK
  <2>5. row' \in [Msgs -> Rows] /\ faults' \in Nat
    BY <1>20, <2>4, WriteRowType, Zenon DEF HoldForEtrn
  <2> QED BY <1>20, <2>1, <2>2, <2>3, <2>4, <2>5, Zenon DEF HoldForEtrn, DelivererTypeOK, StoreTypeOK, history, queueVars
<1>21. CASE RescheduleDelivery(w)
  <2>1. worker[w] \in BusyStates
    BY <1>21, BusyType, Zenon DEF RescheduleDelivery, At
  <2>2. worker' \in [Workers -> BusyStates \cup {Idle}]
    BY <1>21, <2>1, Zenon DEF RescheduleDelivery, Goto, Continue, BusyStates, Steps, DelivererTypeOK
  <2>3. worker[w].id \in Msgs
    BY <2>1, Zenon DEF BusyStates
  <2>4. SetNextTryTime(worker[w].id, TRUE, FALSE) \in [Msgs -> Rows]
    BY <2>3, RowOps, Zenon DEF DelivererTypeOK
  <2>5. row' \in [Msgs -> Rows] /\ faults' \in Nat
    BY <1>21, <2>4, WriteRowType, Zenon DEF RescheduleDelivery
  <2> QED BY <1>21, <2>1, <2>2, <2>3, <2>4, <2>5, Zenon DEF RescheduleDelivery, DelivererTypeOK, StoreTypeOK, history, queueVars
<1>22. CASE UnlockRescheduled(w)
  <2>1. worker[w] \in BusyStates
    BY <1>22, BusyType, Zenon DEF UnlockRescheduled, At
  <2>2. worker' \in [Workers -> BusyStates \cup {Idle}]
    BY <1>22, <2>1, Zenon DEF UnlockRescheduled, Goto, Continue, BusyStates, Steps, DelivererTypeOK
  <2>3. worker[w].id \in Msgs
    BY <2>1, Zenon DEF BusyStates
  <2>4. UnlockObject(worker[w].id) \in [Msgs -> Rows]
    BY <2>3, RowOps, Zenon DEF DelivererTypeOK
  <2>5. row' \in [Msgs -> Rows] /\ faults' \in Nat
    BY <1>22, <2>4, WriteRowType, Zenon DEF UnlockRescheduled
  <2> QED BY <1>22, <2>1, <2>2, <2>3, <2>4, <2>5, Zenon DEF UnlockRescheduled, DelivererTypeOK, StoreTypeOK, history, queueVars
<1>23. CASE GiveUp(w)
  <2>1. worker[w] \in BusyStates
    BY <1>23, BusyType, Zenon DEF GiveUp, At
  <2>2. worker' \in [Workers -> BusyStates \cup {Idle}]
    BY <1>23, <2>1, Zenon DEF GiveUp, Goto, Continue, BusyStates, Steps, DelivererTypeOK
  <2>3. worker[w].id \in Msgs
    BY <2>1, Zenon DEF BusyStates
  <2>4. closed' \in [Msgs -> SUBSET Rcpts]
    BY <1>23, <2>1, <2>3, AddType, Zenon DEF GiveUp, DelivererTypeOK, BusyStates
  <2> QED BY <1>23, <2>1, <2>2, <2>3, <2>4, Zenon DEF GiveUp, DelivererTypeOK, StoreTypeOK, queueVars
<1>24. CASE SubmitErrorLog(w)
  <2>1. worker[w] \in BusyStates
    BY <1>24, BusyType, Zenon DEF SubmitErrorLog, At
  <2>2. worker[w].id \in Msgs /\ worker[w].errs \in SUBSET Rcpts
    BY <2>1, Zenon DEF BusyStates
  <2>3. [worker[w] EXCEPT !.pc = "delrow", !.errs = {}] \in BusyStates
    BY <2>1, Zenon DEF BusyStates, Steps
  <2>4. worker' \in [Workers -> BusyStates \cup {Idle}]
    BY <1>24, <2>3, ContinueType, Zenon DEF SubmitErrorLog, Finish
  <2>5. closed' \in [Msgs -> SUBSET Rcpts] /\ cut' \in [Msgs -> SUBSET Rcpts]
    BY <1>24, <2>2, AddType DEF SubmitErrorLog, DelivererTypeOK
  <2>6. faults' \in Nat
    BY <1>24, FaultType, Zenon DEF SubmitErrorLog
  <2> QED BY <1>24, <2>1, <2>2, <2>3, <2>4, <2>5, <2>6, Zenon DEF SubmitErrorLog, DelivererTypeOK, StoreTypeOK, queueVars
<1>25. CASE DeleteQueueRow(w)
  <2>1. worker[w] \in BusyStates
    BY <1>25, BusyType, Zenon DEF DeleteQueueRow, At
  <2>2. worker[w].id \in Msgs
    BY <2>1, Zenon DEF BusyStates
  <2>3. \A pc \in Steps : [worker[w] EXCEPT !.pc = pc] \in BusyStates
    BY <2>1, Zenon DEF BusyStates
  <2>4. worker' \in [Workers -> BusyStates \cup {Idle}]
    BY <1>25, <2>3, ContinueType, Zenon DEF DeleteQueueRow, Goto, Finish, Steps
  <2>5. DeleteRow(worker[w].id) \in [Msgs -> Rows]
    BY <2>2, RowOps, Zenon DEF DelivererTypeOK
  <2>6. row' \in [Msgs -> Rows]
    BY <1>25, <2>5, Zenon DEF DeleteQueueRow, DelivererTypeOK, StoreTypeOK
  <2>7. faults' \in Nat
    BY <1>25, FaultType, Zenon DEF DeleteQueueRow
  <2> QED BY <1>25, <2>1, <2>2, <2>3, <2>4, <2>5, <2>6, <2>7, Zenon DEF DeleteQueueRow, DelivererTypeOK, StoreTypeOK, history, queueVars
<1>26. CASE DeleteQueueRecipients(w)
  <2>1. worker[w] \in BusyStates
    BY <1>26, BusyType, Zenon DEF DeleteQueueRecipients, At
  <2>2. [worker[w] EXCEPT !.pc = "delfile"] \in BusyStates
    BY <2>1, Zenon DEF BusyStates, Steps
  <2>3. worker' \in [Workers -> BusyStates \cup {Idle}]
    BY <1>26, <2>2, ContinueType, Zenon DEF DeleteQueueRecipients, Goto, Finish
  <2>4. rcpt' \in [Msgs -> SUBSET Rcpts]
    BY <1>26, Zenon DEF DeleteQueueRecipients, DeleteRecipients, DelivererTypeOK, StoreTypeOK
  <2>5. faults' \in Nat
    BY <1>26, FaultType, Zenon DEF DeleteQueueRecipients
  <2> QED BY <1>26, <2>1, <2>2, <2>3, <2>4, <2>5, Zenon DEF DeleteQueueRecipients, DelivererTypeOK, StoreTypeOK, history, queueVars
<1>27. CASE DeleteDataFile(w)
  <2>1. worker[w] \in BusyStates
    BY <1>27, BusyType, Zenon DEF DeleteDataFile, At
  <2>2. worker' \in [Workers -> BusyStates \cup {Idle}]
    BY <1>27, <2>1, Zenon DEF DeleteDataFile, Finish, Continue, BusyStates, Steps, DelivererTypeOK
  <2>3. file' \in [Msgs -> Folders]
    BY <1>27 DEF DeleteDataFile, DeleteQueueFile, Folders, DelivererTypeOK, StoreTypeOK
  <2>4. faults' \in Nat
    BY <1>27, FaultType, Zenon DEF DeleteDataFile, Works
  <2> QED BY <1>27, <2>1, <2>2, <2>3, <2>4, Zenon DEF DeleteDataFile, DelivererTypeOK, StoreTypeOK, history, queueVars
<1>28. CASE Interrupt(w)
  <2>1. worker[w] \in BusyStates
    <3>1. worker[w] \in BusyStates \cup {Idle}
      BY Zenon DEF DelivererTypeOK
    <3>2. worker[w].hit
      BY <1>28, Zenon DEF Interrupt
    <3>3. ~Idle.hit
      BY Zenon DEF Idle
    <3> QED BY <3>1, <3>2, <3>3, Zenon
  <2>2. worker[w].id \in Msgs /\ InHand(w) \in SUBSET Rcpts
    BY <2>1, Zenon DEF InHand, BusyStates
  <2>3. cut' \in [Msgs -> SUBSET Rcpts]
    BY <1>28, <2>2, AddType, Zenon DEF Interrupt, DelivererTypeOK
  <2>4. worker' \in [Workers -> BusyStates \cup {Idle}]
    BY <1>28, ContinueType, Zenon DEF Interrupt, Finish
  <2> QED BY <1>28, <2>3, <2>4, Zenon DEF Interrupt, DelivererTypeOK, StoreTypeOK, queueVars
<1> QED BY <1>1, <1>2, <1>3, <1>4, <1>5, <1>6, <1>7, <1>8, <1>9, <1>10, <1>11, <1>12, <1>13, <1>14, <1>15, <1>16, <1>17, <1>18, <1>19, <1>20, <1>21, <1>22, <1>23, <1>24, <1>25, <1>26, <1>27, <1>28, Zenon DEF Deliver

\* So does every step of a session that saves a message.
LEMMA ReceiveType ==
  ASSUME TypeOK, NEW m \in Msgs, Receive(m)
  PROVE  TypeOK'
<1> USE DEF restOfSession, managerVars, adminVars, history
<1>1. DelivererTypeOK /\ StoreTypeOK
  BY Zenon DEF TypeOK, DelivererTypeOK
<1>2. CASE InsertMessage(m)
  <2>0. InsertRow(m) \in [Msgs -> Rows]
    BY <1>1, RowOps, Zenon
  <2>1. row' \in [Msgs -> Rows]
    BY <1>1, <1>2, <2>0, Zenon DEF InsertMessage, StoreTypeOK
  <2>2. file' \in [Msgs -> Folders]
    BY <1>1, <1>2, Zenon DEF InsertMessage, Folders, StoreTypeOK
  <2>3. faults' \in Nat
    BY <1>1, <1>2, FaultType, Zenon DEF InsertMessage
  <2>4. recv' \in [Msgs -> Sessions] /\ envelope' \in [Msgs -> SUBSET Rcpts]
    BY <1>2 DEF InsertMessage, Session, Sessions, TypeOK
  <2> QED BY <1>2, <2>1, <2>2, <2>3, <2>4, Zenon DEF InsertMessage, TypeOK, DelivererTypeOK, StoreTypeOK
<1>3. CASE SaveRecipients(m)
  <2>1. rcpt' \in [Msgs -> SUBSET Rcpts]
    <3>1. PICK S \in SUBSET envelope[m] : rcpt' = Add(rcpt, m, S)
      BY <1>3, Zenon DEF SaveRecipients
    <3>2. S \in SUBSET Rcpts
      BY Zenon DEF TypeOK
    <3> QED BY <1>1, <3>1, <3>2, AddType, Zenon DEF StoreTypeOK
  <2>2. faults' \in Nat
    BY <1>1, <1>3, FaultType, Zenon DEF SaveRecipients
  <2>3. recv' \in [Msgs -> Sessions]
    BY <1>3, Zenon DEF SaveRecipients, Session, Sessions, TypeOK
  <2> QED BY <1>3, <2>1, <2>2, <2>3, Zenon DEF SaveRecipients, TypeOK, DelivererTypeOK, StoreTypeOK
<1>4. CASE UnlockSaved(m)
  <2>0. UnlockObject(m) \in [Msgs -> Rows]
    BY <1>1, RowOps, Zenon
  <2>1. row' \in [Msgs -> Rows]
    BY <1>1, <1>4, <2>0, Zenon DEF UnlockSaved, StoreTypeOK
  <2>2. faults' \in Nat
    BY <1>1, <1>4, FaultType, Zenon DEF UnlockSaved
  <2>3. recv' \in [Msgs -> Sessions]
    BY <1>4, Zenon DEF UnlockSaved, Session, Sessions, TypeOK
  <2> QED BY <1>4, <2>1, <2>2, <2>3, Zenon DEF UnlockSaved, TypeOK, DelivererTypeOK, StoreTypeOK
<1>5. CASE AcceptMessage(m)
  <2>1. recv' \in [Msgs -> Sessions] /\ cache' \in SUBSET Msgs
    BY <1>5, Zenon DEF AcceptMessage, Session, Sessions, TypeOK
  <2> QED BY <1>5, <2>1, Zenon DEF AcceptMessage, TypeOK, DelivererTypeOK, StoreTypeOK, delivererVars
<1> QED BY <1>2, <1>3, <1>4, <1>5, Zenon DEF Receive

\* And every step of the delivery manager.
LEMMA ManagerType ==
  ASSUME TypeOK, DoWork
  PROVE  TypeOK'
<1> USE DEF restOfManager, sessionVars, adminVars, history
<1>1. DelivererTypeOK /\ StoreTypeOK
  BY Zenon DEF TypeOK, DelivererTypeOK
<1>2. CASE StartManager
  <2>1. UnlockAll \in [Msgs -> Rows]
    BY <1>1, Zenon DEF UnlockAll, StoreTypeOK, Rows, Types, Owners
  <2>2. row' \in [Msgs -> Rows] /\ faults' \in Nat
    BY <1>1, <1>2, <2>1, WriteRowType, Zenon DEF StartManager
  <2> QED BY <1>2, <2>2, Zenon DEF StartManager, Manager, TypeOK, DelivererTypeOK, StoreTypeOK
<1>3. CASE LoadPendingMessageList
  <2>1. PendingMessageList \in SUBSET Entries
    <3>1. ASSUME NEW m \in Msgs
          PROVE  [id |-> m, tries |-> row[m].tries, owner |-> row[m].owner] \in Entries
      <4>1. row[m] \in Rows
        BY <1>1, Zenon DEF StoreTypeOK
      <4> QED BY <4>1, Zenon DEF Rows, Entries
    <3> QED BY <3>1, Zenon DEF PendingMessageList
  <2>2. pending' \in SUBSET Entries
    BY <1>3, <2>1, Zenon DEF LoadPendingMessageList
  <2>3. faults' \in Nat
    BY <1>1, <1>3, FaultType, Zenon DEF LoadPendingMessageList
  <2>4. mgr' \in [pc : {"start", "next", "pick", "wait"}, obj : {NoTask}]
    BY <1>3, Zenon DEF LoadPendingMessageList, Manager
  <2> QED BY <1>3, <2>2, <2>3, <2>4, Zenon DEF LoadPendingMessageList, TypeOK, DelivererTypeOK, StoreTypeOK
<1>4. ASSUME NEW p \in pending, TakeFromCache(p)
      PROVE  TypeOK'
  <2>1. p.id \in Msgs /\ envelope[p.id] \in SUBSET Rcpts
    BY Zenon DEF TypeOK, Entries
  <2>2. mgr' \in [pc : {"lock", "post"}, obj : Tasks] /\ taken' \in SUBSET Msgs
    BY <1>4, <2>1, Zenon DEF TakeFromCache, Take, Tasks, Owners, TypeOK
  <2> QED BY <1>4, <2>1, <2>2, Zenon DEF TakeFromCache, TypeOK, DelivererTypeOK, StoreTypeOK
<1>5. ASSUME NEW p \in pending, TakeFromDatabase(p)
      PROVE  TypeOK'
  <2>1. p.id \in Msgs /\ p.tries \in Nat /\ p.owner \in Owners /\ rcpt[p.id] \in SUBSET Rcpts
    BY <1>1, Zenon DEF TypeOK, Entries, StoreTypeOK
  <2>2. [id |-> p.id, rcpts |-> rcpt[p.id], tries |-> p.tries, owner |-> p.owner] \in Tasks
    BY <2>1, Zenon DEF Tasks
  <2>3. mgr' \in [pc : {"start", "next", "pick", "wait"}, obj : {NoTask}]
                 \cup [pc : {"lock", "post"}, obj : Tasks]
    BY <1>5, <2>2 DEF TakeFromDatabase, Take, Manager
  <2>4. taken' \in SUBSET Msgs /\ pending' \in SUBSET Entries
    BY <1>5, <2>1, Zenon DEF TakeFromDatabase, Take, TypeOK
  <2>5. faults' \in Nat
    BY <1>1, <1>5, FaultType, Zenon DEF TakeFromDatabase
  <2> QED BY <1>5, <2>3, <2>4, <2>5, Zenon DEF TakeFromDatabase, TypeOK, DelivererTypeOK, StoreTypeOK
<1>6. CASE LockMessage
  <2>1. mgr.obj \in Tasks /\ mgr.obj.id \in Msgs
    BY <1>6, Zenon DEF LockMessage, TypeOK, Tasks
  <2>0. LockObject(mgr.obj.id) \in [Msgs -> Rows]
    BY <1>1, <2>1, RowOps, Zenon
  <2>2. row' \in [Msgs -> Rows]
    BY <1>1, <1>6, <2>0, Zenon DEF LockMessage, StoreTypeOK
  <2>3. mgr' \in [pc : {"start", "next", "pick", "wait"}, obj : {NoTask}]
                 \cup [pc : {"lock", "post"}, obj : Tasks]
    <3>1. mgr' = [pc |-> "post", obj |-> mgr.obj] \/ mgr' = [pc |-> "next", obj |-> NoTask]
      BY <1>6, Zenon DEF LockMessage, Manager
    <3>2. [pc |-> "post", obj |-> mgr.obj] \in [pc : {"lock", "post"}, obj : Tasks]
      BY <2>1, Zenon
    <3>3. [pc |-> "next", obj |-> NoTask] \in [pc : {"start", "next", "pick", "wait"}, obj : {NoTask}]
      OBVIOUS
    <3> QED BY <3>1, <3>2, <3>3, Zenon
  <2>4. faults' \in Nat
    BY <1>1, <1>6, FaultType, Zenon DEF LockMessage
  <2> QED BY <1>6, <2>2, <2>3, <2>4, Zenon DEF LockMessage, TypeOK, DelivererTypeOK, StoreTypeOK
<1>7. CASE AddTask
  <2>1. mgr.obj \in Tasks
    BY <1>7, Zenon DEF AddTask, TypeOK
  <2>2. posted' \in SUBSET Tasks
    BY <1>1, <1>7, <2>1, Zenon DEF AddTask, DelivererTypeOK
  <2> QED BY <1>7, <2>2, Zenon DEF AddTask, Manager, TypeOK, DelivererTypeOK, StoreTypeOK
<1>8. CASE WakeManager
  BY <1>8, Zenon DEF WakeManager, Manager, TypeOK, DelivererTypeOK, StoreTypeOK
<1> QED BY <1>2, <1>3, <1>4, <1>5, <1>6, <1>7, <1>8, Zenon DEF DoWork

\* And every step of the clearer, of Remove, of a reset and of ETRN.
LEMMA AdminType ==
  ASSUME TypeOK, Administer
  PROVE  TypeOK'
<1> USE DEF restOfAdmin, sessionVars, history
<1> DEFINE D == [pc : {"lock", "delrow", "delrcpt", "delfile"},
                 id : Msgs, type : Types, owner : Owners]
<1>1. DelivererTypeOK /\ StoreTypeOK
  BY Zenon DEF TypeOK, DelivererTypeOK
<1>2. \A d \in {"clear", "remove"} : deleter[d].pc # "idle" => deleter[d] \in D
  BY DEF TypeOK, NoDelete
<1>3. \A d \in {"clear", "remove"} : Deleted(d) => deleter' \in [{"clear", "remove"} -> D \cup {NoDelete}]
  BY Zenon DEF TypeOK, Deleted
<1>4. \A d \in {"clear", "remove"}, pc \in {"delrow", "delrcpt", "delfile"} :
        deleter[d] \in D /\ Deleter(d, pc) => deleter' \in [{"clear", "remove"} -> D \cup {NoDelete}]
  <2>1. SUFFICES ASSUME NEW d \in {"clear", "remove"}, NEW pc \in {"delrow", "delrcpt", "delfile"},
                        deleter[d] \in D, Deleter(d, pc)
                 PROVE  deleter' \in [{"clear", "remove"} -> D \cup {NoDelete}]
    OBVIOUS
  <2>2. [deleter[d] EXCEPT !.pc = pc] \in D
    BY <2>1, Zenon
  <2> QED BY <2>1, <2>2, Zenon DEF Deleter, TypeOK
<1>5. CASE Clear
  BY <1>5, Zenon DEF Clear, TypeOK, DelivererTypeOK, StoreTypeOK
<1>6. CASE ClearerStop
  <2>1. worker' \in [Workers -> BusyStates \cup {Idle}]
    <3>1. ASSUME NEW w \in Workers, ~At(w, "idle")
          PROVE  [worker[w] EXCEPT !.hit = TRUE] \in BusyStates
      BY <1>1, <3>1, BusyType, Zenon DEF BusyStates
    <3> QED BY <1>1, <1>6, <3>1, Zenon DEF ClearerStop, StopQueue, DelivererTypeOK
  <2> QED BY <1>6, <2>1, Zenon DEF ClearerStop, StopQueue, TypeOK, DelivererTypeOK, StoreTypeOK
<1>7. CASE ClearerRefresh
  <2>1. todo' \in SUBSET [id : Msgs, owner : Owners]
    <3>1. ASSUME NEW m \in Msgs
          PROVE  row[m].owner \in Owners
      <4>1. row[m] \in Rows
        BY <1>1, Zenon DEF StoreTypeOK
      <4> QED BY <4>1, Zenon DEF Rows
    <3> DEFINE found == {[id |-> m, owner |-> row[m].owner] :
                           m \in {n \in Msgs : row[n].type = "delivering"}}
    <3>2. found \in SUBSET [id : Msgs, owner : Owners]
      BY <3>1
    <3>3. todo' = found \/ todo' = {}
      BY <1>7, Zenon DEF ClearerRefresh
    <3> QED BY <3>2, <3>3, Zenon
  <2>2. faults' \in Nat
    BY <1>1, <1>7, FaultType, Zenon DEF ClearerRefresh
  <2> QED BY <1>7, <2>1, <2>2, Zenon DEF ClearerRefresh, TypeOK, DelivererTypeOK, StoreTypeOK
<1>8. CASE ClearerNext
  <2>1. PICK t \in todo :
          /\ todo' = todo \ {t}
          /\ deleter' = [deleter EXCEPT !["clear"] =
               [pc |-> "delrow", id |-> t.id, type |-> "delivering", owner |-> t.owner]]
    BY <1>8, Zenon DEF ClearerNext
  <2>2. [pc |-> "delrow", id |-> t.id, type |-> "delivering", owner |-> t.owner] \in D
    BY Zenon DEF TypeOK, Types
  <2>3. deleter' \in [{"clear", "remove"} -> D \cup {NoDelete}]
    BY <2>1, <2>2, Zenon DEF TypeOK
  <2> QED BY <1>8, <2>1, <2>3, Zenon DEF ClearerNext, TypeOK, DelivererTypeOK, StoreTypeOK
<1>9. CASE ClearerUncache
  BY <1>9, Zenon DEF ClearerUncache, TypeOK, DelivererTypeOK, StoreTypeOK
<1>10. CASE ClearerStart
  BY <1>10, Zenon DEF ClearerStart, TypeOK, DelivererTypeOK, StoreTypeOK
<1>11. CASE RemoveLock
  <2>1. deleter["remove"] \in D
    BY <1>2, <1>11, Zenon DEF RemoveLock
  <2>2. LockObject(deleter["remove"].id) \in [Msgs -> Rows]
    BY <1>1, <2>1, RowOps, Zenon
  <2>3. row' \in [Msgs -> Rows]
    BY <1>1, <1>11, <2>2, Zenon DEF RemoveLock, StoreTypeOK
  <2>4. deleter' \in [{"clear", "remove"} -> D \cup {NoDelete}]
    BY <1>3, <1>4, <1>11, <2>1, Zenon DEF RemoveLock
  <2>5. faults' \in Nat
    BY <1>1, <1>11, FaultType, Zenon DEF RemoveLock
  <2> QED BY <1>11, <2>3, <2>4, <2>5, Zenon DEF RemoveLock, TypeOK, DelivererTypeOK, StoreTypeOK
<1>12. ASSUME NEW d \in {"clear", "remove"}, AdminDeleteRow(d)
       PROVE  TypeOK'
  <2>1. deleter[d] \in D /\ deleter[d].id \in Msgs
    BY <1>2, <1>12, Zenon DEF AdminDeleteRow
  <2>2. DeleteRow(deleter[d].id) \in [Msgs -> Rows]
    BY <1>1, <2>1, RowOps, Zenon
  <2>3. row' \in [Msgs -> Rows]
    BY <1>1, <1>12, <2>2, Zenon DEF AdminDeleteRow, StoreTypeOK
  <2>4. deleter' \in [{"clear", "remove"} -> D \cup {NoDelete}]
    BY <1>3, <1>4, <1>12, <2>1, Zenon DEF AdminDeleteRow
  <2>5. faults' \in Nat
    BY <1>1, <1>12, FaultType, Zenon DEF AdminDeleteRow
  <2>6. purged' \in SUBSET Msgs
    BY <1>12, <2>1, Zenon DEF AdminDeleteRow, TypeOK
  <2> QED BY <1>12, <2>3, <2>4, <2>5, <2>6, Zenon DEF AdminDeleteRow, TypeOK, DelivererTypeOK, StoreTypeOK
<1>13. ASSUME NEW d \in {"clear", "remove"}, AdminDeleteRecipients(d)
       PROVE  TypeOK'
  <2>1. deleter[d] \in D
    BY <1>2, <1>13, Zenon DEF AdminDeleteRecipients
  <2>2. rcpt' \in [Msgs -> SUBSET Rcpts]
    BY <1>1, <1>13, Zenon DEF AdminDeleteRecipients, DeleteRecipients, StoreTypeOK
  <2>3. deleter' \in [{"clear", "remove"} -> D \cup {NoDelete}]
    BY <1>3, <1>4, <1>13, <2>1, Zenon DEF AdminDeleteRecipients
  <2>4. faults' \in Nat
    BY <1>1, <1>13, FaultType, Zenon DEF AdminDeleteRecipients
  <2> QED BY <1>13, <2>2, <2>3, <2>4, Zenon DEF AdminDeleteRecipients, TypeOK, DelivererTypeOK, StoreTypeOK
<1>14. ASSUME NEW d \in {"clear", "remove"}, AdminDeleteFile(d)
       PROVE  TypeOK'
  <2>1. file' \in [Msgs -> Folders]
    BY <1>1, <1>14, Zenon DEF AdminDeleteFile, DeleteQueueFile, StoreTypeOK, Folders
  <2>2. deleter' \in [{"clear", "remove"} -> D \cup {NoDelete}]
    BY <1>3, <1>14, Zenon DEF AdminDeleteFile
  <2>3. faults' \in Nat
    BY <1>1, <1>14, FaultType, Zenon DEF AdminDeleteFile, Works
  <2> QED BY <1>14, <2>1, <2>2, <2>3, Zenon DEF AdminDeleteFile, TypeOK, DelivererTypeOK, StoreTypeOK
<1>15. ASSUME NEW m \in Msgs, Remove(m)
       PROVE  TypeOK'
  <2>1. [pc |-> "lock", id |-> m, type |-> row[m].type, owner |-> row[m].owner] \in D
    BY <1>1, Zenon DEF StoreTypeOK, Rows
  <2>2. deleter' \in [{"clear", "remove"} -> D \cup {NoDelete}]
    BY <1>15, <2>1, Zenon DEF Remove, TypeOK
  <2> QED BY <1>15, <2>2, Zenon DEF Remove, TypeOK, DelivererTypeOK, StoreTypeOK
<1>16. ASSUME NEW m \in Msgs, ResetDeliveryTime(m)
       PROVE  TypeOK'
  <2>1. SetNextTryTime(m, FALSE, TRUE) \in [Msgs -> Rows]
    BY <1>1, RowOps, Zenon
  <2> QED BY <1>16, <2>1, Zenon DEF ResetDeliveryTime, adminVars, TypeOK, DelivererTypeOK, StoreTypeOK
<1>17. CASE ETRN
  <2>1. ReleaseRoute \in [Msgs -> Rows]
    BY <1>1, Zenon DEF ReleaseRoute, StoreTypeOK, Rows, Types, Owners
  <2> QED BY <1>17, <2>1, Zenon DEF ETRN, adminVars, TypeOK, DelivererTypeOK, StoreTypeOK
<1> QED
  BY <1>5, <1>6, <1>7, <1>8, <1>9, <1>10, <1>11, <1>12, <1>13, <1>14, <1>15, <1>16, <1>17, Zenon
  DEF Administer, Clearer

\* TypeOK is inductive by itself.
LEMMA TypeStep ==
  ASSUME TypeOK, [Next]_vars
  PROVE  TypeOK'
<1>1. ASSUME NEW m \in Msgs, Receive(m)
      PROVE  TypeOK'
  BY <1>1, ReceiveType, Zenon
<1>2. CASE DoWork
  BY <1>2, ManagerType, Zenon
<1>3. ASSUME NEW w \in Workers, Work(w)
      PROVE  TypeOK'
  <2>1. DelivererTypeOK'
    BY <1>3, WorkType, Zenon DEF Work, TypeOK
  <2> QED BY <1>3, <2>1, Zenon DEF Work, TypeOK, sessionVars, managerVars, adminVars
<1>4. CASE Administer
  BY <1>4, AdminType, Zenon
<1>5. ASSUME NEW m \in Msgs, TimePasses(m)
      PROVE  TypeOK'
  <2>1. row \in [Msgs -> Rows]
    BY Zenon DEF TypeOK, DelivererTypeOK, StoreTypeOK
  <2>2. [row[m] EXCEPT !.due = TRUE] \in Rows
    BY <2>1, Zenon DEF Rows
  <2>3. row' \in [Msgs -> Rows]
    BY <1>5, <2>1, <2>2, Zenon DEF TimePasses
  <2> QED BY <1>5, <2>3, Zenon DEF TimePasses, restOfAdmin, adminVars, sessionVars, history,
                            TypeOK, DelivererTypeOK, StoreTypeOK
<1>6. CASE Crash
  <2>1. cut' \in [Msgs -> SUBSET Rcpts]
    <3>1. cut \in [Msgs -> SUBSET Rcpts]
      BY Zenon DEF TypeOK, DelivererTypeOK
    <3> QED BY <1>6, <3>1, Zenon DEF Crash
  <2>2. recv' \in [Msgs -> Sessions]
    BY <1>6, Zenon DEF Crash, TypeOK, Sessions
  <2>3. worker' \in [Workers -> BusyStates \cup {Idle}] /\ holds' \in [Msgs -> Nat]
    BY <1>6, Zenon DEF Crash
  <2>4. deleter' \in [{"clear", "remove"} ->
                        [pc : {"lock", "delrow", "delrcpt", "delfile"},
                         id : Msgs, type : Types, owner : Owners] \cup {NoDelete}]
    BY <1>6, Zenon DEF Crash
  <2>5. DelivererTypeOK'
    BY <1>6, <2>1, <2>3, Zenon DEF Crash, TypeOK, DelivererTypeOK, StoreTypeOK
  <2>6. mgr' \in [pc : {"start", "next", "pick", "wait"}, obj : {NoTask}]
    BY <1>6, Zenon DEF Crash, Manager
  <2>7. crashes' \in Nat
    <3>1. crashes \in Nat
      BY Zenon DEF TypeOK
    <3>2. crashes' = crashes + 1
      BY <1>6, Zenon DEF Crash
    <3> QED BY <3>1, <3>2
  <2> QED BY <1>6, <2>2, <2>4, <2>5, <2>6, <2>7, Zenon DEF Crash, TypeOK
<1>7. CASE UNCHANGED vars
  BY <1>7, Zenon DEF vars, delivererVars, sessionVars, managerVars, adminVars,
              TypeOK, DelivererTypeOK, StoreTypeOK
<1> QED BY <1>1, <1>2, <1>3, <1>4, <1>5, <1>6, <1>7, Zenon DEF Next

\* The queue starts well typed.
LEMMA TypeInit ==
  ASSUME Init
  PROVE  TypeOK
<1>1. StoreTypeOK
  BY Zenon DEF Init, DelivererInit, StoreTypeOK, Rows, NoRow, Types, Owners, Folders
<1>2. DelivererTypeOK
  BY <1>1, Zenon DEF Init, DelivererInit, DelivererTypeOK
<1>3. recv \in [Msgs -> Sessions] /\ envelope \in [Msgs -> SUBSET Rcpts]
  BY Zenon DEF Init, Sessions
<1>4. mgr \in [pc : {"start", "next", "pick", "wait"}, obj : {NoTask}]
  BY Zenon DEF Init
<1> QED BY <1>2, <1>3, <1>4, Zenon DEF Init, TypeOK

\* Type correctness of the delivery queue: every table, cache, list, task and
\* delivery thread always holds values of the kind its code expects, for any
\* number of messages, recipients and threads.
THEOREM TypeCorrect == Spec => []TypeOK
BY TypeInit, TypeStep, PTL DEF Spec

-----------------------------------------------------------------------------
(***************************************************************************)
(* OneDeliverer holds for any constants for which no session saves a       *)
(* message before the manager has run UnlockAll.  LockInv makes it         *)
(* inductive.                                                              *)
(*                                                                         *)
(* Almost every step only takes deliveries away and leaves locks alone, so *)
(* one lemma (Shrink) covers them; what remains are the steps that lock,   *)
(* unlock or pass a message on.                                            *)
(***************************************************************************)

\* R is a table in which what was locked or gone still is, and no row is new.
Keeps(R) ==
  \A n \in Msgs : /\ LockedOrGone(n) => R[n].locked \/ R[n].type = "none"
                  /\ row[n].type = "none" => R[n].type = "none"

\* Worker w goes on with its message, or is done with it.
Onward(w) ==
  /\ \A v \in Workers : v # w => worker'[v] = worker[v]
  /\ \/ worker'[w] = Idle
     \/ /\ worker'[w].id = worker[w].id
        /\ ~At(w, "idle") /\ ~worker[w].kept /\ ~worker'[w].kept

\* Except for the unlocks, the statements on hm_messages keep locks.
LEMMA RowKeeps ==
  ASSUME StoreTypeOK, NEW m \in Msgs, NEW b \in BOOLEAN, NEW d \in BOOLEAN
  PROVE  /\ Keeps(row)
         /\ Keeps(SaveDelivered(m))
         /\ Keeps(LockObject(m))
         /\ Keeps(SetNextTryTime(m, b, d))
         /\ Keeps(HoldForRoute(m))
         /\ Keeps(ReleaseRoute)
         /\ Keeps(DeleteRow(m))
<1> USE DEF StoreTypeOK, Rows, Keeps, LockedOrGone, Update, Exists
<1>1. Keeps(row)
  OBVIOUS
<1>2. Keeps(SaveDelivered(m))
  BY Zenon DEF SaveDelivered
<1>3. Keeps(LockObject(m))
  BY Zenon DEF LockObject
<1>4. Keeps(SetNextTryTime(m, b, d))
  BY Zenon DEF SetNextTryTime, Queued
<1>5. Keeps(HoldForRoute(m))
  BY Zenon DEF HoldForRoute
<1>6. Keeps(ReleaseRoute)
  BY Zenon DEF ReleaseRoute
<1>7. Keeps(DeleteRow(m))
  BY Zenon DEF DeleteRow, NoRow
<1> QED BY <1>1, <1>2, <1>3, <1>4, <1>5, <1>6, <1>7, Zenon

\* A step that starts no delivery and unlocks a message only as its delivery
\* ends preserves the invariant.
LEMMA Shrink ==
  ASSUME IInv, TypeOK',
         UNCHANGED <<mgr, recv>>, posted' \subseteq posted, pending' \subseteq pending,
         \A v \in Workers, m \in Msgs : Delivering(v, m)' => Delivering(v, m),
         \A v \in Workers : At(v, "idle") => At(v, "idle")',
         \A v \in Workers : worker'[v].kept => At(v, "bounce")',
         \A m \in Msgs : row[m].type = "none" => row'[m].type = "none",
         \A m \in Msgs : LockedOrGone(m) =>
           LockedOrGone(m)' \/ (InWorker(m) /\ ~InWorker(m)')
  PROVE  IInv'
<1>1. \A m \in Msgs : /\ InWorker(m)' => InWorker(m)
                      /\ InQueue(m)' => InQueue(m)
                      /\ InManager(m)' <=> InManager(m)
  BY Zenon DEF InWorker, InQueue, InManager
<1>2. OneDeliverer'
  BY <1>1, Zenon DEF IInv, OneDeliverer
<1>3. ASSUME NEW m \in Msgs
      PROVE  (/\ InQueue(m) \/ InWorker(m) \/ (mgr.pc = "post" /\ mgr.obj.id = m) => LockedOrGone(m)
              /\ recv[m] \in {"new", "inserted", "saved"} =>
                   /\ LockedOrGone(m)
                   /\ ~InManager(m) /\ ~InQueue(m) /\ ~InWorker(m)
              /\ recv[m] = "new" => row[m].type = "none")'
  BY <1>1, Zenon DEF IInv, LockInv, OneDeliverer, InManager
<1>4. (\A p \in pending :
       /\ ~InManager(p.id) /\ ~InQueue(p.id) /\ ~InWorker(p.id)
       /\ recv[p.id] \notin {"new", "inserted", "saved"}
       /\ \A q \in pending : p.id = q.id => p = q)'
  <2>1. \A p \in pending : p.id \in Msgs
    BY Zenon DEF IInv, TypeOK, Entries
  <2> QED BY <1>1, <2>1, Zenon DEF IInv, LockInv
<1>5. (mgr.pc = "start" =>
       /\ posted = {} /\ pending = {}
       /\ \A w \in Workers : At(w, "idle")
       /\ \A m \in Msgs : recv[m] \notin {"inserted", "saved"})'
  BY Zenon DEF IInv, LockInv
<1> QED BY <1>2, <1>3, <1>4, <1>5, Zenon DEF IInv, LockInv

\* A worker goes on with its message or is done, and no lock is taken away.
LEMMA QuietWork ==
  ASSUME IInv, TypeOK', NEW w \in Workers, Onward(w), Keeps(row'), UNCHANGED <<posted, mgr, pending, recv>>
  PROVE  IInv'
<1>2. \A v \in Workers, m \in Msgs : Delivering(v, m)' => Delivering(v, m)
  BY DEF Onward, Delivering, At, Idle
<1>3. \A v \in Workers : At(v, "idle") => At(v, "idle")'
  BY DEF Onward, At, Idle
<1>4. \A v \in Workers : worker'[v].kept => At(v, "bounce")'
  BY DEF Onward, At, Idle, IInv, LockInv
<1> QED BY <1>2, <1>3, <1>4, Shrink, Zenon DEF Keeps, LockedOrGone

\* A worker unlocks its message as its delivery ends.
LEMMA UnlockWork ==
  ASSUME IInv, TypeOK', NEW w \in Workers, NEW next, Continue(w, next),
         ~At(w, "idle"), ~worker[w].kept,
         next = Idle \/ (next.kept /\ next.pc = "bounce"),
         WriteRow(UnlockObject(worker[w].id)), UNCHANGED <<posted, mgr, pending, recv>>
  PROVE  IInv'
<1>1. \A v \in Workers : worker'[v] = IF v = w THEN next ELSE worker[v]
  BY Zenon DEF Continue, IInv, TypeOK, DelivererTypeOK
<1>2. \A v \in Workers, m \in Msgs : Delivering(v, m)' => Delivering(v, m) /\ v # w
  BY <1>1 DEF Delivering, At, Idle
<1>3. \A v \in Workers : At(v, "idle") => At(v, "idle")'
  BY <1>1, Zenon DEF At, Idle
<1>4. \A v \in Workers : worker'[v].kept => At(v, "bounce")'
  BY <1>1 DEF At, Idle, IInv, LockInv
<1>5. worker[w] \in BusyStates
  BY BusyType, Zenon DEF IInv, TypeOK
<1>6. worker[w].id \in Msgs
  BY <1>5, Zenon DEF BusyStates
<1>7. Delivering(w, worker[w].id)
  BY Zenon DEF Delivering
<1>8. \A m \in Msgs : m = worker[w].id => InWorker(m) /\ ~InWorker(m)'
  BY <1>2, <1>6, <1>7 DEF InWorker, IInv, OneDeliverer
<1>9. row \in [Msgs -> Rows]
  BY Zenon DEF IInv, TypeOK, DelivererTypeOK, StoreTypeOK
<1>10. \A m \in Msgs : /\ row[m].type = "none" => row'[m].type = "none"
                       /\ m # worker[w].id => row'[m] = row[m]
  BY <1>6, <1>9, Zenon DEF WriteRow, UnlockObject, Update, Exists, Rows
<1> QED BY <1>2, <1>3, <1>4, <1>8, <1>10, Shrink, Zenon DEF LockedOrGone

\* A worker takes a task over from the work queue.
LEMMA ExecuteWork ==
  ASSUME IInv, TypeOK', NEW w \in Workers, ExecuteTask(w), UNCHANGED <<mgr, pending, recv>>
  PROVE  IInv'
<1>1. PICK t \in posted :
        /\ Continue(w, [Idle EXCEPT !.pc = "check", !.id = t.id, !.rcpts = t.rcpts,
                                    !.tries = t.tries, !.owner = t.owner])
        /\ posted' = posted \ {t}
  BY Zenon DEF ExecuteTask
<1>2. t \in Tasks /\ t.id \in Msgs
  BY Zenon DEF IInv, TypeOK, DelivererTypeOK, Tasks
<1>3. \A v \in Workers : v # w => worker'[v] = worker[v]
  BY <1>1, Zenon DEF Continue, IInv, TypeOK, DelivererTypeOK
<1>4. worker'[w].pc = "check" /\ worker'[w].id = t.id /\ ~worker'[w].kept
  BY <1>1, Zenon DEF Continue, IInv, TypeOK, DelivererTypeOK, Idle
<1>5. row' = row
  BY Zenon DEF ExecuteTask
<1>6. At(w, "idle")
  BY Zenon DEF ExecuteTask
<1>7. \A v \in Workers, m \in Msgs :
        Delivering(v, m)' <=> IF v = w THEN m = t.id ELSE Delivering(v, m)
  BY <1>3, <1>4, Zenon DEF Delivering, At
<1>8. \A m \in Msgs : /\ InManager(m)' <=> InManager(m)
                      /\ InQueue(m)' <=> InQueue(m) /\ m # t.id
                      /\ InWorker(m)' <=> InWorker(m) \/ m = t.id
  <2>1. \A m \in Msgs : InManager(m)' <=> InManager(m)
    BY Zenon DEF InManager
  <2>2. \A s \in posted : s.id = t.id => s = t
    BY <1>2, Zenon DEF IInv, OneDeliverer
  <2>3. \A m \in Msgs : InQueue(m)' <=> InQueue(m) /\ m # t.id
    BY <1>1, <2>2, Zenon DEF InQueue
  <2>4. \A m \in Msgs : InWorker(m)' <=> InWorker(m) \/ m = t.id
    BY <1>6, <1>7, Zenon DEF InWorker, Delivering
  <2> QED BY <2>1, <2>3, <2>4, Zenon
<1>9. InQueue(t.id)
  BY Zenon DEF InQueue
<1>10. OneDeliverer'
  <2>1. ASSUME NEW m \in Msgs, NEW u \in Workers, NEW v \in Workers, Delivering(u, m)', Delivering(v, m)'
        PROVE  u = v
    BY <1>2, <1>7, <1>9, <2>1 DEF IInv, OneDeliverer, InWorker
  <2>2. ASSUME NEW m \in Msgs
        PROVE  (InManager(m) => ~InQueue(m) /\ ~InWorker(m))' /\ (InQueue(m) => ~InWorker(m))'
    BY <1>2, <1>8, <1>9, Zenon DEF IInv, OneDeliverer
  <2>3. ASSUME NEW m \in Msgs, NEW a \in posted', NEW c \in posted', a.id = m, c.id = m
        PROVE  a = c
    BY <1>1, <2>3, Zenon DEF IInv, OneDeliverer
  <2> QED BY <2>1, <2>2, <2>3, Zenon DEF OneDeliverer
<1>11. \A m \in Msgs : LockedOrGone(m)' <=> LockedOrGone(m)
  BY <1>5, Zenon DEF LockedOrGone
<1>12. (\A m \in Msgs :
       /\ InQueue(m) \/ InWorker(m) \/ (mgr.pc = "post" /\ mgr.obj.id = m) => LockedOrGone(m)
       /\ recv[m] \in {"new", "inserted", "saved"} =>
            /\ LockedOrGone(m)
            /\ ~InManager(m) /\ ~InQueue(m) /\ ~InWorker(m)
       /\ recv[m] = "new" => row[m].type = "none")'
  BY <1>5, <1>8, <1>9, <1>11, Zenon DEF IInv, LockInv
<1>13. (\A p \in pending :
       /\ ~InManager(p.id) /\ ~InQueue(p.id) /\ ~InWorker(p.id)
       /\ recv[p.id] \notin {"new", "inserted", "saved"}
       /\ \A q \in pending : p.id = q.id => p = q)'
  <2>1. \A p \in pending : p.id \in Msgs
    BY Zenon DEF IInv, TypeOK, Entries
  <2> QED BY <1>8, <1>9, <2>1, Zenon DEF IInv, LockInv
<1>14. (mgr.pc = "start" =>
       /\ posted = {} /\ pending = {}
       /\ \A v \in Workers : At(v, "idle")
       /\ \A m \in Msgs : recv[m] \notin {"inserted", "saved"})'
  BY Zenon DEF IInv, LockInv
<1>15. (\A v \in Workers : worker[v].kept => At(v, "bounce"))'
  BY <1>3, <1>4, Zenon DEF IInv, LockInv, At
<1> QED BY <1>10, <1>12, <1>13, <1>14, <1>15, Zenon DEF IInv, LockInv

\* A worker that is about to do something, other than report, is not idle and
\* has not unlocked its message.
LEMMA Busy ==
  ASSUME IInv, NEW w \in Workers, ~At(w, "idle"), ~At(w, "bounce")
  PROVE  worker[w] \in BusyStates /\ ~worker[w].kept
BY BusyType, Zenon DEF IInv, TypeOK, LockInv

\* Continuing with the same message, still locked, is going onward.
LEMMA OnwardContinue ==
  ASSUME IInv, NEW w \in Workers, ~At(w, "idle"), ~worker[w].kept, NEW next,
         Continue(w, next), next.id = worker[w].id, ~next.kept
  PROVE  Onward(w)
BY Zenon DEF Onward, Continue, IInv, TypeOK, DelivererTypeOK

\* So is going on to delete a local recipient's row.
LEMMA OnwardLocal ==
  ASSUME IInv, NEW w \in Workers, worker[w] \in BusyStates, ~At(w, "idle"), ~worker[w].kept,
         NEW r, NEW shared,
         LET next == [worker[w] EXCEPT !.pc = "localrow", !.cur = {r}, !.shared = shared]
         IN  Continue(w, next) \/ LocalFailure(w, r, next)
  PROVE  Onward(w)
<1> DEFINE next == [worker[w] EXCEPT !.pc = "localrow", !.cur = {r}, !.shared = shared]
<1>1. next.id = worker[w].id /\ ~next.kept
  BY Zenon DEF BusyStates
<1>2. [next EXCEPT !.errs = @ \cup ({r} \ Silent)].id = next.id
  BY Zenon DEF BusyStates
<1>3. [next EXCEPT !.errs = @ \cup ({r} \ Silent)].kept = next.kept
  BY Zenon DEF BusyStates
<1>4. Continue(w, next) \/ LocalFailure(w, r, next)
  BY Zenon
<1> HIDE DEF next
<1> QED BY <1>1, <1>2, <1>3, <1>4, OnwardContinue, Zenon DEF LocalFailure

\* Every step of a delivery thread preserves the invariant.
LEMMA WorkKeeps ==
  ASSUME IInv, TypeOK', NEW w \in Workers, Work(w)
  PROVE  IInv'
<1>1. StoreTypeOK
  BY Zenon DEF IInv, TypeOK, DelivererTypeOK
<1>2. Keeps(row) /\ (row' = row => Keeps(row'))
  BY Zenon DEF Keeps, LockedOrGone
<1>3. UNCHANGED <<recv, mgr, pending>>
  BY Zenon DEF Work, sessionVars, managerVars
<1>4. CASE ExecuteTask(w)
  BY <1>3, <1>4, ExecuteWork, Zenon
<1>5. CASE CheckMessage(w)
  <2>1. worker[w] \in BusyStates /\ ~At(w, "idle") /\ ~worker[w].kept
    BY <1>5, Busy, Zenon DEF CheckMessage, At
  <2>2. Onward(w)
    BY <1>5, <2>1, Zenon DEF CheckMessage, Onward, Goto, Finish, Continue, BusyStates, IInv, TypeOK, DelivererTypeOK
  <2> QED BY <1>3, <1>5, <2>2, <1>2, QuietWork, Zenon DEF CheckMessage, queueVars
<1>6. CASE PreprocessMessage(w)
  <2>1. worker[w] \in BusyStates /\ ~At(w, "idle") /\ ~worker[w].kept
    BY <1>6, Busy, Zenon DEF PreprocessMessage, At
  <2>2. Onward(w)
    BY <1>6, <2>1, Zenon DEF PreprocessMessage, Onward, Goto, Finish, Continue, BusyStates, IInv, TypeOK, DelivererTypeOK
  <2> QED BY <1>3, <1>6, <2>2, <1>2, QuietWork, Zenon DEF PreprocessMessage, queueVars
<1>7. CASE AbortDelivery(w)
  <2>1. worker[w] \in BusyStates /\ ~At(w, "idle") /\ ~worker[w].kept
    BY <1>7, Busy, Zenon DEF AbortDelivery, At
  <2>2. Onward(w)
    BY <1>7, <2>1, Zenon DEF AbortDelivery, Onward, Goto, Finish, Continue, BusyStates, IInv, TypeOK, DelivererTypeOK
  <2> QED BY <1>3, <1>7, <2>2, <1>2, QuietWork, Zenon DEF AbortDelivery, queueVars
<1>8. CASE DeferDelivery(w)
  <2>1. worker[w] \in BusyStates /\ ~At(w, "idle") /\ ~worker[w].kept
    BY <1>8, Busy, Zenon DEF DeferDelivery, At
  <2>2. Onward(w)
    BY <1>8, <2>1, Zenon DEF DeferDelivery, Onward, Goto, Finish, Continue, BusyStates, IInv, TypeOK, DelivererTypeOK
  <2> QED BY <1>3, <1>8, <2>2, <1>2, QuietWork, Zenon DEF DeferDelivery, queueVars
<1>9. CASE HoldUnscannable(w)
  <2>1. worker[w] \in BusyStates /\ ~At(w, "idle") /\ ~worker[w].kept
    BY <1>9, Busy, Zenon DEF HoldUnscannable, At
  <2>2. Onward(w)
    BY <1>9, <2>1, Zenon DEF HoldUnscannable, Onward, Goto, Finish, Continue, BusyStates, IInv, TypeOK, DelivererTypeOK
  <2>3. worker[w].id \in Msgs
    BY <2>1, Zenon DEF BusyStates
  <2>4. Keeps(SetNextTryTime(worker[w].id, FALSE, FALSE))
    BY <1>1, <2>3, RowKeeps, Zenon
  <2>5. Keeps(row')
    BY <1>9, <1>2, <2>4, Zenon DEF HoldUnscannable, WriteRow
  <2> QED BY <1>3, <1>9, <2>2, <2>5, QuietWork, Zenon DEF HoldUnscannable, queueVars
<1>10. CASE RefuseUnscannable(w)
  <2>1. worker[w] \in BusyStates /\ ~At(w, "idle") /\ ~worker[w].kept
    BY <1>10, Busy, Zenon DEF RefuseUnscannable, At
  <2>2. Onward(w)
    BY <1>10, <2>1, Zenon DEF RefuseUnscannable, Onward, Goto, Finish, Continue, BusyStates, IInv, TypeOK, DelivererTypeOK
  <2> QED BY <1>3, <1>10, <2>2, <1>2, QuietWork, Zenon DEF RefuseUnscannable, queueVars
<1>11. CASE DropReused(w)
  <2>1. worker[w] \in BusyStates /\ ~At(w, "idle") /\ ~worker[w].kept
    BY <1>11, Busy, Zenon DEF DropReused, At, GiveBack, LocalFailure
  <2>2. Onward(w)
    <3>1. /\ GiveBack(w).id = worker[w].id
          /\ ~GiveBack(w).kept
      BY <2>1, Zenon DEF GiveBack, BusyStates
    <3>2. \A r : [GiveBack(w) EXCEPT !.errs = @ \cup ({r} \ Silent)].id = worker[w].id
      BY <2>1, Zenon DEF GiveBack, BusyStates
    <3>3. \A r : ~[GiveBack(w) EXCEPT !.errs = @ \cup ({r} \ Silent)].kept
      BY <2>1, Zenon DEF GiveBack, BusyStates
    <3> QED BY <1>11, <2>1, <3>1, <3>2, <3>3, OnwardContinue, Zenon DEF DropReused, LocalFailure
  <2> QED BY <1>3, <1>11, <2>2, <1>2, QuietWork, Zenon DEF DropReused, queueVars
<1>12. CASE SaveReused(w)
  <2>1. worker[w] \in BusyStates /\ ~At(w, "idle") /\ ~worker[w].kept
    BY <1>12, Busy, Zenon DEF SaveReused, At, GiveBack, LocalFailure
  <2>2. Onward(w)
    <3>1. /\ [GiveBack(w) EXCEPT !.saved = TRUE].id = worker[w].id
          /\ ~[GiveBack(w) EXCEPT !.saved = TRUE].kept
      BY <2>1, Zenon DEF GiveBack, BusyStates
    <3>2. /\ [worker[w] EXCEPT !.pc = "localrow", !.saved = TRUE].id = worker[w].id
          /\ ~[worker[w] EXCEPT !.pc = "localrow", !.saved = TRUE].kept
      BY <2>1, Zenon DEF GiveBack, BusyStates
    <3>3. \A r : [[GiveBack(w) EXCEPT !.saved = TRUE] EXCEPT !.errs = @ \cup ({r} \ Silent)].id = worker[w].id
      BY <2>1, Zenon DEF GiveBack, BusyStates
    <3>4. \A r : ~[[GiveBack(w) EXCEPT !.saved = TRUE] EXCEPT !.errs = @ \cup ({r} \ Silent)].kept
      BY <2>1, Zenon DEF GiveBack, BusyStates
    <3> QED BY <1>12, <2>1, <3>1, <3>2, <3>3, <3>4, OnwardContinue, Zenon DEF SaveReused, LocalFailure
  <2>3. worker[w].id \in Msgs
    BY <2>1, Zenon DEF BusyStates
  <2>4. Keeps(SaveDelivered(worker[w].id))
    BY <1>1, <2>3, RowKeeps, Zenon
  <2>5. Keeps(row')
    BY <1>12, <1>2, <2>4, Zenon DEF SaveReused, WriteRow
  <2> QED BY <1>3, <1>12, <2>2, <2>5, QuietWork, Zenon DEF SaveReused, queueVars
<1>13. CASE DeleteLocalRecipient(w)
  <2>1. worker[w] \in BusyStates /\ ~At(w, "idle") /\ ~worker[w].kept
    BY <1>13, Busy, Zenon DEF DeleteLocalRecipient, At
  <2>2. Onward(w)
    BY <1>13, <2>1, Zenon DEF DeleteLocalRecipient, Onward, Goto, Finish, Continue, BusyStates, IInv, TypeOK, DelivererTypeOK
  <2> QED BY <1>3, <1>13, <2>2, <1>2, QuietWork, Zenon DEF DeleteLocalRecipient, queueVars
<1>14. CASE LocalDone(w)
  <2>1. worker[w] \in BusyStates /\ ~At(w, "idle") /\ ~worker[w].kept
    BY <1>14, Busy, Zenon DEF LocalDone, At
  <2>2. Onward(w)
    BY <1>14, <2>1, Zenon DEF LocalDone, Onward, Goto, Finish, Continue, BusyStates, IInv, TypeOK, DelivererTypeOK
  <2> QED BY <1>3, <1>14, <2>2, <1>2, QuietWork, Zenon DEF LocalDone, queueVars
<1>15. CASE DeliverBatch(w)
  <2>1. worker[w] \in BusyStates /\ ~At(w, "idle") /\ ~worker[w].kept
    BY <1>15, Busy, Zenon DEF DeliverBatch, At
  <2>2. Onward(w)
    BY <1>15, <2>1 DEF DeliverBatch, Onward, Goto, Finish, Continue, BusyStates, IInv, TypeOK, DelivererTypeOK
  <2> QED BY <1>3, <1>15, <2>2, <1>2, QuietWork, Zenon DEF DeliverBatch, queueVars
<1>16. CASE CollectDeliveryResult(w)
  <2>1. worker[w] \in BusyStates /\ ~At(w, "idle") /\ ~worker[w].kept
    BY <1>16, Busy, Zenon DEF CollectDeliveryResult, At
  <2>2. Onward(w)
    BY <1>16, <2>1 DEF CollectDeliveryResult, Onward, Goto, Finish, Continue, BusyStates, IInv, TypeOK, DelivererTypeOK
  <2> QED BY <1>3, <1>16, <2>2, <1>2, QuietWork, Zenon DEF CollectDeliveryResult, queueVars
<1>17. CASE Collected(w)
  <2>1. worker[w] \in BusyStates /\ ~At(w, "idle") /\ ~worker[w].kept
    BY <1>17, Busy, Zenon DEF Collected, At
  <2>2. Onward(w)
    BY <1>17, <2>1, Zenon DEF Collected, Onward, Goto, Finish, Continue, BusyStates, IInv, TypeOK, DelivererTypeOK
  <2> QED BY <1>3, <1>17, <2>2, <1>2, QuietWork, Zenon DEF Collected, queueVars
<1>18. CASE HoldForEtrn(w)
  <2>1. worker[w] \in BusyStates /\ ~At(w, "idle") /\ ~worker[w].kept
    BY <1>18, Busy, Zenon DEF HoldForEtrn, At
  <2>2. Onward(w)
    BY <1>18, <2>1, Zenon DEF HoldForEtrn, Onward, Goto, Finish, Continue, BusyStates, IInv, TypeOK, DelivererTypeOK
  <2>3. worker[w].id \in Msgs
    BY <2>1, Zenon DEF BusyStates
  <2>4. Keeps(HoldForRoute(worker[w].id))
    BY <1>1, <2>3, RowKeeps, Zenon
  <2>5. Keeps(row')
    BY <1>18, <1>2, <2>4, Zenon DEF HoldForEtrn, WriteRow
  <2> QED BY <1>3, <1>18, <2>2, <2>5, QuietWork, Zenon DEF HoldForEtrn, queueVars
<1>19. CASE RescheduleDelivery(w)
  <2>1. worker[w] \in BusyStates /\ ~At(w, "idle") /\ ~worker[w].kept
    BY <1>19, Busy, Zenon DEF RescheduleDelivery, At
  <2>2. Onward(w)
    BY <1>19, <2>1, Zenon DEF RescheduleDelivery, Onward, Goto, Finish, Continue, BusyStates, IInv, TypeOK, DelivererTypeOK
  <2>3. worker[w].id \in Msgs
    BY <2>1, Zenon DEF BusyStates
  <2>4. Keeps(SetNextTryTime(worker[w].id, TRUE, FALSE))
    BY <1>1, <2>3, RowKeeps, Zenon
  <2>5. Keeps(row')
    BY <1>19, <1>2, <2>4, Zenon DEF RescheduleDelivery, WriteRow
  <2> QED BY <1>3, <1>19, <2>2, <2>5, QuietWork, Zenon DEF RescheduleDelivery, queueVars
<1>20. CASE GiveUp(w)
  <2>1. worker[w] \in BusyStates /\ ~At(w, "idle") /\ ~worker[w].kept
    BY <1>20, Busy, Zenon DEF GiveUp, At
  <2>2. Onward(w)
    BY <1>20, <2>1, Zenon DEF GiveUp, Onward, Goto, Finish, Continue, BusyStates, IInv, TypeOK, DelivererTypeOK
  <2> QED BY <1>3, <1>20, <2>2, <1>2, QuietWork, Zenon DEF GiveUp, queueVars
<1>21. CASE DeleteQueueRow(w)
  <2>1. worker[w] \in BusyStates /\ ~At(w, "idle") /\ ~worker[w].kept
    BY <1>21, Busy, Zenon DEF DeleteQueueRow, At
  <2>2. Onward(w)
    BY <1>21, <2>1 DEF DeleteQueueRow, Onward, Goto, Finish, Continue, BusyStates, IInv, TypeOK, DelivererTypeOK
  <2>3. worker[w].id \in Msgs
    BY <2>1, Zenon DEF BusyStates
  <2>4. Keeps(DeleteRow(worker[w].id))
    BY <1>1, <2>3, RowKeeps, Zenon
  <2>5. Keeps(row')
    BY <1>21, <1>2, <2>4, Zenon DEF DeleteQueueRow, WriteRow
  <2> QED BY <1>3, <1>21, <2>2, <2>5, QuietWork, Zenon DEF DeleteQueueRow, queueVars
<1>22. CASE DeleteQueueRecipients(w)
  <2>1. worker[w] \in BusyStates /\ ~At(w, "idle") /\ ~worker[w].kept
    BY <1>22, Busy, Zenon DEF DeleteQueueRecipients, At
  <2>2. Onward(w)
    BY <1>22, <2>1 DEF DeleteQueueRecipients, Onward, Goto, Finish, Continue, BusyStates, IInv, TypeOK, DelivererTypeOK
  <2> QED BY <1>3, <1>22, <2>2, <1>2, QuietWork, Zenon DEF DeleteQueueRecipients, queueVars
<1>23. CASE DeleteDataFile(w)
  <2>1. worker[w] \in BusyStates /\ ~At(w, "idle") /\ ~worker[w].kept
    BY <1>23, Busy, Zenon DEF DeleteDataFile, At
  <2>2. Onward(w)
    BY <1>23, <2>1, Zenon DEF DeleteDataFile, Onward, Goto, Finish, Continue, BusyStates, IInv, TypeOK, DelivererTypeOK
  <2> QED BY <1>3, <1>23, <2>2, <1>2, QuietWork, Zenon DEF DeleteDataFile, queueVars
<1>24. ASSUME NEW r \in LocalRcpts, DropLocal(w, r)
      PROVE  IInv'
  <2>1. worker[w] \in BusyStates /\ ~At(w, "idle") /\ ~worker[w].kept
    BY <1>24, Busy, Zenon DEF DropLocal, At, Handling
  <2>2. Onward(w)
    BY <1>24, <2>1, OnwardLocal, Zenon DEF DropLocal
  <2> QED BY <1>3, <1>24, <2>2, <1>2, QuietWork, Zenon DEF DropLocal, queueVars
<1>25. ASSUME NEW r \in LocalRcpts, RejectLocal(w, r)
      PROVE  IInv'
  <2>1. worker[w] \in BusyStates /\ ~At(w, "idle") /\ ~worker[w].kept
    BY <1>25, Busy, Zenon DEF RejectLocal, At, Handling
  <2>2. Onward(w)
    BY <1>25, <2>1, OnwardLocal, Zenon DEF RejectLocal
  <2> QED BY <1>3, <1>25, <2>2, <1>2, QuietWork, Zenon DEF RejectLocal, queueVars
<1>26. ASSUME NEW r \in LocalRcpts, CopyToAccount(w, r)
      PROVE  IInv'
  <2>1. worker[w] \in BusyStates /\ ~At(w, "idle") /\ ~worker[w].kept
    BY <1>26, Busy, Zenon DEF CopyToAccount, At, Handling
  <2>2. Onward(w)
    BY <1>26, <2>1, OnwardLocal, Zenon DEF CopyToAccount
  <2> QED BY <1>3, <1>26, <2>2, <1>2, QuietWork, Zenon DEF CopyToAccount, queueVars
<1>27. ASSUME NEW r \in LocalRcpts, ReuseMessage(w, r)
      PROVE  IInv'
  <2>1. worker[w] \in BusyStates /\ ~At(w, "idle") /\ ~worker[w].kept
    BY <1>27, Busy, Zenon DEF ReuseMessage, At, Handling, LocalFailure
  <2>2. Onward(w)
    <3>1. /\ [worker[w] EXCEPT !.pc = "save", !.cur = {r}, !.reused = TRUE, !.owner = "user"].id = worker[w].id
          /\ ~[worker[w] EXCEPT !.pc = "save", !.cur = {r}, !.reused = TRUE, !.owner = "user"].kept
      BY <2>1, Zenon DEF BusyStates
    <3>2. /\ [worker[w] EXCEPT !.pc = "localrow", !.cur = {r}, !.reused = TRUE, !.owner = "user"].id = worker[w].id
          /\ ~[worker[w] EXCEPT !.pc = "localrow", !.cur = {r}, !.reused = TRUE, !.owner = "user"].kept
      BY <2>1, Zenon DEF BusyStates
    <3>3. [[worker[w] EXCEPT !.pc = "localrow", !.cur = {r}, !.reused = TRUE, !.owner = "user"] EXCEPT !.errs = @ \cup ({r} \ Silent)].id = worker[w].id
      BY <2>1, Zenon DEF BusyStates
    <3>4. ~[[worker[w] EXCEPT !.pc = "localrow", !.cur = {r}, !.reused = TRUE, !.owner = "user"] EXCEPT !.errs = @ \cup ({r} \ Silent)].kept
      BY <2>1, Zenon DEF BusyStates
    <3> QED BY <1>27, <2>1, <3>1, <3>2, <3>3, <3>4, OnwardContinue, Zenon DEF ReuseMessage, LocalFailure
  <2> QED BY <1>3, <1>27, <2>2, <1>2, QuietWork, Zenon DEF ReuseMessage, queueVars
<1>28. CASE UnlockHeld(w)
  <2>1. ~At(w, "idle") /\ ~worker[w].kept
    BY <1>28, Busy, Zenon DEF UnlockHeld, At
  <2> QED BY <1>3, <1>28, <2>1, UnlockWork, Zenon DEF UnlockHeld, Finish, queueVars
<1>29. CASE UnlockRescheduled(w)
  <2>1. worker[w] \in BusyStates /\ ~At(w, "idle") /\ ~worker[w].kept
    BY <1>29, Busy, Zenon DEF UnlockRescheduled, At
  <2>2. [worker[w] EXCEPT !.pc = "bounce", !.kept = TRUE].kept
    BY <2>1, Zenon DEF BusyStates
  <2>3. [worker[w] EXCEPT !.pc = "bounce", !.kept = TRUE].pc = "bounce"
    BY <2>1, Zenon DEF BusyStates
  <2> QED BY <1>3, <1>29, <2>1, <2>2, <2>3, UnlockWork, Zenon DEF UnlockRescheduled, queueVars
<1>30. CASE SubmitErrorLog(w)
  <2>1. worker[w] \in BusyStates /\ ~At(w, "idle")
    BY <1>30, BusyType, Zenon DEF SubmitErrorLog, At, IInv, TypeOK
  <2>2. At(w, "refuse") => ~worker[w].kept
    BY Zenon DEF IInv, LockInv, At
  <2>3. Onward(w)
    <3>1. /\ [worker[w] EXCEPT !.pc = "delrow", !.errs = {}].id = worker[w].id
          /\ [worker[w] EXCEPT !.pc = "delrow", !.errs = {}].kept = worker[w].kept
      BY <2>1, Zenon DEF BusyStates
    <3>2. CASE Finish(w)
      BY <3>2, Zenon DEF Finish, Continue, Onward, IInv, TypeOK, DelivererTypeOK
    <3>3. CASE ~Finish(w)
      <4>1. ~worker[w].kept
        BY <1>30, <2>2, <3>3, Zenon DEF SubmitErrorLog
      <4>2. Continue(w, [worker[w] EXCEPT !.pc = "delrow", !.errs = {}])
        BY <1>30, <3>3, Zenon DEF SubmitErrorLog
      <4> QED BY <2>1, <3>1, <4>1, <4>2, OnwardContinue, Zenon
    <3> QED BY <3>2, <3>3, Zenon
  <2> QED BY <1>2, <1>3, <1>30, <2>3, QuietWork, Zenon DEF SubmitErrorLog, queueVars
<1>31. CASE Interrupt(w)
  <2>1. Onward(w)
    BY <1>31, Zenon DEF Interrupt, Onward, Finish, Continue, IInv, TypeOK, DelivererTypeOK
  <2> QED BY <1>2, <1>3, <1>31, <2>1, QuietWork, Zenon DEF Interrupt, queueVars
<1> QED
  BY <1>4, <1>5, <1>6, <1>7, <1>8, <1>9, <1>10, <1>11, <1>12, <1>13, <1>14, <1>15, <1>16, <1>17,
     <1>18, <1>19, <1>20, <1>21, <1>22, <1>23, <1>24, <1>25, <1>26, <1>27, <1>28, <1>29, <1>30, <1>31, Zenon
  DEF Work, Deliver

\* The part of LockInv that speaks of one message.
MsgInv(m) ==
  /\ InQueue(m) \/ InWorker(m) \/ (mgr.pc = "post" /\ mgr.obj.id = m) => LockedOrGone(m)
  /\ recv[m] \in {"new", "inserted", "saved"} =>
       /\ LockedOrGone(m)
       /\ ~InManager(m) /\ ~InQueue(m) /\ ~InWorker(m)
  /\ recv[m] = "new" => row[m].type = "none"

\* The part of it that speaks of the list of pending messages.
PendingInv ==
  \A p \in pending :
    /\ ~InManager(p.id) /\ ~InQueue(p.id) /\ ~InWorker(p.id)
    /\ recv[p.id] \notin {"new", "inserted", "saved"}
    /\ \A q \in pending : p.id = q.id => p = q

\* The part of it that speaks of the start of the manager.
StartInv ==
  mgr.pc = "start" =>
    /\ posted = {} /\ pending = {}
    /\ \A w \in Workers : At(w, "idle")
    /\ \A m \in Msgs : recv[m] \notin {"inserted", "saved"}

\* The part of it that speaks of the workers.
KeptInv == \A w \in Workers : worker[w].kept => At(w, "bounce")

\* LockInv is those four.
LEMMA LockInvParts == LockInv <=> (\A m \in Msgs : MsgInv(m)) /\ PendingInv /\ StartInv /\ KeptInv
BY Zenon DEF LockInv, MsgInv, PendingInv, StartInv, KeptInv

\* Every step of a session preserves the invariant: a message is locked until
\* its recipients are saved, and nobody delivers it before.
LEMMA ReceiveKeeps ==
  ASSUME EarlySessions = FALSE, IInv, TypeOK', NEW m \in Msgs, Receive(m)
  PROVE  IInv'
<1> USE DEF restOfSession, managerVars
<1>1. UNCHANGED <<posted, worker, mgr, pending>>
  BY Zenon DEF Receive, InsertMessage, SaveRecipients, UnlockSaved, AcceptMessage, delivererVars
<1>2. row \in [Msgs -> Rows] /\ recv \in [Msgs -> Sessions]
  BY Zenon DEF IInv, TypeOK, DelivererTypeOK, StoreTypeOK
<1>3. (\A n \in Msgs : MsgInv(n)) /\ PendingInv /\ StartInv /\ KeptInv
  BY LockInvParts, Zenon DEF IInv
<1>4. \A n \in Msgs : /\ InManager(n)' <=> InManager(n)
                      /\ InQueue(n)' <=> InQueue(n)
                      /\ InWorker(n)' <=> InWorker(n)
  BY <1>1, Zenon DEF InManager, InQueue, InWorker, Delivering, At
<1>5. OneDeliverer'
  BY <1>1, <1>4, Zenon DEF IInv, OneDeliverer, Delivering, At
<1>6. KeptInv'
  BY <1>1, <1>3, Zenon DEF KeptInv, At
<1>7. \A n \in Msgs : n # m => row'[n] = row[n] /\ recv'[n] = recv[n]
  BY <1>2, Zenon DEF Receive, InsertMessage, SaveRecipients, UnlockSaved, AcceptMessage,
              InsertRow, UnlockObject, Update, Session, delivererVars
<1>8. \/ /\ recv[m] = "new"
         /\ mgr.pc # "start"
         /\ \/ recv'[m] = "inserted" /\ row'[m].locked
            \/ recv'[m] = "refused" /\ row'[m] = row[m]
      \/ /\ recv[m] = "inserted"
         /\ recv'[m] \in {"saved", "refused"}
         /\ row'[m] = row[m]
      \/ /\ recv[m] = "saved"
         /\ recv'[m] \in {"unlocked", "refused"}
      \/ /\ recv[m] = "unlocked"
         /\ recv'[m] = "accepted"
         /\ row'[m] = row[m]
  <2>1. CASE InsertMessage(m)
    BY <1>2, <2>1 DEF InsertMessage, InsertRow, Session
  <2>2. CASE SaveRecipients(m)
    BY <1>2, <2>2, Zenon DEF SaveRecipients, Session
  <2>3. CASE UnlockSaved(m)
    BY <1>2, <2>3, Zenon DEF UnlockSaved, Session
  <2>4. CASE AcceptMessage(m)
    BY <1>2, <2>4, Zenon DEF AcceptMessage, Session, delivererVars
  <2> QED BY <2>1, <2>2, <2>3, <2>4, Zenon DEF Receive
<1>9. ASSUME NEW n \in Msgs
      PROVE  MsgInv(n)'
  <2>1. CASE n # m
    BY <1>1, <1>3, <1>4, <1>7, <2>1, Zenon DEF MsgInv, LockedOrGone
  <2>2. CASE n = m
    BY <1>1, <1>3, <1>4, <1>8, <2>2, Zenon DEF MsgInv, LockedOrGone, InManager
  <2> QED BY <2>1, <2>2, Zenon
<1>10. PendingInv'
  <2>1. \A p \in pending : p.id \in Msgs
    BY Zenon DEF IInv, TypeOK, Entries
  <2>2. \A p \in pending : recv'[p.id] \notin {"new", "inserted", "saved"}
    BY <1>3, <1>7, <1>8, <2>1, Zenon DEF PendingInv
  <2> QED BY <1>1, <1>3, <1>4, <2>1, <2>2, Zenon DEF PendingInv
<1>11. StartInv'
  BY <1>1, <1>3, <1>7, <1>8, Zenon DEF StartInv, At
<1> QED BY <1>5, <1>6, <1>9, <1>10, <1>11, Zenon DEF IInv, LockInv, MsgInv, PendingInv, StartInv, KeptInv

\* Every step of the delivery manager preserves the invariant: a listed message
\* is nowhere on its way, and it is locked before it is handed over.
LEMMA ManagerKeeps ==
  ASSUME IInv, TypeOK', DoWork
  PROVE  IInv'
<1> USE DEF restOfManager, sessionVars
<1> DEFINE Whole == (\A n \in Msgs : MsgInv(n)) /\ PendingInv /\ StartInv /\ KeptInv /\ OneDeliverer
<1>1. UNCHANGED <<worker, recv>>
  BY Zenon DEF DoWork, StartManager, LoadPendingMessageList, TakeFromCache, TakeFromDatabase,
         LockMessage, AddTask, WakeManager
<1>2. row \in [Msgs -> Rows] /\ \A p \in pending : p.id \in Msgs
  BY Zenon DEF IInv, TypeOK, DelivererTypeOK, StoreTypeOK, Entries
<1>3. Whole
  BY LockInvParts, Zenon DEF IInv
<1>4. KeptInv' /\ \A n \in Msgs : InWorker(n)' <=> InWorker(n)
  BY <1>1, <1>3, Zenon DEF KeptInv, InWorker, Delivering, At
<1>5. \A n \in Msgs, v, w \in Workers : Delivering(v, n)' /\ Delivering(w, n)' => v = w
  BY <1>1, <1>3, Zenon DEF OneDeliverer, Delivering, At
<1>6. SUFFICES Whole'
  BY Zenon DEF IInv, LockInv, MsgInv, PendingInv, StartInv, KeptInv
<1>7. CASE StartManager
  <2>1. mgr.pc = "start" /\ mgr'.pc = "next" /\ UNCHANGED <<posted, pending>>
    BY <1>7, Zenon DEF StartManager, Manager
  <2>2. \A n \in Msgs : ~InQueue(n)' /\ ~InWorker(n)' /\ ~InManager(n)'
    BY <1>3, <1>4, <2>1, Zenon DEF StartInv, InQueue, InWorker, InManager, Delivering
  <2>3. \A n \in Msgs : row[n].type = "none" => row'[n].type = "none"
    BY <1>2, <1>7, Zenon DEF StartManager, WriteRow, UnlockAll
  <2>4. \A n \in Msgs : MsgInv(n)'
    BY <1>1, <1>3, <2>1, <2>2, <2>3, Zenon DEF MsgInv, StartInv, LockedOrGone
  <2> QED BY <1>3, <1>4, <1>5, <2>1, <2>2, <2>4, Zenon DEF PendingInv, StartInv, OneDeliverer
<1>8. CASE LoadPendingMessageList
  <2>1. /\ mgr.pc = "next" /\ mgr'.pc \in {"wait", "pick"}
        /\ UNCHANGED <<posted, row>>
        /\ pending' \in {{}, PendingMessageList}
    BY <1>8, Zenon DEF LoadPendingMessageList, Manager
  <2>2. \A n \in Msgs : /\ ~InManager(n) /\ ~InManager(n)'
                        /\ InQueue(n)' <=> InQueue(n)
                        /\ LockedOrGone(n)' <=> LockedOrGone(n)
    BY <2>1, Zenon DEF InManager, InQueue, LockedOrGone
  <2>3. \A n \in Msgs : MsgInv(n)'
    BY <1>1, <1>3, <1>4, <2>1, <2>2, Zenon DEF MsgInv
  <2>4. \A p \in pending' : p.id \in Msgs /\ ~LockedOrGone(p.id)
    BY <1>2, <2>1 DEF PendingMessageList, LockedOrGone
  <2>5. \A p, q \in pending' : p.id = q.id => p = q
    BY <2>1 DEF PendingMessageList
  <2>6. \A p \in pending' : ~InQueue(p.id) /\ ~InWorker(p.id) /\ recv[p.id] \notin {"new", "inserted", "saved"}
    BY <1>3, <2>4, Zenon DEF MsgInv
  <2>7. PendingInv'
    BY <1>1, <1>4, <2>2, <2>4, <2>5, <2>6, Zenon DEF PendingInv
  <2> QED BY <1>3, <1>4, <1>5, <2>1, <2>2, <2>3, <2>7, Zenon DEF StartInv, OneDeliverer
<1>9. ASSUME NEW p \in pending,
             mgr.pc \in {"next", "pick"}, mgr'.pc = "lock", mgr'.obj.id = p.id,
             pending' = pending \ {p}, UNCHANGED <<posted, row>>
      PROVE  Whole'
  <2>1. \A n \in Msgs : /\ ~InManager(n) /\ (InManager(n)' <=> n = p.id)
                        /\ InQueue(n)' <=> InQueue(n)
                        /\ LockedOrGone(n)' <=> LockedOrGone(n)
    BY <1>9, Zenon DEF InManager, InQueue, LockedOrGone
  <2>2. /\ ~InQueue(p.id) /\ ~InWorker(p.id)
        /\ recv[p.id] \notin {"new", "inserted", "saved"}
        /\ \A q \in pending' : q.id # p.id
    BY <1>3, <1>9, Zenon DEF PendingInv
  <2>3. \A n \in Msgs : MsgInv(n)'
    BY <1>1, <1>3, <1>4, <1>9, <2>1, <2>2, Zenon DEF MsgInv
  <2>4. PendingInv'
    <3>1. \A q \in pending' : q \in pending /\ q.id \in Msgs
      BY <1>2, <1>9, Zenon
    <3> QED BY <1>1, <1>3, <1>4, <2>1, <2>2, <3>1, Zenon DEF PendingInv
  <2>5. OneDeliverer'
    BY <1>3, <1>4, <1>5, <1>9, <2>1, <2>2, Zenon DEF OneDeliverer
  <2> QED BY <1>4, <1>9, <2>3, <2>4, <2>5, Zenon DEF StartInv
<1>10. ASSUME mgr.pc # "start", mgr'.pc \in {"next", "wait"}, UNCHANGED <<posted, pending>>,
              UNCHANGED row
       PROVE  Whole'
  <2>1. \A n \in Msgs : /\ ~InManager(n)'
                        /\ InQueue(n)' <=> InQueue(n)
                        /\ LockedOrGone(n)' <=> LockedOrGone(n)
    BY <1>10, Zenon DEF InManager, InQueue, LockedOrGone
  <2>2. \A n \in Msgs : MsgInv(n)'
    BY <1>1, <1>3, <1>4, <1>10, <2>1, Zenon DEF MsgInv
  <2>3. PendingInv'
    BY <1>1, <1>2, <1>3, <1>4, <1>10, <2>1, Zenon DEF PendingInv
  <2>4. OneDeliverer'
    BY <1>3, <1>4, <1>5, <1>10, <2>1, Zenon DEF OneDeliverer
  <2> QED BY <1>4, <1>10, <2>2, <2>3, <2>4, Zenon DEF StartInv
<1>11. ASSUME NEW p \in pending, TakeFromCache(p)
       PROVE  Whole'
  BY <1>9, <1>11, Zenon DEF TakeFromCache, Take, Picking
<1>12. ASSUME NEW p \in pending, TakeFromDatabase(p)
       PROVE  Whole'
  <2>1. mgr.pc \in {"next", "pick"} /\ UNCHANGED <<posted, row>>
    BY <1>12, Zenon DEF TakeFromDatabase, Picking
  <2>2. \/ mgr'.pc = "lock" /\ mgr'.obj.id = p.id /\ pending' = pending \ {p}
        \/ mgr'.pc = "wait" /\ UNCHANGED pending
    BY <1>12 DEF TakeFromDatabase, Take, Manager
  <2>3. CASE mgr'.pc = "lock" /\ mgr'.obj.id = p.id /\ pending' = pending \ {p}
    BY <1>9, <2>1, <2>3, Zenon
  <2>4. CASE mgr'.pc = "wait" /\ UNCHANGED pending
    BY <1>10, <2>1, <2>4, Zenon
  <2> QED BY <2>2, <2>3, <2>4, Zenon
<1>13. CASE LockMessage
  <2>1. CASE row' = row /\ Manager("next")
    BY <1>10, <1>13, <2>1, Zenon DEF LockMessage, Manager
  <2>2. CASE row' = LockObject(mgr.obj.id) /\ mgr' = [pc |-> "post", obj |-> mgr.obj]
    <3>1. mgr.pc = "lock" /\ UNCHANGED <<posted, pending>> /\ mgr.obj.id \in Msgs
      BY <1>13, Zenon DEF LockMessage, IInv, TypeOK, Tasks
    <3>2. \A n \in Msgs : /\ InManager(n)' <=> InManager(n)
                          /\ InQueue(n)' <=> InQueue(n)
      BY <2>2, <3>1, Zenon DEF InManager, InQueue
    <3>3. \A n \in Msgs : /\ LockedOrGone(n) => LockedOrGone(n)'
                          /\ n = mgr.obj.id => LockedOrGone(n)'
                          /\ row[n].type = "none" => row'[n].type = "none"
      BY <1>2, <2>2, <3>1, Zenon DEF LockedOrGone, LockObject, Update, Exists, Rows
    <3>4. \A n \in Msgs : MsgInv(n)'
      BY <1>1, <1>3, <1>4, <2>2, <3>1, <3>2, <3>3, Zenon DEF MsgInv
    <3>5. PendingInv'
      BY <1>1, <1>2, <1>3, <1>4, <3>1, <3>2, Zenon DEF PendingInv
    <3>6. OneDeliverer'
      BY <1>3, <1>4, <1>5, <3>1, <3>2, Zenon DEF OneDeliverer
    <3> QED BY <1>4, <2>2, <3>4, <3>5, <3>6, Zenon DEF StartInv
  <2> QED BY <1>13, <2>1, <2>2, Zenon DEF LockMessage
<1>14. CASE AddTask
  <2>1. CASE posted' = posted
    BY <1>10, <1>14, <2>1, Zenon DEF AddTask, Manager
  <2>2. CASE posted' = posted \cup {mgr.obj}
    <3>1. mgr.pc = "post" /\ mgr'.pc = "next" /\ UNCHANGED <<pending, row>> /\ mgr.obj.id \in Msgs
      BY <1>14, Zenon DEF AddTask, Manager, IInv, TypeOK, Tasks
    <3>2. \A n \in Msgs : /\ ~InManager(n)'
                          /\ InManager(n) <=> n = mgr.obj.id
                          /\ InQueue(n)' <=> InQueue(n) \/ n = mgr.obj.id
                          /\ LockedOrGone(n)' <=> LockedOrGone(n)
      BY <2>2, <3>1, Zenon DEF InManager, InQueue, LockedOrGone
    <3>3. \A n \in Msgs : MsgInv(n)'
      BY <1>1, <1>3, <1>4, <3>1, <3>2, Zenon DEF MsgInv
    <3>4. PendingInv'
      BY <1>1, <1>2, <1>3, <1>4, <3>1, <3>2, Zenon DEF PendingInv
    <3>5. ~InQueue(mgr.obj.id) /\ ~InWorker(mgr.obj.id)
      BY <1>3, <3>1, <3>2, Zenon DEF OneDeliverer
    <3>6. \A n \in Msgs, s, t \in posted' : s.id = n /\ t.id = n => s = t
      BY <1>3, <2>2, <3>5, Zenon DEF OneDeliverer, InQueue
    <3>7. OneDeliverer'
      BY <1>3, <1>4, <1>5, <3>2, <3>5, <3>6, Zenon DEF OneDeliverer
    <3> QED BY <1>4, <3>1, <3>3, <3>4, <3>7, Zenon DEF StartInv
  <2> QED BY <1>14, <2>1, <2>2, Zenon DEF AddTask
<1>15. CASE WakeManager
  BY <1>10, <1>15, Zenon DEF WakeManager, Manager
<1> QED BY <1>7, <1>8, <1>11, <1>12, <1>13, <1>14, <1>15, Zenon DEF DoWork

\* A step that touches neither threads nor manager and keeps locks preserves
\* the invariant.
LEMMA RowStep ==
  ASSUME IInv, TypeOK', Keeps(row'), UNCHANGED <<posted, worker, mgr, pending, recv>>
  PROVE  IInv'
<1>1. \A v \in Workers, m \in Msgs : Delivering(v, m)' => Delivering(v, m)
  BY Zenon DEF Delivering, At
<1>2. \A v \in Workers : At(v, "idle") => At(v, "idle")'
  BY Zenon DEF At
<1>3. \A v \in Workers : worker'[v].kept => At(v, "bounce")'
  BY Zenon DEF At, IInv, LockInv
<1> QED BY <1>1, <1>2, <1>3, Shrink, Zenon DEF Keeps, LockedOrGone

\* A delete under way is of one of the messages.
LEMMA DeleterId ==
  ASSUME TypeOK, NEW d \in {"clear", "remove"}, deleter[d].pc # "idle"
  PROVE  deleter[d].id \in Msgs
<1>1. deleter[d] \in [pc : {"lock", "delrow", "delrcpt", "delfile"},
                      id : Msgs, type : Types, owner : Owners] \cup {NoDelete}
  BY Zenon DEF TypeOK
<1>2. NoDelete.pc = "idle"
  BY Zenon DEF NoDelete
<1> QED BY <1>1, <1>2, Zenon

\* The administrator's operations and ETRN take no lock away.
LEMMA AdminKeeps ==
  ASSUME IInv, TypeOK', Administer
  PROVE  IInv'
<1> USE DEF restOfAdmin, sessionVars
<1>1. StoreTypeOK
  BY Zenon DEF IInv, TypeOK, DelivererTypeOK
<1>2. row' = row => Keeps(row')
  BY Zenon DEF Keeps, LockedOrGone
<1>3. CASE Clear \/ ClearerRefresh \/ ClearerNext \/ ClearerUncache \/ ClearerStart
  BY <1>2, <1>3, RowStep, Zenon DEF Clear, ClearerRefresh, ClearerNext, ClearerUncache, ClearerStart
<1>4. CASE ClearerStop
  <2>1. \A v \in Workers : /\ worker'[v].pc = worker[v].pc
                           /\ worker'[v].id = worker[v].id
                           /\ worker'[v].kept = worker[v].kept
    <3>1. ASSUME NEW v \in Workers, ~At(v, "idle")
          PROVE  worker[v] \in BusyStates
      BY <3>1, BusyType, Zenon DEF IInv, TypeOK
    <3> QED BY <1>4, <3>1, Zenon DEF ClearerStop, StopQueue, BusyStates
  <2>2. \A v \in Workers, m \in Msgs : Delivering(v, m)' => Delivering(v, m)
    BY <2>1, Zenon DEF Delivering, At
  <2>3. \A v \in Workers : At(v, "idle") => At(v, "idle")'
    BY <2>1, Zenon DEF At
  <2>4. \A v \in Workers : worker'[v].kept => At(v, "bounce")'
    BY <2>1, Zenon DEF At, IInv, LockInv
  <2>5. UNCHANGED <<row, posted, mgr, pending, recv>>
    BY <1>4, Zenon DEF ClearerStop
  <2> QED BY <2>2, <2>3, <2>4, <2>5, Shrink, Zenon DEF LockedOrGone
<1>5. CASE RemoveLock
  <2>1. deleter["remove"].id \in Msgs
    BY <1>5, DeleterId, Zenon DEF RemoveLock, IInv
  <2>2. Keeps(row')
    BY <1>1, <1>2, <1>5, <2>1, RowKeeps, Zenon DEF RemoveLock
  <2> QED BY <1>5, <2>2, RowStep, Zenon DEF RemoveLock
<1>6. ASSUME NEW d \in {"clear", "remove"},
             AdminDeleteRow(d) \/ AdminDeleteRecipients(d) \/ AdminDeleteFile(d)
      PROVE  IInv'
  <2>1. CASE AdminDeleteRow(d)
    <3>1. deleter[d].id \in Msgs
      BY <2>1, DeleterId, Zenon DEF AdminDeleteRow, IInv
    <3>2. Keeps(row')
      BY <1>1, <1>2, <2>1, <3>1, RowKeeps, Zenon DEF AdminDeleteRow
    <3> QED BY <2>1, <3>2, RowStep, Zenon DEF AdminDeleteRow
  <2>2. CASE AdminDeleteRecipients(d) \/ AdminDeleteFile(d)
    BY <1>2, <2>2, RowStep, Zenon DEF AdminDeleteRecipients, AdminDeleteFile
  <2> QED BY <1>6, <2>1, <2>2, Zenon
<1>7. ASSUME NEW m \in Msgs, Remove(m) \/ ResetDeliveryTime(m)
      PROVE  IInv'
  <2>1. Keeps(SetNextTryTime(m, FALSE, TRUE))
    BY <1>1, RowKeeps, Zenon
  <2>2. Keeps(row')
    BY <1>2, <1>7, <2>1, Zenon DEF Remove, ResetDeliveryTime
  <2> QED BY <1>7, <2>2, RowStep, Zenon DEF Remove, ResetDeliveryTime
<1>8. CASE ETRN
  <2>1. Keeps(ReleaseRoute)
    BY <1>1, Zenon DEF Keeps, LockedOrGone, ReleaseRoute, StoreTypeOK, Rows
  <2> QED BY <1>8, <2>1, RowStep, Zenon DEF ETRN
<1> QED BY <1>3, <1>4, <1>5, <1>6, <1>7, <1>8, Zenon DEF Administer, Clearer

\* After a restart nothing is on its way, and what was being saved never will be.
LEMMA CrashKeeps ==
  ASSUME IInv, TypeOK', Crash
  PROVE  IInv'
<1>1. /\ posted' = {} /\ pending' = {} /\ mgr'.pc = "start" /\ row' = row
      /\ \A w \in Workers : worker'[w] = Idle
  BY Zenon DEF Crash, Manager
<1>2. \A m \in Msgs : ~InQueue(m)' /\ ~InWorker(m)' /\ ~InManager(m)'
  <2>1. Idle.pc = "idle"
    BY Zenon DEF Idle
  <2>2. \A m \in Msgs : ~InWorker(m)'
    BY <1>1, <2>1, Zenon DEF InWorker, Delivering, At
  <2> QED BY <1>1, <2>2, Zenon DEF InQueue, InManager
<1>3. \A m \in Msgs : recv'[m] \notin {"inserted", "saved"} /\ (recv'[m] = "new" => recv[m] = "new")
  BY Zenon DEF Crash, IInv, TypeOK
<1>4. \A m \in Msgs : MsgInv(m)'
  BY <1>1, <1>2, <1>3, Zenon DEF IInv, LockInv, MsgInv, LockedOrGone
<1>5. PendingInv' /\ StartInv' /\ KeptInv'
  <2>1. Idle.pc = "idle" /\ ~Idle.kept
    BY Zenon DEF Idle
  <2>2. PendingInv'
    BY <1>1, Zenon DEF PendingInv
  <2>3. StartInv'
    BY <1>1, <1>3, <2>1, Zenon DEF StartInv, At
  <2>4. KeptInv'
    BY <1>1, <2>1, Zenon DEF KeptInv
  <2> QED BY <2>2, <2>3, <2>4, Zenon
<1>6. OneDeliverer'
  BY <1>1, <1>2, Zenon DEF OneDeliverer, InWorker
<1> QED BY <1>4, <1>5, <1>6, Zenon DEF IInv, LockInv, MsgInv, PendingInv, StartInv, KeptInv

\* The invariant is inductive.
LEMMA LockStep ==
  ASSUME EarlySessions = FALSE, IInv, [Next]_vars
  PROVE  IInv'
<1>1. TypeOK'
  BY TypeStep, Zenon DEF IInv
<1>2. ASSUME NEW m \in Msgs, TimePasses(m)
      PROVE  IInv'
  <2>1. Keeps(row')
    BY <1>2, Zenon DEF TimePasses, Keeps, LockedOrGone, IInv, TypeOK, DelivererTypeOK, StoreTypeOK, Rows
  <2> QED BY <1>1, <1>2, <2>1, RowStep, Zenon DEF TimePasses, restOfAdmin, sessionVars
<1>3. CASE UNCHANGED vars
  <2>1. Keeps(row')
    BY <1>3, Zenon DEF Keeps, LockedOrGone, vars, delivererVars
  <2> QED BY <1>1, <1>3, <2>1, RowStep, Zenon DEF vars, delivererVars, sessionVars, managerVars
<1> QED BY <1>1, <1>2, <1>3, ReceiveKeeps, ManagerKeeps, WorkKeeps, AdminKeeps, CrashKeeps, Zenon DEF Next

\* The queue starts with nothing on its way.
LEMMA LockInit ==
  ASSUME Init
  PROVE  IInv
<1>1. TypeOK
  BY TypeInit, Zenon
<1>2. posted = {} /\ pending = {} /\ mgr.pc = "start" /\ \A w \in Workers : worker[w] = Idle
  BY Zenon DEF Init, DelivererInit
<1>3. \A m \in Msgs : ~InQueue(m) /\ ~InWorker(m) /\ ~InManager(m)
  <2>1. Idle.pc = "idle"
    BY Zenon DEF Idle
  <2>2. \A m \in Msgs : ~InWorker(m)
    BY <1>2, <2>1, Zenon DEF InWorker, Delivering, At
  <2> QED BY <1>2, <2>2, Zenon DEF InQueue, InManager
<1>4. \A m \in Msgs : row[m].type = "none" /\ recv[m] = "new"
  BY Zenon DEF Init, DelivererInit, NoRow
<1>5. OneDeliverer
  BY <1>2, <1>3, Zenon DEF OneDeliverer, InWorker
<1>6. (\A m \in Msgs : MsgInv(m)) /\ PendingInv /\ StartInv /\ KeptInv
  <2>1. Idle.pc = "idle" /\ ~Idle.kept
    BY Zenon DEF Idle
  <2>2. \A m \in Msgs : MsgInv(m)
    BY <1>2, <1>3, <1>4, Zenon DEF MsgInv, LockedOrGone
  <2>3. PendingInv
    BY <1>2, Zenon DEF PendingInv
  <2>4. StartInv
    BY <1>2, <1>4, <2>1, Zenon DEF StartInv, At
  <2>5. KeptInv
    BY <1>2, <2>1, Zenon DEF KeptInv
  <2> QED BY <2>2, <2>3, <2>4, <2>5, Zenon
<1> QED BY <1>1, <1>5, <1>6, LockInvParts, Zenon DEF IInv

\* The invariant that the others follow from.
THEOREM QueueIsSound ==
  ASSUME EarlySessions = FALSE
  PROVE  Spec => []IInv
<1>1. Init => IInv
  BY LockInit, Zenon
<1>2. IInv /\ [Next]_vars => IInv'
  BY LockStep, Zenon
<1> QED BY <1>1, <1>2, PTL DEF Spec

\* The lock column excludes: as long as sessions wait for the manager's
\* UnlockAll, no message is ever in two delivery threads, nor in a thread while
\* the manager or the work queue holds another delivery of it -- for any number
\* of messages, recipients and threads, whatever statements fail, whatever an
\* administrator does to the queue and however often the process restarts.
THEOREM LockExcludes ==
  ASSUME EarlySessions = FALSE
  PROVE  Spec => []OneDeliverer
<1>1. IInv => OneDeliverer
  BY Zenon DEF IInv
<1> QED BY <1>1, QueueIsSound, PTL

\* What messagelocked means: it is set on the row of every message that has
\* been handed over or is still being saved, and nothing is on its way when the
\* manager clears it on all rows.
THEOREM LockIsHeld ==
  ASSUME EarlySessions = FALSE
  PROVE  Spec => []LockInv
<1>1. IInv => LockInv
  BY Zenon DEF IInv
<1> QED BY <1>1, QueueIsSound, PTL

\* And a message that is being saved is known neither to the manager nor to a
\* thread: AddObject inserts it locked, and it stays so until its recipients are
\* in the database.
THEOREM CompleteBeforeTaken ==
  ASSUME EarlySessions = FALSE
  PROVE  Spec => []CompleteWhenTaken
<1>1. IInv => CompleteWhenTaken
  BY Zenon DEF IInv, LockInv, CompleteWhenTaken, InManager
<1> QED BY <1>1, QueueIsSound, PTL
=============================================================================
