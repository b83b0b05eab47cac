------------------------------ MODULE MailSteps ------------------------------
(***************************************************************************)
(* What each step of a delivery thread does to the thread's own record,    *)
(* field by field, and to the tables.  The proofs about the queue reason   *)
(* from these facts and not from the definitions of the steps.             *)
(*                                                                         *)
(* Then MailInv, the invariant from which NoMailLost follows.  A recipient *)
(* is done for when the world has an answer or a thread has the answer in  *)
(* hand; that never goes back.  All others must be in the store, and       *)
(* whoever is about to deliver the message must know of them: the          *)
(* manager's object, the posted task or the thread.  Here it is shown to   *)
(* survive a delivery up to its last local recipient; NoMailLostProofs has *)
(* the other steps.                                                        *)
(***************************************************************************)
EXTENDS DeliveryQueue, TLAPS

\* Only thread w moves.
Others(w) == \A v \in Workers : v # w => worker'[v] = worker[v]

\* Fields of a thread's record that a step leaves alone.
SameTask(x, y) == y.id = x.id /\ y.tries = x.tries /\ y.kept = x.kept

SameRcpts(x, y) == y.rcpts = x.rcpts /\ y.soft = x.soft /\ y.fatal = x.fatal /\ y.ok = x.ok

SameFlags(x, y) ==
  y.owner = x.owner /\ y.saved = x.saved /\ y.reused = x.reused /\ y.counted = x.counted

SameLocal(x, y) == SameTask(x, y) /\ SameRcpts(x, y)

Same(x, y) == SameLocal(x, y) /\ SameFlags(x, y) /\ y.cur = x.cur /\ y.errs = x.errs

\* A thread that is not idle has a message in hand.
LEMMA Occupied ==
  ASSUME DelivererTypeOK, NEW w \in Workers, ~At(w, "idle")
  PROVE  worker[w] \in BusyStates
BY DEF DelivererTypeOK, At, Idle

\* A thread has a message it rescheduled in hand only while it sends the report.
LEMMA Unkept ==
  ASSUME IInv, NEW w \in Workers, ~At(w, "idle"), ~At(w, "bounce")
  PROVE  worker[w] \in BusyStates /\ ~worker[w].kept
BY Occupied, Zenon DEF IInv, TypeOK, LockInv

\* One that is idle has none.
LEMMA NoId ==
  ASSUME NEW m \in Msgs
  PROVE  Idle.id # m
BY DelivererAssumption, Zenon DEF Idle

LEMMA HasId ==
  ASSUME DelivererTypeOK, NEW w \in Workers, worker[w].id \in Msgs
  PROVE  worker[w] \in BusyStates /\ ~At(w, "idle")
<1>1. worker[w] # Idle
  BY NoId, Zenon
<1>2. worker[w] \in BusyStates
  BY <1>1, Zenon DEF DelivererTypeOK
<1> QED BY <1>2, Zenon DEF BusyStates, Steps, At

\* The tables and the histories are functions on the messages.
LEMMA Tables ==
  ASSUME DelivererTypeOK
  PROVE  /\ row \in [Msgs -> Rows] /\ file \in [Msgs -> Folders]
         /\ \A f \in {rcpt, reached, closed, cut} : f \in [Msgs -> SUBSET Rcpts]
BY Zenon DEF DelivererTypeOK, StoreTypeOK

\* A thread continues as the record given.
LEMMA Continues ==
  ASSUME DelivererTypeOK, NEW w \in Workers, NEW next, Continue(w, next)
  PROVE  worker'[w] = next /\ Others(w)
BY Zenon DEF DelivererTypeOK, Continue, Others

LEMMA Sent ==
  ASSUME DelivererTypeOK, NEW w \in Workers, ~At(w, "idle"), NEW pc, Goto(w, pc)
  PROVE  /\ worker[w] \in BusyStates /\ Others(w)
         /\ worker'[w].pc = pc /\ Same(worker[w], worker'[w])
<1>1. worker[w] \in BusyStates
  BY Occupied, Zenon
<1>2. worker'[w] = [worker[w] EXCEPT !.pc = pc] /\ Others(w)
  BY Continues, Zenon DEF Goto
<1> QED BY <1>1, <1>2, Zenon DEF BusyStates, Same, SameLocal, SameTask, SameRcpts, SameFlags

LEMMA Finishes ==
  ASSUME DelivererTypeOK, NEW w \in Workers, Finish(w)
  PROVE  Others(w) /\ worker'[w] = Idle
BY Continues, Zenon DEF Finish

LEMMA Defers ==
  ASSUME DelivererTypeOK, NEW w \in Workers, DeferDelivery(w)
  PROVE  /\ worker[w] \in BusyStates /\ Others(w)
         /\ worker[w].pc = "preprocess" /\ worker'[w].pc = "unscannable"
         /\ worker'[w].counted = HoldCounted(worker[w].id)
         /\ SameLocal(worker[w], worker'[w])
         /\ worker'[w].cur = worker[w].cur /\ worker'[w].errs = worker[w].errs
         /\ worker'[w].owner = worker[w].owner /\ worker'[w].reused = worker[w].reused
<1>1. worker[w] \in BusyStates /\ worker[w].pc = "preprocess"
  BY Occupied, Zenon DEF DeferDelivery, At
<1>2. /\ worker'[w] = [worker[w] EXCEPT !.pc = "unscannable", !.counted = HoldCounted(worker[w].id)]
      /\ Others(w)
  BY Continues, Zenon DEF DeferDelivery
<1> QED BY <1>1, <1>2, Zenon DEF BusyStates, SameLocal, SameTask, SameRcpts

LEMMA Refuses ==
  ASSUME DelivererTypeOK, NEW w \in Workers, RefuseUnscannable(w)
  PROVE  /\ worker[w] \in BusyStates /\ Others(w)
         /\ worker[w].pc = "unscannable" /\ worker'[w].pc = "refuse"
         /\ SameLocal(worker[w], worker'[w]) /\ SameFlags(worker[w], worker'[w])
         /\ worker'[w].cur = worker[w].cur /\ worker'[w].errs = worker[w].rcpts
<1>1. worker[w] \in BusyStates /\ worker[w].pc = "unscannable"
  BY Occupied, Zenon DEF RefuseUnscannable, At
<1>2. worker'[w] = [worker[w] EXCEPT !.pc = "refuse", !.errs = worker[w].rcpts] /\ Others(w)
  BY Continues, Zenon DEF RefuseUnscannable
<1> QED BY <1>1, <1>2, Zenon DEF BusyStates, SameLocal, SameTask, SameRcpts, SameFlags

\* The four ways to handle a local recipient have this in common.
Handled(w, r) ==
  /\ worker[w] \in BusyStates /\ Others(w)
  /\ worker[w].pc = "local" /\ r \in worker[w].rcpts /\ r \in LocalRcpts
  /\ SameLocal(worker[w], worker'[w])
  /\ worker'[w].cur = {r}
  /\ worker'[w].saved = worker[w].saved /\ worker'[w].counted = worker[w].counted

LEMMA HandlingType ==
  ASSUME DelivererTypeOK, NEW w \in Workers, NEW r, Handling(w, r)
  PROVE  worker[w] \in BusyStates /\ worker[w].pc = "local" /\ r \in worker[w].rcpts /\ r \in LocalRcpts
BY Occupied, Zenon DEF Handling, At

LEMMA Drops ==
  ASSUME DelivererTypeOK, NEW w \in Workers, NEW r, DropLocal(w, r)
  PROVE  /\ Handled(w, r) /\ worker'[w].pc = "localrow"
         /\ SameFlags(worker[w], worker'[w]) /\ worker'[w].errs = worker[w].errs
<1>1. worker[w] \in BusyStates /\ worker[w].pc = "local" /\ r \in worker[w].rcpts /\ r \in LocalRcpts
  BY HandlingType, Zenon DEF DropLocal
<1>2. PICK shared : /\ worker'[w] = [worker[w] EXCEPT !.pc = "localrow", !.cur = {r}, !.shared = shared]
                    /\ Others(w)
  BY Continues, Zenon DEF DropLocal
<1> QED BY <1>1, <1>2, Zenon DEF BusyStates, Handled, SameLocal, SameTask, SameRcpts, SameFlags

\* The record with which LocalFailure continues differs from next in errs only.
LEMMA Fails1 ==
  ASSUME DelivererTypeOK, NEW w \in Workers, NEW r, NEW next \in BusyStates, LocalFailure(w, r, next)
  PROVE  /\ Others(w) /\ worker'[w].pc = next.pc /\ SameLocal(next, worker'[w])
         /\ SameFlags(next, worker'[w]) /\ worker'[w].cur = next.cur
         /\ worker'[w].errs = next.errs \cup ({r} \ Silent)
         /\ closed' = Add(closed, worker[w].id, {r} \cap Silent)
<1>1. worker'[w] = [next EXCEPT !.errs = @ \cup ({r} \ Silent)] /\ Others(w)
  BY Continues, Zenon DEF LocalFailure
<1> QED BY <1>1, Zenon DEF LocalFailure, BusyStates, SameLocal, SameTask, SameRcpts, SameFlags

LEMMA Rejects ==
  ASSUME DelivererTypeOK, NEW w \in Workers, NEW r, RejectLocal(w, r)
  PROVE  /\ Handled(w, r) /\ worker'[w].pc = "localrow"
         /\ SameFlags(worker[w], worker'[w])
         /\ worker'[w].errs = worker[w].errs \cup ({r} \ Silent)
         /\ closed' = Add(closed, worker[w].id, {r} \cap Silent)
<1>1. worker[w] \in BusyStates /\ worker[w].pc = "local" /\ r \in worker[w].rcpts /\ r \in LocalRcpts
  BY HandlingType, Zenon DEF RejectLocal
<1> DEFINE next(b) == [worker[w] EXCEPT !.pc = "localrow", !.cur = {r}, !.shared = b]
<1>2. PICK b \in {worker[w].shared, HardLinks} : LocalFailure(w, r, next(b))
  BY Zenon DEF RejectLocal, Template
<1>3. next(b) \in BusyStates
  BY <1>1, DelivererAssumption, Zenon DEF BusyStates, Steps, Rcpts
<1>4. /\ next(b).pc = "localrow" /\ next(b).cur = {r} /\ next(b).errs = worker[w].errs
      /\ SameLocal(worker[w], next(b)) /\ SameFlags(worker[w], next(b))
  BY <1>1, Zenon DEF BusyStates, SameLocal, SameTask, SameRcpts, SameFlags
<1> HIDE DEF next
<1>5. /\ Others(w) /\ worker'[w].pc = next(b).pc /\ SameLocal(next(b), worker'[w])
      /\ SameFlags(next(b), worker'[w]) /\ worker'[w].cur = next(b).cur
      /\ worker'[w].errs = next(b).errs \cup ({r} \ Silent)
      /\ closed' = Add(closed, worker[w].id, {r} \cap Silent)
  BY <1>2, <1>3, Fails1, Zenon
<1> QED BY <1>1, <1>4, <1>5, Zenon DEF Handled, SameLocal, SameTask, SameRcpts, SameFlags

\* The copy is in the mailbox, or the sender is told.
LEMMA Copies ==
  ASSUME DelivererTypeOK, NEW w \in Workers, NEW r, CopyToAccount(w, r)
  PROVE  /\ Handled(w, r) /\ worker'[w].pc = "localrow"
         /\ SameFlags(worker[w], worker'[w])
         /\ rcpt' \in {rcpt, Add(rcpt, worker[w].id, {r})}
         /\ \/ /\ worker'[w].errs = worker[w].errs /\ Reach(worker[w].id, {r})
               /\ Works /\ UNCHANGED closed
            \/ /\ worker'[w].errs = worker[w].errs \cup ({r} \ Silent) /\ NoReach
               /\ closed' = Add(closed, worker[w].id, {r} \cap Silent)
               /\ Fails \/ (file[worker[w].id] # "queue" /\ UNCHANGED faults)
<1>1. worker[w] \in BusyStates /\ worker[w].pc = "local" /\ r \in worker[w].rcpts /\ r \in LocalRcpts
  BY HandlingType, Zenon DEF CopyToAccount
<1> DEFINE next(b) == [worker[w] EXCEPT !.pc = "localrow", !.cur = {r}, !.shared = b]
<1>2. PICK b \in {worker[w].shared, HardLinks} :
        /\ rcpt' \in {rcpt, Add(rcpt, worker[w].id, {r})}
        /\ \/ /\ Continue(w, next(b)) /\ Reach(worker[w].id, {r})
              /\ Works /\ UNCHANGED closed
           \/ /\ LocalFailure(w, r, next(b)) /\ NoReach
              /\ Fails \/ (file[worker[w].id] # "queue" /\ UNCHANGED faults)
  BY Zenon DEF CopyToAccount, Template
<1>3. next(b) \in BusyStates
  BY <1>1, DelivererAssumption, Zenon DEF BusyStates, Steps, Rcpts
<1>4. /\ next(b).pc = "localrow" /\ next(b).cur = {r} /\ next(b).errs = worker[w].errs
      /\ SameLocal(worker[w], next(b)) /\ SameFlags(worker[w], next(b))
  BY <1>1, Zenon DEF BusyStates, SameLocal, SameTask, SameRcpts, SameFlags
<1> HIDE DEF next
<1>5. CASE Continue(w, next(b)) /\ Reach(worker[w].id, {r}) /\ Works /\ UNCHANGED closed
  <2>1. worker'[w] = next(b) /\ Others(w)
    BY <1>5, Continues, Zenon
  <2> QED BY <1>1, <1>2, <1>4, <1>5, <2>1, Zenon DEF Handled, SameFlags
<1>6. CASE LocalFailure(w, r, next(b)) /\ NoReach
           /\ (Fails \/ (file[worker[w].id] # "queue" /\ UNCHANGED faults))
  <2>1. /\ Others(w) /\ worker'[w].pc = next(b).pc /\ SameLocal(next(b), worker'[w])
        /\ SameFlags(next(b), worker'[w]) /\ worker'[w].cur = next(b).cur
        /\ worker'[w].errs = next(b).errs \cup ({r} \ Silent)
        /\ closed' = Add(closed, worker[w].id, {r} \cap Silent)
    BY <1>3, <1>6, Fails1, Zenon
  <2> QED BY <1>1, <1>2, <1>4, <1>6, <2>1, Zenon DEF Handled, SameLocal, SameTask, SameRcpts, SameFlags
<1> QED BY <1>2, <1>5, <1>6, Zenon

\* The file of the last recipient's message is moved, or the sender is told.
LEMMA Reuses ==
  ASSUME DelivererTypeOK, NEW w \in Workers, NEW r, ReuseMessage(w, r)
  PROVE  /\ Handled(w, r) /\ worker[w].rcpts = {r}
         /\ worker'[w].reused /\ worker'[w].owner = "user"
         /\ \/ /\ worker'[w].pc = "save" /\ worker'[w].errs = worker[w].errs
               /\ file[worker[w].id] = "queue" /\ file' = MoveFileToUserFolder(worker[w].id)
               /\ Works /\ UNCHANGED closed
            \/ /\ worker'[w].pc = "localrow"
               /\ worker'[w].errs = worker[w].errs \cup ({r} \ Silent)
               /\ closed' = Add(closed, worker[w].id, {r} \cap Silent)
               /\ Fails \/ (file[worker[w].id] # "queue" /\ UNCHANGED faults)
               /\ UNCHANGED file
<1>1. worker[w] \in BusyStates /\ worker[w].pc = "local" /\ r \in worker[w].rcpts /\ r \in LocalRcpts
  BY HandlingType, Zenon DEF ReuseMessage
<1>2. worker[w].rcpts = {r}
  BY Zenon DEF ReuseMessage, LastRecipient
<1> DEFINE next(pc) == [worker[w] EXCEPT !.pc = pc, !.cur = {r}, !.reused = TRUE, !.owner = "user"]
<1>3. next("localrow") \in BusyStates
  BY <1>1, Zenon DEF BusyStates, Steps, Rcpts, Owners
<1>4. \A pc : /\ next(pc).pc = pc /\ next(pc).cur = {r} /\ next(pc).errs = worker[w].errs
              /\ SameLocal(worker[w], next(pc)) /\ next(pc).reused /\ next(pc).owner = "user"
              /\ next(pc).saved = worker[w].saved /\ next(pc).counted = worker[w].counted
  BY <1>1, Zenon DEF BusyStates, SameLocal, SameTask, SameRcpts
<1>5. \/ /\ Continue(w, next("save"))
         /\ file[worker[w].id] = "queue" /\ file' = MoveFileToUserFolder(worker[w].id)
         /\ Works /\ UNCHANGED closed
      \/ /\ LocalFailure(w, r, next("localrow"))
         /\ Fails \/ (file[worker[w].id] # "queue" /\ UNCHANGED faults)
         /\ UNCHANGED file
  BY Zenon DEF ReuseMessage
<1> HIDE DEF next
<1>6. CASE /\ Continue(w, next("save"))
           /\ file[worker[w].id] = "queue" /\ file' = MoveFileToUserFolder(worker[w].id)
           /\ Works /\ UNCHANGED closed
  <2>1. worker'[w] = next("save") /\ Others(w)
    BY <1>6, Continues, Zenon
  <2> QED BY <1>1, <1>2, <1>4, <1>6, <2>1 DEF Handled
<1>7. CASE /\ LocalFailure(w, r, next("localrow"))
           /\ Fails \/ (file[worker[w].id] # "queue" /\ UNCHANGED faults)
           /\ UNCHANGED file
  <2>1. /\ Others(w) /\ worker'[w].pc = next("localrow").pc /\ SameLocal(next("localrow"), worker'[w])
        /\ SameFlags(next("localrow"), worker'[w]) /\ worker'[w].cur = next("localrow").cur
        /\ worker'[w].errs = next("localrow").errs \cup ({r} \ Silent)
        /\ closed' = Add(closed, worker[w].id, {r} \cap Silent)
    BY <1>3, <1>7, Fails1, Zenon
  <2>2. /\ Handled(w, r) /\ worker'[w].reused /\ worker'[w].owner = "user"
        /\ worker'[w].pc = "localrow" /\ worker'[w].errs = worker[w].errs \cup ({r} \ Silent)
    BY <1>1, <1>4, <2>1, Zenon DEF Handled, SameLocal, SameTask, SameRcpts, SameFlags
  <2> QED BY <1>2, <1>7, <2>1, <2>2, Zenon
<1> QED BY <1>5, <1>6, <1>7, Zenon

\* The object is given back and its file deleted; the recipient is dropped or
\* the sender is told.
LEMMA DropsReused ==
  ASSUME DelivererTypeOK, NEW w \in Workers, DropReused(w)
  PROVE  /\ worker[w] \in BusyStates /\ Others(w) /\ worker[w].pc = "save"
         /\ worker'[w].pc = "localrow" /\ SameLocal(worker[w], worker'[w])
         /\ worker'[w].cur = worker[w].cur /\ worker'[w].saved = worker[w].saved
         /\ ~worker'[w].reused /\ worker'[w].owner = "none"
         /\ \/ /\ worker'[w].errs = worker[w].errs
               /\ closed' = Add(closed, worker[w].id, worker[w].cur)
            \/ \E r \in worker[w].cur :
                 /\ worker'[w].errs = worker[w].errs \cup ({r} \ Silent)
                 /\ closed' = Add(closed, worker[w].id, {r} \cap Silent)
<1> DEFINE next == GiveBack(w)
<1>1. worker[w] \in BusyStates /\ worker[w].pc = "save"
  BY Occupied, Zenon DEF DropReused, At
<1>2. next \in BusyStates
  BY <1>1, Zenon DEF BusyStates, Steps, Owners, GiveBack
<1>3. /\ next.pc = "localrow" /\ next.cur = worker[w].cur /\ next.errs = worker[w].errs
      /\ SameLocal(worker[w], next) /\ next.saved = worker[w].saved
      /\ ~next.reused /\ next.owner = "none"
  BY <1>1, Zenon DEF BusyStates, GiveBack, SameLocal, SameTask, SameRcpts
<1>4. \/ Continue(w, next) /\ closed' = Add(closed, worker[w].id, worker[w].cur)
      \/ \E r \in worker[w].cur : LocalFailure(w, r, next)
  BY Zenon DEF DropReused
<1> HIDE DEF next
<1>5. CASE Continue(w, next) /\ closed' = Add(closed, worker[w].id, worker[w].cur)
  <2>1. worker'[w] = next /\ Others(w)
    BY <1>5, Continues, Zenon
  <2> QED BY <1>1, <1>3, <1>5, <2>1, Zenon
<1>6. CASE \E r \in worker[w].cur : LocalFailure(w, r, next)
  <2>1. PICK r \in worker[w].cur : LocalFailure(w, r, next)
    BY <1>6, Zenon
  <2>2. /\ Others(w) /\ worker'[w].pc = next.pc /\ SameLocal(next, worker'[w])
        /\ SameFlags(next, worker'[w]) /\ worker'[w].cur = next.cur
        /\ worker'[w].errs = next.errs \cup ({r} \ Silent)
        /\ closed' = Add(closed, worker[w].id, {r} \cap Silent)
    BY <1>2, <2>1, Fails1, Zenon
  <2> QED BY <1>1, <1>3, <2>2, Zenon DEF SameLocal, SameTask, SameRcpts, SameFlags
<1> QED BY <1>4, <1>5, <1>6, Zenon

\* The row becomes the mailbox's and the recipient has the message, or the
\* object is given back, its file deleted and the sender told.
LEMMA SavesReused ==
  ASSUME DelivererTypeOK, NEW w \in Workers, SaveReused(w)
  PROVE  /\ worker[w] \in BusyStates /\ Others(w) /\ worker[w].pc = "save"
         /\ worker'[w].pc = "localrow" /\ SameLocal(worker[w], worker'[w])
         /\ worker'[w].cur = worker[w].cur /\ worker'[w].saved
         /\ \/ /\ worker'[w].errs = worker[w].errs /\ Reach(worker[w].id, worker[w].cur)
               /\ worker'[w].reused = worker[w].reused /\ worker'[w].owner = worker[w].owner
               /\ Works /\ row' = SaveDelivered(worker[w].id) /\ UNCHANGED <<file, closed>>
            \/ /\ Fails /\ NoReach /\ UNCHANGED row
               /\ ~worker'[w].reused /\ worker'[w].owner = "none"
               /\ file' = [file EXCEPT ![worker[w].id] = "none"]
               /\ \E r \in worker[w].cur :
                    /\ worker'[w].errs = worker[w].errs \cup ({r} \ Silent)
                    /\ closed' = Add(closed, worker[w].id, {r} \cap Silent)
<1> DEFINE next == [GiveBack(w) EXCEPT !.saved = TRUE]
<1> DEFINE kept == [worker[w] EXCEPT !.pc = "localrow", !.saved = TRUE]
<1>1. worker[w] \in BusyStates /\ worker[w].pc = "save"
  BY Occupied, Zenon DEF SaveReused, At
<1>2. GiveBack(w) \in BusyStates /\ next \in BusyStates
  BY <1>1, Zenon DEF BusyStates, Steps, Owners, GiveBack
<1>3. /\ GiveBack(w).pc = "localrow" /\ GiveBack(w).cur = worker[w].cur
      /\ GiveBack(w).errs = worker[w].errs
      /\ SameLocal(worker[w], GiveBack(w)) /\ ~GiveBack(w).reused /\ GiveBack(w).owner = "none"
  BY <1>1, Zenon DEF BusyStates, GiveBack, SameLocal, SameTask, SameRcpts
<1>4. /\ next.pc = "localrow" /\ next.cur = worker[w].cur /\ next.errs = worker[w].errs
      /\ SameLocal(worker[w], next) /\ next.saved
      /\ ~next.reused /\ next.owner = "none"
  BY <1>2, <1>3, Zenon DEF BusyStates, SameLocal, SameTask, SameRcpts
<1>5. /\ kept.pc = "localrow" /\ kept.cur = worker[w].cur /\ kept.errs = worker[w].errs
      /\ SameLocal(worker[w], kept) /\ kept.saved
      /\ kept.reused = worker[w].reused /\ kept.owner = worker[w].owner
  BY <1>1, Zenon DEF BusyStates, SameLocal, SameTask, SameRcpts
<1>6. \/ /\ Continue(w, kept) /\ Reach(worker[w].id, worker[w].cur)
         /\ Works /\ row' = SaveDelivered(worker[w].id) /\ UNCHANGED <<file, closed>>
      \/ /\ \E r \in worker[w].cur : LocalFailure(w, r, next)
         /\ Fails /\ NoReach /\ UNCHANGED row
         /\ file' = [file EXCEPT ![worker[w].id] = "none"]
  BY Zenon DEF SaveReused
<1> HIDE DEF next, kept
<1>7. CASE /\ Continue(w, kept) /\ Reach(worker[w].id, worker[w].cur)
           /\ Works /\ row' = SaveDelivered(worker[w].id) /\ UNCHANGED <<file, closed>>
  <2>1. worker'[w] = kept /\ Others(w)
    BY <1>7, Continues, Zenon
  <2> QED BY <1>1, <1>5, <1>7, <2>1, Zenon
<1>8. CASE /\ \E r \in worker[w].cur : LocalFailure(w, r, next)
           /\ Fails /\ NoReach /\ UNCHANGED row
           /\ file' = [file EXCEPT ![worker[w].id] = "none"]
  <2>1. PICK r \in worker[w].cur : LocalFailure(w, r, next)
    BY <1>8, Zenon
  <2>2. /\ Others(w) /\ worker'[w].pc = next.pc /\ SameLocal(next, worker'[w])
        /\ SameFlags(next, worker'[w]) /\ worker'[w].cur = next.cur
        /\ worker'[w].errs = next.errs \cup ({r} \ Silent)
        /\ closed' = Add(closed, worker[w].id, {r} \cap Silent)
    BY <1>2, <2>1, Fails1, Zenon
  <2> QED BY <1>1, <1>4, <1>8, <2>2, Zenon DEF SameLocal, SameTask, SameRcpts, SameFlags
<1> QED BY <1>6, <1>7, <1>8, Zenon

LEMMA DeletesLocal ==
  ASSUME DelivererTypeOK, NEW w \in Workers, DeleteLocalRecipient(w)
  PROVE  /\ worker[w] \in BusyStates /\ Others(w) /\ worker[w].pc = "localrow"
         /\ worker'[w].pc = "local" /\ SameTask(worker[w], worker'[w])
         /\ SameFlags(worker[w], worker'[w]) /\ worker'[w].errs = worker[w].errs
         /\ worker'[w].cur = {} /\ worker'[w].rcpts = worker[w].rcpts \ worker[w].cur
         /\ worker'[w].soft = worker[w].soft /\ worker'[w].fatal = worker[w].fatal
         /\ worker'[w].ok = worker[w].ok
<1>1. worker[w] \in BusyStates /\ worker[w].pc = "localrow"
  BY Occupied, Zenon DEF DeleteLocalRecipient, At
<1>2. /\ worker'[w] = [worker[w] EXCEPT !.pc = "local", !.cur = {}, !.rcpts = @ \ worker[w].cur]
      /\ Others(w)
  BY Continues, Zenon DEF DeleteLocalRecipient
<1> QED BY <1>1, <1>2 DEF BusyStates, SameTask, SameFlags

LEMMA Batches ==
  ASSUME DelivererTypeOK, NEW w \in Workers, DeliverBatch(w)
  PROVE  /\ worker[w] \in BusyStates /\ Others(w) /\ worker[w].pc = "external"
         /\ worker'[w].pc = "collect" /\ SameTask(worker[w], worker'[w])
         /\ SameFlags(worker[w], worker'[w])
         /\ worker'[w].errs = worker[w].errs /\ worker'[w].cur = worker[w].cur
         /\ worker'[w].rcpts \cup worker'[w].ok \cup worker'[w].fatal \cup worker'[w].soft =
              worker[w].rcpts \cup worker[w].soft
         /\ worker[w].soft \subseteq worker'[w].soft
         /\ worker'[w].rcpts \cup worker'[w].ok \subseteq worker[w].rcpts
         /\ worker'[w].ok \cap worker'[w].rcpts = {}
         /\ worker'[w].soft \cap (worker'[w].ok \cup worker'[w].rcpts) \subseteq worker[w].soft
         /\ Reach(worker[w].id, worker'[w].ok)
<1>1. worker[w] \in BusyStates /\ worker[w].pc = "external"
  BY Occupied, Zenon DEF DeliverBatch, At
<1>2. PICK batch \in SUBSET worker[w].rcpts, ok \in SUBSET worker[w].rcpts,
           fatal \in SUBSET worker[w].rcpts :
        /\ ok \cup fatal \subseteq batch
        /\ Continue(w, [worker[w] EXCEPT !.pc = "collect", !.rcpts = @ \ batch,
                                        !.ok = ok, !.fatal = fatal,
                                        !.soft = @ \cup (batch \ (ok \cup fatal))])
        /\ Reach(worker[w].id, ok)
  BY Zenon DEF DeliverBatch
<1>3. /\ worker'[w] = [worker[w] EXCEPT !.pc = "collect", !.rcpts = @ \ batch,
                                        !.ok = ok, !.fatal = fatal,
                                        !.soft = @ \cup (batch \ (ok \cup fatal))]
      /\ Others(w)
  BY <1>2, Continues, Zenon
<1>4. /\ worker'[w].pc = "collect" /\ SameTask(worker[w], worker'[w])
      /\ SameFlags(worker[w], worker'[w])
      /\ worker'[w].errs = worker[w].errs /\ worker'[w].cur = worker[w].cur
      /\ worker'[w].rcpts = worker[w].rcpts \ batch
      /\ worker'[w].ok = ok /\ worker'[w].fatal = fatal
      /\ worker'[w].soft = worker[w].soft \cup (batch \ (ok \cup fatal))
  BY <1>1, <1>3 DEF BusyStates, SameTask, SameFlags
<1> QED BY <1>1, <1>2, <1>3, <1>4, Zenon

LEMMA Collects ==
  ASSUME DelivererTypeOK, NEW w \in Workers, CollectDeliveryResult(w)
  PROVE  /\ worker[w] \in BusyStates /\ Others(w) /\ worker[w].pc = "collect"
         /\ worker'[w].pc = "collect" /\ SameTask(worker[w], worker'[w])
         /\ SameFlags(worker[w], worker'[w])
         /\ worker'[w].cur = worker[w].cur
         /\ worker'[w].rcpts = worker[w].rcpts /\ worker'[w].soft = worker[w].soft
         /\ \E r \in worker[w].ok \cup worker[w].fatal :
              /\ worker'[w].ok = worker[w].ok \ {r} /\ worker'[w].fatal = worker[w].fatal \ {r}
              /\ worker'[w].errs = worker[w].errs \cup (({r} \cap worker[w].fatal) \ Silent)
              /\ closed' = Add(closed, worker[w].id, {r} \cap worker[w].fatal \cap Silent)
              /\ \/ Works /\ rcpt' = DeleteRecipient(worker[w].id, r)
                 \/ Fails /\ UNCHANGED rcpt
<1>1. worker[w] \in BusyStates /\ worker[w].pc = "collect"
  BY Occupied, Zenon DEF CollectDeliveryResult, At
<1>2. PICK r \in worker[w].ok \cup worker[w].fatal :
        /\ Continue(w, [worker[w] EXCEPT !.ok = @ \ {r}, !.fatal = @ \ {r},
                                        !.errs = @ \cup (({r} \cap worker[w].fatal) \ Silent)])
        /\ closed' = Add(closed, worker[w].id, {r} \cap worker[w].fatal \cap Silent)
        /\ \/ Works /\ rcpt' = DeleteRecipient(worker[w].id, r)
           \/ Fails /\ UNCHANGED rcpt
  BY Zenon DEF CollectDeliveryResult
<1>3. /\ worker'[w] = [worker[w] EXCEPT !.ok = @ \ {r}, !.fatal = @ \ {r},
                                        !.errs = @ \cup (({r} \cap worker[w].fatal) \ Silent)]
      /\ Others(w)
  BY <1>2, Continues, Zenon
<1>4. /\ worker'[w].pc = "collect" /\ SameTask(worker[w], worker'[w])
      /\ SameFlags(worker[w], worker'[w])
      /\ worker'[w].cur = worker[w].cur
      /\ worker'[w].rcpts = worker[w].rcpts /\ worker'[w].soft = worker[w].soft
      /\ worker'[w].ok = worker[w].ok \ {r} /\ worker'[w].fatal = worker[w].fatal \ {r}
      /\ worker'[w].errs = worker[w].errs \cup (({r} \cap worker[w].fatal) \ Silent)
  BY <1>1, <1>3 DEF BusyStates, SameTask, SameFlags
<1> QED BY <1>1, <1>2, <1>3, <1>4, Zenon

LEMMA UnlocksRescheduled ==
  ASSUME DelivererTypeOK, NEW w \in Workers, UnlockRescheduled(w)
  PROVE  /\ worker[w] \in BusyStates /\ Others(w) /\ worker[w].pc = "unlock"
         /\ worker'[w].pc = "bounce" /\ worker'[w].kept /\ worker'[w].id = worker[w].id
         /\ SameRcpts(worker[w], worker'[w]) /\ SameFlags(worker[w], worker'[w])
         /\ worker'[w].cur = worker[w].cur /\ worker'[w].errs = worker[w].errs
<1>1. worker[w] \in BusyStates /\ worker[w].pc = "unlock"
  BY Occupied, Zenon DEF UnlockRescheduled, At
<1>2. worker'[w] = [worker[w] EXCEPT !.pc = "bounce", !.kept = TRUE] /\ Others(w)
  BY Continues, Zenon DEF UnlockRescheduled
<1> QED BY <1>1, <1>2, Zenon DEF BusyStates, SameRcpts, SameFlags

LEMMA GivesUp ==
  ASSUME DelivererTypeOK, NEW w \in Workers, GiveUp(w)
  PROVE  /\ worker[w] \in BusyStates /\ Others(w) /\ worker[w].pc = "reschedule"
         /\ worker'[w].pc = "bounce" /\ SameLocal(worker[w], worker'[w])
         /\ SameFlags(worker[w], worker'[w]) /\ worker'[w].cur = worker[w].cur
         /\ worker'[w].errs = worker[w].errs \cup (worker[w].soft \ Silent)
<1>1. worker[w] \in BusyStates /\ worker[w].pc = "reschedule"
  BY Occupied, Zenon DEF GiveUp, At
<1>2. worker'[w] = [worker[w] EXCEPT !.pc = "bounce", !.errs = @ \cup (worker[w].soft \ Silent)]
      /\ Others(w)
  BY Continues, Zenon DEF GiveUp
<1> QED BY <1>1, <1>2, Zenon DEF BusyStates, SameLocal, SameTask, SameRcpts, SameFlags

\* The report is out or cannot be saved; the task ends or the row is next.
LEMMA Submits ==
  ASSUME DelivererTypeOK, NEW w \in Workers, SubmitErrorLog(w)
  PROVE  /\ worker[w] \in BusyStates /\ Others(w) /\ worker[w].pc \in {"bounce", "refuse"}
         /\ \/ closed' = Add(closed, worker[w].id, worker[w].errs) /\ UNCHANGED cut /\ Works
            \/ cut' = Add(cut, worker[w].id, worker[w].errs) /\ UNCHANGED closed /\ Fails
         /\ \/ /\ worker'[w] = Idle /\ worker[w].pc = "bounce"
               /\ worker[w].reused \/ worker[w].kept \/ worker[w].owner # "none"
            \/ /\ worker[w].pc = "bounce" =>
                    ~worker[w].reused /\ ~worker[w].kept /\ worker[w].owner = "none"
               /\ worker'[w].pc = "delrow" /\ worker'[w].errs = {}
               /\ SameLocal(worker[w], worker'[w]) /\ SameFlags(worker[w], worker'[w])
               /\ worker'[w].cur = worker[w].cur
<1>1. worker[w] \in BusyStates /\ worker[w].pc \in {"bounce", "refuse"}
  BY Occupied, Zenon DEF SubmitErrorLog, At
<1>2. \/ closed' = Add(closed, worker[w].id, worker[w].errs) /\ UNCHANGED cut /\ Works
      \/ cut' = Add(cut, worker[w].id, worker[w].errs) /\ UNCHANGED closed /\ Fails
  BY Zenon DEF SubmitErrorLog
<1>3. CASE At(w, "bounce") /\ (worker[w].reused \/ worker[w].kept \/ worker[w].owner # "none")
  <2>1. worker'[w] = Idle /\ Others(w)
    BY <1>3, Finishes, Zenon DEF SubmitErrorLog
  <2> QED BY <1>1, <1>2, <1>3, <2>1, Zenon DEF At
<1>4. CASE ~(At(w, "bounce") /\ (worker[w].reused \/ worker[w].kept \/ worker[w].owner # "none"))
  <2>1. worker'[w] = [worker[w] EXCEPT !.pc = "delrow", !.errs = {}] /\ Others(w)
    BY <1>4, Continues, Zenon DEF SubmitErrorLog
  <2>2. /\ worker'[w].pc = "delrow" /\ worker'[w].errs = {}
        /\ SameLocal(worker[w], worker'[w]) /\ SameFlags(worker[w], worker'[w])
        /\ worker'[w].cur = worker[w].cur
    BY <1>1, <2>1 DEF BusyStates, SameLocal, SameTask, SameRcpts, SameFlags
  <2> QED BY <1>1, <1>2, <1>4, <2>1, <2>2, Zenon DEF At
<1> QED BY <1>3, <1>4, Zenon

\* Whoever delivers, or is interrupted, has a task.
LEMMA DeliverBusy ==
  ASSUME DelivererTypeOK, NEW w \in Workers, Deliver(w) \/ Interrupt(w)
  PROVE  worker[w] \in BusyStates
<1>1. SUFFICES worker[w] # Idle
  BY Zenon DEF DelivererTypeOK
<1>2. Idle.pc = "idle" /\ ~Idle.hit
  BY Zenon DEF Idle
<1>3. CASE Interrupt(w)
  BY <1>2, <1>3, Zenon DEF Interrupt
<1>4. CASE CheckMessage(w) \/ PreprocessMessage(w) \/ AbortDelivery(w) \/ DeferDelivery(w)
  BY <1>2, <1>4, Zenon DEF CheckMessage, PreprocessMessage, AbortDelivery, DeferDelivery, At
<1>5. CASE HoldUnscannable(w) \/ UnlockHeld(w) \/ RefuseUnscannable(w)
  BY <1>2, <1>5, Zenon DEF HoldUnscannable, UnlockHeld, RefuseUnscannable, At
<1>6. CASE \E r \in LocalRcpts :
             DropLocal(w, r) \/ RejectLocal(w, r) \/ CopyToAccount(w, r) \/ ReuseMessage(w, r)
  BY <1>2, <1>6, Zenon DEF DropLocal, RejectLocal, CopyToAccount, ReuseMessage, Handling, At
<1>7. CASE DropReused(w) \/ SaveReused(w) \/ DeleteLocalRecipient(w) \/ LocalDone(w)
  BY <1>2, <1>7, Zenon DEF DropReused, SaveReused, DeleteLocalRecipient, LocalDone, At
<1>8. CASE DeliverBatch(w) \/ CollectDeliveryResult(w) \/ Collected(w) \/ HoldForEtrn(w)
  BY <1>2, <1>8, Zenon DEF DeliverBatch, CollectDeliveryResult, Collected, HoldForEtrn, At
<1>9. CASE RescheduleDelivery(w) \/ UnlockRescheduled(w) \/ GiveUp(w) \/ SubmitErrorLog(w)
  BY <1>2, <1>9, Zenon DEF RescheduleDelivery, UnlockRescheduled, GiveUp, SubmitErrorLog, At
<1>10. CASE DeleteQueueRow(w) \/ DeleteQueueRecipients(w) \/ DeleteDataFile(w)
  BY <1>2, <1>10, Zenon DEF DeleteQueueRow, DeleteQueueRecipients, DeleteDataFile, At
<1> QED BY <1>3, <1>4, <1>5, <1>6, <1>7, <1>8, <1>9, <1>10, Zenon DEF Deliver

\* Stopping the queue marks the threads and changes nothing else about them.
LEMMA Stops ==
  ASSUME DelivererTypeOK, StopQueue, NEW w \in Workers
  PROVE  worker'[w].pc = worker[w].pc /\ Same(worker[w], worker'[w])
<1> USE DEF Same, SameLocal, SameTask, SameRcpts, SameFlags
<1>1. CASE At(w, "idle")
  BY <1>1, Zenon DEF StopQueue
<1>2. CASE ~At(w, "idle")
  <2>1. worker[w] \in BusyStates
    BY <1>2, Occupied, Zenon
  <2>2. worker'[w] = [worker[w] EXCEPT !.hit = TRUE]
    BY <1>2, Zenon DEF StopQueue
  <2> QED BY <2>1, <2>2, Zenon DEF BusyStates
<1> QED BY <1>1, <1>2, Zenon

-----------------------------------------------------------------------------
(* The invariant *)

\* r has its answer, or a thread is about to give it.
Done(m, r) ==
  \/ r \in Settled(m)
  \/ \E w \in Workers : worker[w].id = m /\ r \in InHand(w)

\* Who is not done is in the store and is one of S.
Cover(m, S) == \A r \in envelope[m] : Done(m, r) \/ (Stored(m, r) /\ r \in S)

\* The message was saved to the end and no administrator deleted it.
Live(m) == recv[m] \in {"saved", "unlocked", "accepted"} /\ m \notin purged

\* The steps at which a thread no longer counts on the store.
Final == {"save", "bounce", "refuse", "delrow", "delrcpt", "delfile"}

\* Whom thread w has yet to deal with.
Hold(w) ==
  IF worker[w].pc \in Final THEN {}
  ELSE worker[w].rcpts \cup worker[w].soft \cup worker[w].fatal

\* What the locals of DeliverMessage are at each step of a delivery of m.
Locals(w, m) ==
  LET x == worker[w] IN
  /\ x.pc = "localrow" => \A r \in x.cur : Done(m, r)
  /\ x.pc = "collect" => \A r \in x.ok : Done(m, r)
  /\ x.pc \in {"check", "preprocess", "unscannable", "holdunlock", "local", "localrow", "save"} =>
       x.soft = {} /\ x.fatal = {}
  /\ x.pc \in {"check", "preprocess", "unscannable", "holdunlock", "delrow", "delrcpt", "delfile"} =>
       x.errs = {}
  /\ x.pc \in {"localrow", "save"} => \E r : x.cur = {r}
  /\ x.pc \in {"external", "reschedule", "unlock"} => x.fatal = {}
  /\ x.pc \in {"reschedule", "unlock"} => x.rcpts = {}

WorkerMail(w, m) ==
  worker[w].id = m =>
    /\ Locals(w, m)
    /\ ~worker[w].kept /\ Live(m) => Cover(m, Hold(w))

MailInv ==
  /\ \A m \in Msgs : Live(m) => Cover(m, Rcpts)
  /\ \A m \in Msgs : recv[m] = "inserted" /\ m \notin purged => Queued(m) /\ file[m] = "queue"
  /\ \A t \in posted : Live(t.id) => Cover(t.id, t.rcpts)
  /\ mgr.pc \in {"lock", "post"} /\ Live(mgr.obj.id) => Cover(mgr.obj.id, mgr.obj.rcpts)
  /\ \A w \in Workers, m \in Msgs : WorkerMail(w, m)
  /\ \A d \in {"clear", "remove"} :
       deleter[d].pc \in {"delrcpt", "delfile"} => deleter[d].id \in purged

\* A cover survives a step that undoes nothing and keeps what it relied on.
LEMMA CoverGrows ==
  ASSUME NEW m \in Msgs, NEW S, NEW T, Cover(m, S), envelope'[m] = envelope[m],
         \A r : Done(m, r) => Done(m, r)',
         \A r \in S : Stored(m, r) => Done(m, r)' \/ (Stored(m, r)' /\ r \in T)
  PROVE  Cover(m, T)'
BY Zenon DEF Cover

\* The step of thread w touches only its message and takes no answer back.
Own(w) ==
  /\ Others(w)
  /\ \A n \in Msgs : n # worker[w].id =>
       rcpt'[n] = rcpt[n] /\ file'[n] = file[n] /\ row'[n] = row[n]
  /\ \A n \in Msgs : \A r : Done(n, r) => Done(n, r)'
  /\ UNCHANGED <<recv, envelope, purged, deleter, mgr>>

\* What a step of a thread that touches only its own message leaves true of the
\* other messages and of the other threads.
LEMMA OwnStep ==
  ASSUME IInv, MailInv, NEW w \in Workers, Own(w)
  PROVE  /\ \A n \in Msgs : \A S : n # worker[w].id /\ Cover(n, S) => Cover(n, S)'
         /\ \A n \in Msgs : Live(n)' <=> Live(n)
         /\ \A v \in Workers, n \in Msgs : v # w /\ worker[v].id = n => Locals(v, n)'
<1>1. ASSUME NEW n \in Msgs, NEW S, n # worker[w].id, Cover(n, S)
      PROVE  Cover(n, S)'
  <2>1. \A r : Stored(n, r)' <=> Stored(n, r)
    BY <1>1, Zenon DEF Own, Stored, Queued
  <2> QED BY <1>1, <2>1, CoverGrows, Zenon DEF Own
<1>2. \A n \in Msgs : Live(n)' <=> Live(n)
  BY Zenon DEF Own, Live
<1>3. ASSUME NEW v \in Workers, NEW n \in Msgs, v # w, worker[v].id = n
      PROVE  Locals(v, n)'
  <2>1. Locals(v, n) /\ worker'[v] = worker[v]
    BY <1>3, Zenon DEF MailInv, WorkerMail, Own, Others
  <2>2. \A r : Done(n, r) => Done(n, r)'
    BY Zenon DEF Own
  <2> QED BY <2>1, <2>2, Zenon DEF Locals
<1> QED BY <1>1, <1>2, <1>3, Zenon

\* A thread that delivers its message goes on, or ends, and whom it relied on in
\* the store is done now or is there still and, if the thread goes on, held.
LEMMA DeliveringStep ==
  ASSUME IInv, MailInv, NEW w \in Workers, worker[w] \in BusyStates, ~worker[w].kept, Own(w),
         NEW m \in Msgs, m = worker[w].id,
         posted' = posted,
         worker'[w] = Idle \/ (worker'[w].id = m /\ Locals(w, m)'),
         \A r \in Hold(w) : Stored(m, r) =>
           \/ Done(m, r)'
           \/ /\ Stored(m, r)'
              /\ worker'[w] # Idle /\ ~worker'[w].kept => r \in Hold(w)'
  PROVE  MailInv'
<1>1. Delivering(w, m)
  <2>1. worker[w].pc # "idle"
    BY Zenon DEF BusyStates, Steps
  <2> QED BY <2>1, Zenon DEF BusyStates, Delivering, At
<1>2. InWorker(m) /\ ~InQueue(m) /\ ~InManager(m)
  BY <1>1, Zenon DEF InWorker, IInv, OneDeliverer
<1>3. \A n \in Msgs : recv[n] = "inserted" => n # m
  BY <1>2, Zenon DEF IInv, LockInv
<1>4. Live(m) => Cover(m, Hold(w))
  BY <1>1, Zenon DEF MailInv, WorkerMail
<1>5. /\ \A n \in Msgs : \A S : n # m /\ Cover(n, S) => Cover(n, S)'
      /\ \A n \in Msgs : Live(n)' <=> Live(n)
      /\ \A v \in Workers, n \in Msgs : v # w /\ worker[v].id = n => Locals(v, n)'
  BY OwnStep, Zenon
<1>6. Live(m) => Cover(m, Rcpts)'
  <2>1. envelope[m] \subseteq Rcpts
    BY <1>1, Zenon DEF IInv, TypeOK
  <2>2. SUFFICES ASSUME Live(m), NEW r \in envelope'[m]
                 PROVE  Done(m, r)' \/ Stored(m, r)'
    BY <2>1, <1>1, Zenon DEF Cover, Own
  <2>3. r \in envelope[m]
    BY Zenon DEF Own
  <2>4. Done(m, r) \/ (Stored(m, r) /\ r \in Hold(w))
    BY <1>4, <2>2, <2>3, Zenon DEF Cover
  <2> QED BY <1>1, <2>4, Zenon DEF Own
<1>7. \A n \in Msgs : Live(n)' => Cover(n, Rcpts)'
  BY <1>5, <1>6, Zenon DEF MailInv
<1>8. \A n \in Msgs : (recv[n] = "inserted" /\ n \notin purged)' => (Queued(n) /\ file[n] = "queue")'
  BY <1>3, Zenon DEF MailInv, Own, Queued
<1>9. \A t \in posted' : Live(t.id)' => Cover(t.id, t.rcpts)'
  <2>1. \A t \in posted : t.id \in Msgs /\ t.id # m
    BY <1>2, Zenon DEF InQueue, IInv, TypeOK, DelivererTypeOK, Tasks
  <2> QED BY <1>5, <2>1, Zenon DEF MailInv
<1>10. (mgr.pc \in {"lock", "post"} /\ Live(mgr.obj.id) => Cover(mgr.obj.id, mgr.obj.rcpts))'
  <2>1. mgr.pc \in {"lock", "post"} => mgr.obj.id \in Msgs /\ mgr.obj.id # m
    BY <1>2, Zenon DEF InManager, IInv, TypeOK, Tasks
  <2>2. mgr' = mgr
    BY Zenon DEF Own
  <2> QED BY <1>5, <2>1, <2>2, Zenon DEF MailInv
<1>11. ASSUME NEW v \in Workers, NEW n \in Msgs
       PROVE  WorkerMail(v, n)'
  <2>1. CASE v # w
    <3>1. worker'[v] = worker[v]
      BY <2>1, Zenon DEF Own, Others
    <3>2. worker[v].id = n /\ ~worker[v].kept => n # m
      <4>1. worker[v].id = n => ~At(v, "idle")
        BY HasId, Zenon DEF IInv, TypeOK
      <4> QED BY <1>1, <2>1, <4>1, Zenon DEF IInv, OneDeliverer, Delivering
    <3>3. Hold(v)' = Hold(v)
      BY <3>1, Zenon DEF Hold
    <3>4. SUFFICES ASSUME worker[v].id = n, ~worker[v].kept, Live(n) PROVE Cover(n, Hold(v))'
      BY <1>5, <2>1, <3>1, Zenon DEF WorkerMail
    <3> QED BY <1>5, <3>2, <3>3, <3>4, Zenon DEF WorkerMail, MailInv
  <2>2. CASE v = w
    <3>1. CASE worker'[w] = Idle
      BY <2>2, <3>1, NoId, Zenon DEF WorkerMail
    <3>2. CASE worker'[w] # Idle
      <4>1. worker'[w].id = m /\ Locals(w, m)'
        BY <3>2, Zenon
      <4>2. ASSUME ~worker'[w].kept, Live(m) PROVE Cover(m, Hold(w))'
        <5>1. envelope'[m] = envelope[m]
          BY Zenon DEF Own
        <5> QED BY <1>4, <3>2, <4>2, <5>1, CoverGrows, Zenon DEF Own
      <4> QED BY <1>5, <2>2, <4>1, <4>2, Zenon DEF WorkerMail
    <3> QED BY <3>1, <3>2, Zenon
  <2> QED BY <2>1, <2>2, Zenon
<1>12. (\A d \in {"clear", "remove"} :
          deleter[d].pc \in {"delrcpt", "delfile"} => deleter[d].id \in purged)'
  BY Zenon DEF MailInv, Own
<1> QED BY <1>7, <1>8, <1>9, <1>10, <1>11, <1>12, Zenon DEF MailInv

\* A thread that ends and leaves the store as it is.
LEMMA EndingStep ==
  ASSUME IInv, MailInv, NEW w \in Workers, Own(w),
         UNCHANGED <<posted, row, rcpt, file>>, worker'[w] = Idle
  PROVE  MailInv'
<1>1. \A n \in Msgs : \A S : Cover(n, S) => Cover(n, S)'
  <2>1. \A n \in Msgs : \A r : Stored(n, r)' <=> Stored(n, r)
    BY Zenon DEF Stored, Queued
  <2> QED BY <2>1, CoverGrows, Zenon DEF Own
<1>2. /\ \A n \in Msgs : Live(n)' <=> Live(n)
      /\ \A v \in Workers, n \in Msgs : v # w /\ worker[v].id = n => Locals(v, n)'
  BY OwnStep, Zenon
<1>3. \A n \in Msgs : Live(n)' => Cover(n, Rcpts)'
  BY <1>1, <1>2, Zenon DEF MailInv
<1>4. \A n \in Msgs : (recv[n] = "inserted" /\ n \notin purged)' => (Queued(n) /\ file[n] = "queue")'
  BY Zenon DEF MailInv, Own, Queued
<1>5. \A t \in posted' : Live(t.id)' => Cover(t.id, t.rcpts)'
  <2>1. \A t \in posted : t.id \in Msgs
    BY Zenon DEF IInv, TypeOK, DelivererTypeOK, Tasks
  <2> QED BY <1>1, <1>2, <2>1, Zenon DEF MailInv
<1>6. (mgr.pc \in {"lock", "post"} /\ Live(mgr.obj.id) => Cover(mgr.obj.id, mgr.obj.rcpts))'
  <2>1. mgr.pc \in {"lock", "post"} => mgr.obj.id \in Msgs
    BY Zenon DEF IInv, TypeOK, Tasks
  <2>2. mgr' = mgr
    BY Zenon DEF Own
  <2> QED BY <1>1, <1>2, <2>1, <2>2, Zenon DEF MailInv
<1>7. ASSUME NEW v \in Workers, NEW n \in Msgs
      PROVE  WorkerMail(v, n)'
  <2>1. CASE v # w
    <3>1. worker'[v] = worker[v]
      BY <2>1, Zenon DEF Own, Others
    <3>2. Hold(v)' = Hold(v)
      BY <3>1, Zenon DEF Hold
    <3>3. SUFFICES ASSUME worker[v].id = n, ~worker[v].kept, Live(n) PROVE Cover(n, Hold(v))'
      BY <1>2, <2>1, <3>1, Zenon DEF WorkerMail
    <3> QED BY <1>1, <3>2, <3>3, Zenon DEF WorkerMail, MailInv
  <2>2. CASE v = w
    BY <2>2, NoId, Zenon DEF WorkerMail
  <2> QED BY <2>1, <2>2, Zenon
<1>8. (\A d \in {"clear", "remove"} :
         deleter[d].pc \in {"delrcpt", "delfile"} => deleter[d].id \in purged)'
  BY Zenon DEF MailInv, Own
<1> QED BY <1>3, <1>4, <1>5, <1>6, <1>7, <1>8, Zenon DEF MailInv

\* No answer is taken back when the answers given only grow in number and the
\* thread that moves gives, or keeps, those it has in hand.
LEMMA DoneGrows ==
  ASSUME NEW w \in Workers, Others(w),
         \A n \in Msgs : Settled(n) \subseteq Settled(n)',
         \A n \in Msgs : worker[w].id = n => \A r \in InHand(w) : Done(n, r)'
  PROVE  \A n \in Msgs : \A r : Done(n, r) => Done(n, r)'
<1> SUFFICES ASSUME NEW n \in Msgs, NEW r, Done(n, r) PROVE Done(n, r)'
  OBVIOUS
<1>1. CASE r \in Settled(n)
  BY <1>1, Zenon DEF Done
<1>2. CASE \E v \in Workers : worker[v].id = n /\ r \in InHand(v)
  <2>1. PICK v \in Workers : worker[v].id = n /\ r \in InHand(v)
    BY <1>2, Zenon
  <2>2. CASE v = w
    BY <2>1, <2>2, Zenon
  <2>3. CASE v # w
    <3>1. worker'[v].id = n /\ (r \in InHand(v))'
      BY <2>1, <2>3, Zenon DEF Others, InHand, At
    <3> QED BY <3>1, Zenon DEF Done
  <2> QED BY <2>2, <2>3, Zenon
<1> QED BY <1>1, <1>2, Zenon DEF Done

\* What is added to a history stays.
LEMMA AddGrows ==
  ASSUME NEW f \in [Msgs -> SUBSET Rcpts], NEW m \in Msgs, NEW S
  PROVE  /\ \A n \in Msgs : f[n] \subseteq Add(f, m, S)[n]
         /\ S \subseteq Add(f, m, S)[m]
BY Zenon DEF Add

\* Nothing the world has seen is taken back.
Grows ==
  \A n \in Msgs :
    reached[n] \subseteq reached'[n] /\ closed[n] \subseteq closed'[n] /\ cut[n] \subseteq cut'[n]

LEMMA HistoryGrows ==
  ASSUME DelivererTypeOK, NEW m \in Msgs, NEW S, NEW T, NEW U,
         reached' = reached \/ reached' = Add(reached, m, S),
         closed' = closed \/ closed' = Add(closed, m, T),
         cut' = cut \/ cut' = Add(cut, m, U)
  PROVE  Grows
<1>1. \A n \in Msgs : reached[n] \subseteq reached'[n]
  BY AddGrows, Tables, Zenon
<1>2. \A n \in Msgs : closed[n] \subseteq closed'[n]
  BY AddGrows, Tables, Zenon
<1>3. \A n \in Msgs : cut[n] \subseteq cut'[n]
  BY AddGrows, Tables, Zenon
<1> QED BY <1>1, <1>2, <1>3, Zenon DEF Grows

\* Where the answer to r may be after the step of thread w on message m.
LEMMA DoneNow ==
  ASSUME NEW w \in Workers, NEW m \in Msgs, NEW r,
         \/ r \in reached'[m] \/ r \in closed'[m] \/ r \in cut'[m]
         \/ worker'[w].id = m /\ r \in worker'[w].errs
         \/ worker'[w].id = m /\ worker'[w].pc = "save" /\ r \in worker'[w].cur
  PROVE  Done(m, r)'
BY Zenon DEF Done, Settled, InHand, At

\* The rest of the server does not move.
Rest == UNCHANGED <<recv, envelope, purged, deleter, mgr>>

LEMMA OwnWork ==
  ASSUME NEW w \in Workers, NEW m \in Msgs, m = worker[w].id, Others(w), Rest, Grows,
         \A n \in Msgs : n # m => rcpt'[n] = rcpt[n] /\ file'[n] = file[n] /\ row'[n] = row[n],
         \A r \in InHand(w) : Done(m, r)'
  PROVE  Own(w)
<1>1. \A n \in Msgs : Settled(n) \subseteq Settled(n)'
  BY Zenon DEF Grows, Settled
<1>2. \A n \in Msgs : \A r : Done(n, r) => Done(n, r)'
  BY <1>1, DoneGrows, Zenon
<1> QED BY <1>2, Zenon DEF Own, Rest

\* A step of a delivering thread that leaves the store alone.
LEMMA StoreKept ==
  ASSUME IInv, MailInv, NEW w \in Workers, NEW m \in Msgs, m = worker[w].id, worker'[w].id = m,
         worker[w] \in BusyStates, ~worker[w].kept, Others(w), Rest, Grows,
         UNCHANGED <<row, rcpt, file, posted>>,
         \A r \in InHand(w) : Done(m, r)',
         Locals(w, m)',
         \A r \in Hold(w) : Done(m, r)' \/ worker'[w].kept \/ r \in Hold(w)'
  PROVE  MailInv'
<1>1. Own(w)
  BY OwnWork, Zenon
<1>2. \A r : Stored(m, r) => Stored(m, r)'
  BY Zenon DEF Stored, Queued
<1> QED BY <1>1, <1>2, DeliveringStep, Zenon

\* Every step of a delivery thread preserves MailInv, one lemma per step.
LEMMA CheckMail ==
  ASSUME IInv, MailInv, DelivererTypeOK, NEW w \in Workers, NEW m \in Msgs, m = worker[w].id,
         worker[w] \in BusyStates, ~worker[w].kept, Locals(w, m), Rest, CheckMessage(w)
  PROVE  MailInv'
<1>1. At(w, "check")
  BY Zenon DEF CheckMessage
<1>2. /\ Others(w) /\ Same(worker[w], worker'[w])
      /\ worker'[w].pc = IF file[m] = "queue" /\ worker[w].rcpts # {} THEN "preprocess" ELSE "delrow"
  BY <1>1, Sent, Zenon DEF CheckMessage, At
<1>3. UNCHANGED <<row, rcpt, file, posted, history>>
  BY Zenon DEF CheckMessage, queueVars
<1>4. Grows
  BY <1>3, Zenon DEF Grows, history
<1>5. InHand(w) = {}
  BY <1>1, Zenon DEF InHand, At, Locals
<1>6. Locals(w, m)'
  BY <1>1, <1>2, Zenon DEF Locals, At, Same, SameLocal, SameTask, SameRcpts
<1>7. Own(w)
  BY <1>2, <1>3, <1>4, <1>5, OwnWork, Zenon
<1>8. \A r \in Hold(w) : Stored(m, r) => Stored(m, r)' /\ r \in Hold(w)'
  BY <1>1, <1>2, <1>3, Zenon DEF Hold, Final, Locals, At, Stored, Queued, Same, SameLocal, SameTask, SameRcpts
<1> QED BY <1>2, <1>3, <1>6, <1>7, <1>8, DeliveringStep, Zenon DEF Same, SameLocal, SameTask

LEMMA PreprocessMail ==
  ASSUME IInv, MailInv, DelivererTypeOK, NEW w \in Workers, NEW m \in Msgs, m = worker[w].id,
         worker[w] \in BusyStates, ~worker[w].kept, Locals(w, m), Rest, PreprocessMessage(w)
  PROVE  MailInv'
<1>1. At(w, "preprocess")
  BY Zenon DEF PreprocessMessage
<1>2. Others(w) /\ Same(worker[w], worker'[w]) /\ worker'[w].pc = "local"
  BY <1>1, Sent, Zenon DEF PreprocessMessage, At
<1>3. UNCHANGED <<row, rcpt, file, posted, reached, closed, cut>>
  BY Zenon DEF PreprocessMessage, queueVars
<1>4. Grows
  BY <1>3, Zenon DEF Grows
<1>5. InHand(w) = {}
  BY <1>1, Zenon DEF InHand, At, Locals
<1>6. Locals(w, m)'
  BY <1>1, <1>2, Zenon DEF Locals, At, Same, SameLocal, SameTask, SameRcpts
<1>7. Hold(w) = Hold(w)'
  BY <1>1, <1>2, Zenon DEF Hold, Final, At, Same, SameLocal, SameRcpts
<1> QED BY <1>2, <1>3, <1>4, <1>5, <1>6, <1>7, StoreKept, Zenon DEF Same, SameLocal, SameTask

\* Who is given up is answered.
LEMMA AbortMail ==
  ASSUME IInv, MailInv, DelivererTypeOK, NEW w \in Workers, NEW m \in Msgs, m = worker[w].id,
         worker[w] \in BusyStates, ~worker[w].kept, Locals(w, m), Rest, AbortDelivery(w)
  PROVE  MailInv'
<1>1. At(w, "preprocess")
  BY Zenon DEF AbortDelivery
<1>2. Others(w) /\ Same(worker[w], worker'[w]) /\ worker'[w].pc = "delrow"
  BY <1>1, Sent, Zenon DEF AbortDelivery, At
<1>3. UNCHANGED <<row, rcpt, file, posted, reached, cut>> /\ closed' = Add(closed, m, worker[w].rcpts)
  BY Zenon DEF AbortDelivery, queueVars
<1>4. Grows
  BY <1>3, HistoryGrows, Zenon
<1>5. InHand(w) = {}
  BY <1>1, Zenon DEF InHand, At, Locals
<1>6. Locals(w, m)'
  BY <1>1, <1>2, Zenon DEF Locals, At, Same
<1>7. worker[w].rcpts \subseteq closed'[m]
  BY <1>3, AddGrows, Tables, Zenon
<1>8. \A r \in Hold(w) : Done(m, r)'
  BY <1>1, <1>7, DoneNow, Zenon DEF Hold, Final, Locals, At
<1> QED BY <1>2, <1>3, <1>4, <1>5, <1>6, <1>8, StoreKept, Zenon DEF Same, SameLocal, SameTask

LEMMA DeferMail ==
  ASSUME IInv, MailInv, DelivererTypeOK, NEW w \in Workers, NEW m \in Msgs, m = worker[w].id,
         worker[w] \in BusyStates, ~worker[w].kept, Locals(w, m), Rest, DeferDelivery(w)
  PROVE  MailInv'
<1>1. /\ worker[w].pc = "preprocess" /\ Others(w) /\ worker'[w].pc = "unscannable"
      /\ SameLocal(worker[w], worker'[w]) /\ worker'[w].errs = worker[w].errs
  BY Defers, Zenon
<1>2. UNCHANGED <<row, rcpt, file, posted, reached, closed, cut>>
  BY Zenon DEF DeferDelivery, queueVars, history
<1>3. Grows
  BY <1>2, Zenon DEF Grows
<1>4. InHand(w) = {}
  BY <1>1, Zenon DEF InHand, At, Locals
<1>5. Locals(w, m)'
  BY <1>1, Zenon DEF Locals, SameLocal, SameTask, SameRcpts
<1>6. Hold(w) = Hold(w)'
  BY <1>1, Zenon DEF Hold, Final, SameLocal, SameRcpts
<1> QED BY <1>1, <1>2, <1>3, <1>4, <1>5, <1>6, StoreKept, Zenon DEF SameLocal, SameTask

\* The statements that put a message off change its row alone and leave it queued.
LEMMA RowStays ==
  ASSUME StoreTypeOK, NEW m \in Msgs, NEW b \in BOOLEAN, NEW d \in BOOLEAN,
         row' \in {row, SetNextTryTime(m, b, d), UnlockObject(m), HoldForRoute(m)}
  PROVE  /\ \A n \in Msgs : n # m => row'[n] = row[n]
         /\ Queued(m) => row'[m].type \in {"delivering", "held"}
<1> USE DEF StoreTypeOK, Rows, Update, Exists, Queued
<1>1. CASE row' = row
  BY <1>1, Zenon
<1>2. CASE row' = SetNextTryTime(m, b, d)
  BY <1>2 DEF SetNextTryTime
<1>3. CASE row' = UnlockObject(m)
  BY <1>3 DEF UnlockObject
<1>4. CASE row' = HoldForRoute(m)
  BY <1>4 DEF HoldForRoute
<1> QED BY <1>1, <1>2, <1>3, <1>4, Zenon

\* A step that writes the row and leaves the message queued.
LEMMA RowWritten ==
  ASSUME IInv, MailInv, NEW w \in Workers, NEW m \in Msgs, m = worker[w].id,
         worker[w] \in BusyStates, ~worker[w].kept, Others(w), Rest, Grows,
         UNCHANGED <<rcpt, file, posted>>,
         NEW b \in BOOLEAN, NEW d \in BOOLEAN,
         row' \in {row, SetNextTryTime(m, b, d), UnlockObject(m), HoldForRoute(m)},
         \A r \in InHand(w) : Done(m, r)',
         worker'[w] = Idle \/ (worker'[w].id = m /\ Locals(w, m)'),
         \A r \in Hold(w) : worker'[w] = Idle \/ worker'[w].kept \/ r \in Hold(w)'
  PROVE  MailInv'
<1>1. StoreTypeOK
  BY Zenon DEF IInv, TypeOK, DelivererTypeOK
<1>2. /\ \A n \in Msgs : n # m => row'[n] = row[n]
      /\ Queued(m) => row'[m].type \in {"delivering", "held"}
  BY <1>1, RowStays, Zenon
<1>3. Own(w)
  BY <1>2, OwnWork, Zenon
<1>4. \A r : Stored(m, r) => Stored(m, r)'
  BY <1>2, Zenon DEF Stored, Queued
<1> QED BY <1>3, <1>4, DeliveringStep, Zenon

LEMMA HoldMail ==
  ASSUME IInv, MailInv, DelivererTypeOK, NEW w \in Workers, NEW m \in Msgs, m = worker[w].id,
         worker[w] \in BusyStates, ~worker[w].kept, Locals(w, m), Rest, HoldUnscannable(w)
  PROVE  MailInv'
<1>1. At(w, "unscannable")
  BY Zenon DEF HoldUnscannable
<1>2. Others(w) /\ Same(worker[w], worker'[w]) /\ worker'[w].pc = "holdunlock"
  BY <1>1, Sent, Zenon DEF HoldUnscannable, At
<1>3. UNCHANGED <<rcpt, file, posted, reached, closed, cut>>
      /\ row' \in {row, SetNextTryTime(m, FALSE, FALSE)}
  BY Zenon DEF HoldUnscannable, queueVars, history, WriteRow
<1>4. Grows
  BY <1>3, Zenon DEF Grows
<1>5. InHand(w) = {}
  BY <1>1, Zenon DEF InHand, At, Locals
<1>6. Locals(w, m)'
  BY <1>1, <1>2, Zenon DEF Locals, At, Same, SameLocal, SameTask, SameRcpts
<1>7. Hold(w) = Hold(w)'
  BY <1>1, <1>2, Zenon DEF Hold, Final, At, Same, SameLocal, SameRcpts
<1> QED BY <1>2, <1>3, <1>4, <1>5, <1>6, <1>7, RowWritten, Zenon DEF Same, SameLocal, SameTask

LEMMA UnlockHeldMail ==
  ASSUME IInv, MailInv, DelivererTypeOK, NEW w \in Workers, NEW m \in Msgs, m = worker[w].id,
         worker[w] \in BusyStates, ~worker[w].kept, Locals(w, m), Rest, UnlockHeld(w)
  PROVE  MailInv'
<1>1. At(w, "holdunlock")
  BY Zenon DEF UnlockHeld
<1>2. Others(w) /\ worker'[w] = Idle
  BY Finishes, Zenon DEF UnlockHeld
<1>3. UNCHANGED <<rcpt, file, posted, reached, closed, cut>> /\ row' \in {row, UnlockObject(m)}
  BY Zenon DEF UnlockHeld, queueVars, history, WriteRow
<1>4. Grows
  BY <1>3, Zenon DEF Grows
<1>5. InHand(w) = {}
  BY <1>1, Zenon DEF InHand, At, Locals
<1> QED BY <1>2, <1>3, <1>4, <1>5, RowWritten, Zenon

LEMMA RefuseMail ==
  ASSUME IInv, MailInv, DelivererTypeOK, NEW w \in Workers, NEW m \in Msgs, m = worker[w].id,
         worker[w] \in BusyStates, ~worker[w].kept, Locals(w, m), Rest, RefuseUnscannable(w)
  PROVE  MailInv'
<1>1. /\ worker[w].pc = "unscannable" /\ Others(w) /\ worker'[w].pc = "refuse"
      /\ SameLocal(worker[w], worker'[w]) /\ worker'[w].errs = worker[w].rcpts
  BY Refuses, Zenon
<1>2. worker'[w].id = m
  BY <1>1, Zenon DEF SameLocal, SameTask
<1>3. UNCHANGED <<row, rcpt, file, posted, reached, closed, cut>>
  BY Zenon DEF RefuseUnscannable, queueVars, history
<1>4. Grows
  BY <1>3, Zenon DEF Grows
<1>5. InHand(w) = {}
  BY <1>1, Zenon DEF InHand, At, Locals
<1>6. Locals(w, m)'
  BY <1>1, Zenon DEF Locals
<1>7. \A r \in worker[w].rcpts : Done(m, r)'
  BY <1>1, <1>2, DoneNow, Zenon
<1>8. Hold(w) = worker[w].rcpts
  BY <1>1, Zenon DEF Hold, Final, Locals
<1> QED BY <1>1, <1>2, <1>3, <1>4, <1>5, <1>6, <1>7, <1>8, StoreKept, Zenon

\* A local recipient has been handled: it has its answer.
LEMMA HandledMail ==
  ASSUME IInv, MailInv, NEW w \in Workers, NEW m \in Msgs, m = worker[w].id,
         worker[w] \in BusyStates, ~worker[w].kept, Locals(w, m), Rest, NEW r,
         Handled(w, r), Grows, worker'[w].pc \in {"localrow", "save"}, worker[w].errs \subseteq worker'[w].errs,
         Done(m, r)', UNCHANGED <<row, posted>>,
         \A n \in Msgs : n # m => rcpt'[n] = rcpt[n] /\ file'[n] = file[n],
         rcpt[m] \subseteq rcpt'[m],
         IF worker'[w].pc = "save" THEN worker[w].rcpts = {r} ELSE file'[m] = file[m]
  PROVE  MailInv'
<1>1. worker'[w].id = m /\ worker[w].pc = "local"
  BY Zenon DEF Handled, At, SameLocal, SameTask
<1>2. InHand(w) = worker[w].errs
  BY <1>1, Zenon DEF InHand, At
<1>3. \A s \in InHand(w) : Done(m, s)'
  BY <1>1, <1>2, DoneNow, Zenon
<1>4. Own(w)
  BY <1>3, OwnWork, Zenon DEF Handled
<1>5. Locals(w, m)'
  BY <1>1, Zenon DEF Locals, Handled, SameLocal, SameTask, SameRcpts
<1>6. ASSUME NEW s \in Hold(w), Stored(m, s)
      PROVE  Done(m, s)' \/ (Stored(m, s)' /\ s \in Hold(w)')
  <2>1. CASE worker'[w].pc = "save"
    BY <1>1, <1>6, <2>1, Zenon DEF Hold, Final, Locals
  <2>2. CASE worker'[w].pc = "localrow"
    BY <1>1, <1>6, <2>2, Zenon DEF Hold, Final, Stored, Queued, Handled, SameLocal, SameRcpts
  <2> QED BY <2>1, <2>2, Zenon
<1> QED BY <1>1, <1>4, <1>5, <1>6, DeliveringStep, Zenon

LEMMA DropMail ==
  ASSUME IInv, MailInv, DelivererTypeOK, NEW w \in Workers, NEW m \in Msgs, m = worker[w].id,
         worker[w] \in BusyStates, ~worker[w].kept, Locals(w, m), Rest, NEW r, DropLocal(w, r)
  PROVE  MailInv'
<1>1. Handled(w, r) /\ worker'[w].pc = "localrow" /\ worker'[w].errs = worker[w].errs
  BY Drops, Zenon
<1>2. UNCHANGED <<row, rcpt, file, posted, reached, cut>> /\ closed' = Add(closed, m, {r})
  BY Zenon DEF DropLocal, queueVars
<1>3. Grows
  BY <1>2, HistoryGrows, Zenon
<1>4. Done(m, r)'
  BY <1>2, AddGrows, DoneNow, Tables
<1> QED BY <1>1, <1>2, <1>3, <1>4, HandledMail, Zenon

\* A local failure is reported to the sender, or the recipient declined that.
LEMMA FailureDone ==
  ASSUME DelivererTypeOK, NEW w \in Workers, NEW m \in Msgs, NEW r, NEW errs, worker'[w].id = m,
         worker'[w].errs = errs \cup ({r} \ Silent), closed' = Add(closed, m, {r} \cap Silent)
  PROVE  Done(m, r)'
<1>1. {r} \cap Silent \subseteq closed'[m]
  BY AddGrows, Tables, Zenon
<1>2. r \in worker'[w].errs \/ r \in closed'[m]
  BY <1>1, Zenon
<1> QED BY <1>2, DoneNow, Zenon

LEMMA RejectMail ==
  ASSUME IInv, MailInv, DelivererTypeOK, NEW w \in Workers, NEW m \in Msgs, m = worker[w].id,
         worker[w] \in BusyStates, ~worker[w].kept, Locals(w, m), Rest, NEW r, RejectLocal(w, r)
  PROVE  MailInv'
<1>1. /\ Handled(w, r) /\ worker'[w].pc = "localrow"
      /\ worker'[w].errs = worker[w].errs \cup ({r} \ Silent)
      /\ closed' = Add(closed, m, {r} \cap Silent)
  BY Rejects, Zenon
<1>2. UNCHANGED <<row, rcpt, file, posted, reached, cut>>
  BY Zenon DEF RejectLocal, queueVars
<1>3. Grows
  BY <1>1, <1>2, HistoryGrows, Zenon
<1>4. worker'[w].id = m
  BY <1>1, Zenon DEF Handled, SameLocal, SameTask
<1>5. Done(m, r)'
  BY <1>1, <1>4, FailureDone, Zenon
<1> QED BY <1>1, <1>2, <1>3, <1>5, HandledMail, Zenon

LEMMA CopyMail ==
  ASSUME IInv, MailInv, DelivererTypeOK, NEW w \in Workers, NEW m \in Msgs, m = worker[w].id,
         worker[w] \in BusyStates, ~worker[w].kept, Locals(w, m), Rest, NEW r, CopyToAccount(w, r)
  PROVE  MailInv'
<1>1. /\ Handled(w, r) /\ worker'[w].pc = "localrow"
      /\ rcpt' \in {rcpt, Add(rcpt, m, {r})}
      /\ \/ worker'[w].errs = worker[w].errs /\ Reach(m, {r}) /\ UNCHANGED closed
         \/ /\ worker'[w].errs = worker[w].errs \cup ({r} \ Silent) /\ NoReach
            /\ closed' = Add(closed, m, {r} \cap Silent)
  BY Copies, Zenon
<1>2. UNCHANGED <<row, file, posted, cut>>
  BY Zenon DEF CopyToAccount, queueVars
<1>3. Grows
  <2>1. reached' = reached \/ reached' = Add(reached, m, {r})
    BY <1>1, Zenon DEF Reach, NoReach
  <2>2. closed' = closed \/ closed' = Add(closed, m, {r} \cap Silent)
    BY <1>1, Zenon
  <2> QED BY <1>2, <2>1, <2>2, HistoryGrows, Zenon
<1>4. worker'[w].id = m
  BY <1>1, Zenon DEF Handled, SameLocal, SameTask
<1>5. Done(m, r)'
  <2>1. CASE Reach(m, {r})
    <3>1. r \in reached'[m]
      BY <2>1, AddGrows, Tables, Zenon DEF Reach
    <3> QED BY <3>1, DoneNow, Zenon
  <2>2. CASE /\ worker'[w].errs = worker[w].errs \cup ({r} \ Silent)
             /\ closed' = Add(closed, m, {r} \cap Silent)
    BY <1>4, <2>2, FailureDone, Zenon
  <2> QED BY <1>1, <2>1, <2>2, Zenon
<1>6. rcpt[m] \subseteq rcpt'[m] /\ \A n \in Msgs : n # m => rcpt'[n] = rcpt[n]
  BY <1>1, Tables DEF Add
<1> QED BY <1>1, <1>2, <1>3, <1>5, <1>6, HandledMail, Zenon

LEMMA ReuseMail ==
  ASSUME IInv, MailInv, DelivererTypeOK, NEW w \in Workers, NEW m \in Msgs, m = worker[w].id,
         worker[w] \in BusyStates, ~worker[w].kept, Locals(w, m), Rest, NEW r, ReuseMessage(w, r)
  PROVE  MailInv'
<1>1. /\ Handled(w, r) /\ worker[w].rcpts = {r}
      /\ \/ /\ worker'[w].pc = "save" /\ worker'[w].errs = worker[w].errs
            /\ file' = MoveFileToUserFolder(m) /\ UNCHANGED closed
         \/ /\ worker'[w].pc = "localrow" /\ UNCHANGED file
            /\ worker'[w].errs = worker[w].errs \cup ({r} \ Silent)
            /\ closed' = Add(closed, m, {r} \cap Silent)
  BY Reuses, Zenon
<1>2. UNCHANGED <<row, rcpt, posted, reached, cut>>
  BY Zenon DEF ReuseMessage, queueVars
<1>3. Grows
  BY <1>1, <1>2, HistoryGrows, Zenon
<1>4. worker'[w].id = m /\ worker'[w].cur = {r}
  BY <1>1, Zenon DEF Handled, SameLocal, SameTask
<1>5. Done(m, r)'
  <2>1. CASE worker'[w].pc = "save"
    BY <1>4, <2>1, DoneNow, Zenon
  <2>2. CASE worker'[w].pc = "localrow"
    BY <1>1, <1>4, <2>2, FailureDone, Zenon
  <2> QED BY <1>1, <2>1, <2>2, Zenon
<1>6. \A n \in Msgs : n # m => file'[n] = file[n]
  BY <1>1, Tables, Zenon DEF MoveFileToUserFolder
<1> QED BY <1>1, <1>2, <1>3, <1>5, <1>6, HandledMail, Zenon

\* The thread had the moved message in hand: its recipient has an answer now.
LEMMA GivenBackMail ==
  ASSUME IInv, MailInv, NEW w \in Workers, NEW m \in Msgs, m = worker[w].id,
         worker[w] \in BusyStates, ~worker[w].kept, Locals(w, m), Rest, Others(w), worker[w].pc = "save", worker'[w].pc = "localrow",
         SameLocal(worker[w], worker'[w]), worker'[w].cur = worker[w].cur,
         worker[w].errs \subseteq worker'[w].errs, Grows,
         \A r \in worker[w].cur : Done(m, r)', UNCHANGED <<rcpt, posted>>,
         \A n \in Msgs : n # m => row'[n] = row[n] /\ file'[n] = file[n]
  PROVE  MailInv'
<1>1. worker'[w].id = m
  BY Zenon DEF SameLocal, SameTask
<1>2. \A r \in InHand(w) : Done(m, r)'
  <2>1. \A r \in worker[w].errs : Done(m, r)'
    BY <1>1, DoneNow, Zenon
  <2> QED BY <2>1, Zenon DEF InHand, At
<1>3. Own(w)
  BY <1>2, OwnWork, Zenon
<1>4. Locals(w, m)'
  BY Zenon DEF Locals, SameLocal, SameTask, SameRcpts
<1>5. Hold(w) = {}
  BY Zenon DEF Hold, Final
<1> QED BY <1>1, <1>3, <1>4, <1>5, DeliveringStep, Zenon

LEMMA DropReusedMail ==
  ASSUME IInv, MailInv, DelivererTypeOK, NEW w \in Workers, NEW m \in Msgs, m = worker[w].id,
         worker[w] \in BusyStates, ~worker[w].kept, Locals(w, m), Rest, DropReused(w)
  PROVE  MailInv'
<1>1. /\ worker[w] \in BusyStates /\ Others(w) /\ worker[w].pc = "save"
      /\ worker'[w].pc = "localrow" /\ SameLocal(worker[w], worker'[w])
      /\ worker'[w].cur = worker[w].cur
      /\ \/ /\ worker'[w].errs = worker[w].errs
            /\ closed' = Add(closed, m, worker[w].cur)
         \/ \E r \in worker[w].cur :
              /\ worker'[w].errs = worker[w].errs \cup ({r} \ Silent)
              /\ closed' = Add(closed, m, {r} \cap Silent)
  BY DropsReused, Zenon
<1>2. UNCHANGED <<row, rcpt, posted, reached, cut>> /\ file' = [file EXCEPT ![m] = "none"]
  BY Zenon DEF DropReused, queueVars
<1>3. Grows
  BY <1>1, <1>2, HistoryGrows, Zenon
<1>4. worker'[w].id = m /\ worker[w].errs \subseteq worker'[w].errs
  BY <1>1, Zenon DEF SameLocal, SameTask
<1>5. PICK r : worker[w].cur = {r}
  BY <1>1, Zenon DEF MailInv, WorkerMail, Locals
<1>6. Done(m, r)'
  <2>1. CASE closed' = Add(closed, m, worker[w].cur)
    <3>1. closed \in [Msgs -> SUBSET Rcpts]
      BY Tables, Zenon
    <3>2. worker[w].cur \subseteq closed'[m]
      BY <2>1, <3>1, AddGrows, Zenon
    <3> QED BY <1>5, <3>2, DoneNow, Zenon
  <2>2. CASE /\ worker'[w].errs = worker[w].errs \cup ({r} \ Silent)
             /\ closed' = Add(closed, m, {r} \cap Silent)
    BY <1>4, <2>2, FailureDone, Zenon
  <2> QED BY <1>1, <1>5, <2>1, <2>2, Zenon
<1>7. \A n \in Msgs : n # m => row'[n] = row[n] /\ file'[n] = file[n]
  BY <1>2
<1> QED BY <1>1, <1>2, <1>3, <1>4, <1>5, <1>6, <1>7, GivenBackMail, Zenon

LEMMA SaveReusedMail ==
  ASSUME IInv, MailInv, DelivererTypeOK, NEW w \in Workers, NEW m \in Msgs, m = worker[w].id,
         worker[w] \in BusyStates, ~worker[w].kept, Locals(w, m), Rest, SaveReused(w)
  PROVE  MailInv'
<1>1. /\ worker[w] \in BusyStates /\ Others(w) /\ worker[w].pc = "save"
      /\ worker'[w].pc = "localrow" /\ SameLocal(worker[w], worker'[w])
      /\ worker'[w].cur = worker[w].cur
      /\ \/ /\ worker'[w].errs = worker[w].errs /\ Reach(m, worker[w].cur)
            /\ row' = SaveDelivered(m) /\ UNCHANGED <<file, closed>>
         \/ /\ NoReach /\ UNCHANGED row
            /\ file' = [file EXCEPT ![m] = "none"]
            /\ \E r \in worker[w].cur :
                 /\ worker'[w].errs = worker[w].errs \cup ({r} \ Silent)
                 /\ closed' = Add(closed, m, {r} \cap Silent)
  BY SavesReused, Zenon
<1>2. UNCHANGED <<rcpt, posted, cut>>
  BY Zenon DEF SaveReused, queueVars
<1>3. Grows
  <2>1. reached' = reached \/ reached' = Add(reached, m, worker[w].cur)
    BY <1>1, Zenon DEF Reach, NoReach
  <2> QED BY <1>1, <1>2, <2>1, HistoryGrows
<1>4. worker'[w].id = m /\ worker[w].errs \subseteq worker'[w].errs
  BY <1>1, Zenon DEF SameLocal, SameTask
<1>5. PICK r : worker[w].cur = {r}
  BY <1>1, Zenon DEF MailInv, WorkerMail, Locals
<1>6. Done(m, r)'
  <2>1. CASE Reach(m, worker[w].cur)
    <3>1. reached \in [Msgs -> SUBSET Rcpts] /\ reached' = Add(reached, m, worker[w].cur)
      BY <2>1, Tables, Zenon DEF Reach
    <3>2. worker[w].cur \subseteq reached'[m]
      BY <3>1, AddGrows, Zenon
    <3> QED BY <1>5, <3>2, DoneNow, Zenon
  <2>2. CASE /\ worker'[w].errs = worker[w].errs \cup ({r} \ Silent)
             /\ closed' = Add(closed, m, {r} \cap Silent)
    BY <1>4, <2>2, FailureDone, Zenon
  <2> QED BY <1>1, <1>5, <2>1, <2>2, Zenon
<1>7. \A n \in Msgs : n # m => row'[n] = row[n] /\ file'[n] = file[n]
  BY <1>1, Tables, Zenon DEF SaveDelivered, Update
<1> QED BY <1>1, <1>2, <1>3, <1>4, <1>5, <1>6, <1>7, GivenBackMail, Zenon

LEMMA DeleteLocalMail ==
  ASSUME IInv, MailInv, DelivererTypeOK, NEW w \in Workers, NEW m \in Msgs, m = worker[w].id,
         worker[w] \in BusyStates, ~worker[w].kept, Locals(w, m), Rest, DeleteLocalRecipient(w)
  PROVE  MailInv'
<1>1. /\ worker[w] \in BusyStates /\ Others(w) /\ worker[w].pc = "localrow"
      /\ worker'[w].pc = "local" /\ SameTask(worker[w], worker'[w])
      /\ worker'[w].errs = worker[w].errs
      /\ worker'[w].cur = {} /\ worker'[w].rcpts = worker[w].rcpts \ worker[w].cur
      /\ worker'[w].soft = worker[w].soft /\ worker'[w].fatal = worker[w].fatal
  BY DeletesLocal, Zenon
<1>2. worker'[w].id = m
  BY <1>1, Zenon DEF SameTask
<1>3. UNCHANGED <<row, file, posted, reached, closed, cut>>
  BY Zenon DEF DeleteLocalRecipient, queueVars, history
<1>4. Grows
  BY <1>3, Zenon DEF Grows
<1>5. PICK r \in worker[w].cur : rcpt' = rcpt \/ rcpt' = DeleteRecipient(m, r)
  BY Zenon DEF DeleteLocalRecipient
<1>6. /\ \A n \in Msgs : n # m => rcpt'[n] = rcpt[n]
      /\ \A s \in rcpt[m] : s # r => s \in rcpt'[m]
  BY <1>5, Tables, Zenon DEF DeleteRecipient
<1>7. \A s \in InHand(w) : Done(m, s)'
  BY <1>1, <1>2, DoneNow, Zenon DEF InHand, At
<1>8. Own(w)
  BY <1>1, <1>3, <1>4, <1>6, <1>7, OwnWork, Zenon
<1>9. \A s \in worker[w].cur : Done(m, s)'
  BY <1>1, <1>8, Zenon DEF Locals, Own
<1>10. Locals(w, m)'
  BY <1>1, Zenon DEF Locals
<1>11. ASSUME NEW s \in Hold(w), Stored(m, s), s \notin worker[w].cur
       PROVE  Stored(m, s)' /\ s \in Hold(w)'
  BY <1>1, <1>3, <1>5, <1>6, <1>11, Zenon DEF Stored, Queued, Hold, Final
<1> QED BY <1>1, <1>2, <1>3, <1>8, <1>9, <1>10, <1>11, DeliveringStep, Zenon

LEMMA LocalDoneMail ==
  ASSUME IInv, MailInv, DelivererTypeOK, NEW w \in Workers, NEW m \in Msgs, m = worker[w].id,
         worker[w] \in BusyStates, ~worker[w].kept, Locals(w, m), Rest, LocalDone(w)
  PROVE  MailInv'
<1>1. At(w, "local")
  BY Zenon DEF LocalDone
<1>2. /\ Others(w) /\ Same(worker[w], worker'[w])
      /\ worker'[w].pc = IF worker[w].rcpts # {} THEN "external" ELSE "bounce"
  BY <1>1, Sent, Zenon DEF LocalDone, At
<1>3. UNCHANGED <<row, rcpt, file, posted, reached, closed, cut>>
  BY Zenon DEF LocalDone, queueVars, history
<1>4. Grows
  BY <1>3, Zenon DEF Grows
<1>5. worker'[w].id = m /\ \A r \in InHand(w) : Done(m, r)'
  BY <1>1, <1>2, DoneNow, Zenon DEF InHand, At, Same, SameLocal, SameTask
<1>6. Locals(w, m)'
  BY <1>1, <1>2, Zenon DEF Locals, At, Same, SameLocal, SameTask, SameRcpts
<1>7. \A r \in Hold(w) : r \in Hold(w)'
  BY <1>1, <1>2, Zenon DEF Hold, Final, Locals, At, Same, SameLocal, SameRcpts
<1> QED BY <1>2, <1>3, <1>4, <1>5, <1>6, <1>7, StoreKept, Zenon
=============================================================================
