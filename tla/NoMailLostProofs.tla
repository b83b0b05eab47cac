-------------------------- MODULE NoMailLostProofs --------------------------
(***************************************************************************)
(* NoMailLost holds of DeliveryQueue for any constants for which no        *)
(* session saves a message before the manager has run UnlockAll.           *)
(*                                                                         *)
(* MailSteps defines MailInv and treats the first half of a delivery; here *)
(* are its second half and the steps of sessions, of the manager, of the   *)
(* administrator and of a dying process.                                   *)
(***************************************************************************)
EXTENDS MailSteps, DeliveryQueueProofs

LEMMA Free ==
  ASSUME NEW w, worker[w] = Idle
  PROVE  InHand(w) = {}
BY DEF InHand, Idle, At

\* What the manager takes from the list is the message with its envelope, as it
\* was received, or with the recipients in the database.
LEMMA Picks ==
  ASSUME NEW p, TakeFromCache(p) \/ TakeFromDatabase(p)
  PROVE  /\ mgr'.pc # "post"
         /\ mgr'.pc = "lock" => mgr'.obj.id = p.id /\ mgr'.obj.rcpts \in {envelope[p.id], rcpt[p.id]}
BY DEF TakeFromCache, TakeFromDatabase, Take, Manager

LEMMA Locks ==
  ASSUME LockMessage
  PROVE  mgr'.pc \in {"lock", "post"} => mgr'.obj = mgr.obj
BY DEF LockMessage, Manager

\* A delete under way is of one of the messages.
LEMMA Removing ==
  ASSUME TypeOK, NEW d \in {"clear", "remove"}, deleter[d].pc # "idle"
  PROVE  deleter[d].id \in Msgs
<1>1. deleter[d] \in [pc : {"lock", "delrow", "delrcpt", "delfile"},
                      id : Msgs, type : Types, owner : Owners] \cup {NoDelete}
  BY Zenon DEF TypeOK
<1>2. NoDelete.pc = "idle"
  BY Zenon DEF NoDelete
<1> QED BY <1>1, <1>2, Zenon

\* An administrator's delete goes on with the same message or is over.
LEMMA Removes ==
  ASSUME TypeOK, NEW d \in {"clear", "remove"}, deleter[d].pc # "idle", Deleted(d) \/ (\E pc : Deleter(d, pc))
  PROVE  /\ \A e \in {"clear", "remove"} : e # d => deleter'[e] = deleter[e]
         /\ deleter'[d].id = deleter[d].id \/ deleter'[d].pc = "idle"
<1> DEFINE Deletes == [pc : {"lock", "delrow", "delrcpt", "delfile"}, id : Msgs, type : Types, owner : Owners]
<1>1. deleter \in [{"clear", "remove"} -> Deletes \cup {NoDelete}]
  BY Zenon DEF TypeOK
<1>2. CASE Deleted(d)
  BY <1>1, <1>2, Zenon DEF Deleted, NoDelete
<1>3. ASSUME NEW pc, Deleter(d, pc)
      PROVE  deleter'[d].id = deleter[d].id /\ \A e \in {"clear", "remove"} : e # d => deleter'[e] = deleter[e]
  <2>1. deleter[d] \in Deletes
    BY <1>1 DEF NoDelete
  <2> QED BY <1>1, <1>3, <2>1, Zenon DEF Deleter
<1> QED BY <1>2, <1>3, Zenon

LEMMA BatchMail ==
  ASSUME IInv, MailInv, DelivererTypeOK, NEW w \in Workers, NEW m \in Msgs, m = worker[w].id,
         worker[w] \in BusyStates, ~worker[w].kept, Locals(w, m), Rest, DeliverBatch(w)
  PROVE  MailInv'
<1>1. /\ worker[w] \in BusyStates /\ Others(w) /\ worker[w].pc = "external"
      /\ worker'[w].pc = "collect" /\ SameTask(worker[w], worker'[w])
      /\ worker'[w].errs = worker[w].errs
      /\ worker'[w].rcpts \cup worker'[w].ok \cup worker'[w].fatal \cup worker'[w].soft =
           worker[w].rcpts \cup worker[w].soft
      /\ Reach(m, worker'[w].ok)
  BY Batches, Zenon
<1>2. worker'[w].id = m
  BY <1>1, Zenon DEF SameTask
<1>3. UNCHANGED <<row, rcpt, file, posted, closed, cut>>
  BY Zenon DEF DeliverBatch, queueVars
<1>4. Grows
  BY <1>1, <1>3, HistoryGrows, Zenon DEF Reach
<1>5. \A r \in InHand(w) : Done(m, r)'
  BY <1>1, <1>2, DoneNow, Zenon DEF InHand, At
<1>6. \A r \in worker'[w].ok : Done(m, r)'
  <2>1. worker'[w].ok \subseteq reached'[m]
    BY <1>1, AddGrows, Tables, Zenon DEF Reach
  <2> QED BY <2>1, DoneNow, Zenon
<1>7. Locals(w, m)'
  BY <1>1, <1>6, Zenon DEF Locals
<1>8. \A r \in Hold(w) : Done(m, r)' \/ r \in Hold(w)'
  BY <1>1, <1>6, Zenon DEF Hold, Final, Locals
<1> QED BY <1>1, <1>2, <1>3, <1>4, <1>5, <1>7, <1>8, StoreKept, Zenon

LEMMA CollectMail ==
  ASSUME IInv, MailInv, DelivererTypeOK, NEW w \in Workers, NEW m \in Msgs, m = worker[w].id,
         worker[w] \in BusyStates, ~worker[w].kept, Locals(w, m), Rest, CollectDeliveryResult(w)
  PROVE  MailInv'
<1>1. /\ worker[w] \in BusyStates /\ Others(w) /\ worker[w].pc = "collect"
      /\ worker'[w].pc = "collect" /\ SameTask(worker[w], worker'[w])
      /\ worker'[w].rcpts = worker[w].rcpts /\ worker'[w].soft = worker[w].soft
  BY Collects, Zenon
<1>2. PICK r \in worker[w].ok \cup worker[w].fatal :
        /\ worker'[w].ok = worker[w].ok \ {r} /\ worker'[w].fatal = worker[w].fatal \ {r}
        /\ worker'[w].errs = worker[w].errs \cup (({r} \cap worker[w].fatal) \ Silent)
        /\ closed' = Add(closed, m, {r} \cap worker[w].fatal \cap Silent)
        /\ rcpt' = DeleteRecipient(m, r) \/ rcpt' = rcpt
  BY Collects, Zenon
<1>3. worker'[w].id = m
  BY <1>1, Zenon DEF SameTask
<1>4. UNCHANGED <<row, file, posted, reached, cut>>
  BY Zenon DEF CollectDeliveryResult, queueVars
<1>5. Grows
  BY <1>2, <1>4, HistoryGrows, Zenon
<1>6. /\ \A n \in Msgs : n # m => rcpt'[n] = rcpt[n]
      /\ \A s \in rcpt[m] : s # r => s \in rcpt'[m]
  BY <1>2, Tables DEF DeleteRecipient
<1>7. \A s \in InHand(w) : Done(m, s)'
  BY <1>1, <1>2, <1>3, DoneNow, Zenon DEF InHand, At
<1>8. Own(w)
  BY <1>1, <1>4, <1>5, <1>6, <1>7, OwnWork, Zenon
<1>9. Done(m, r)'
  <2>1. CASE r \in worker[w].ok
    BY <1>1, <1>8, <2>1, Zenon DEF Locals, Own
  <2>2. CASE r \in worker[w].fatal
    <3>1. {r} \cap worker[w].fatal \cap Silent \subseteq closed'[m]
      BY <1>2, AddGrows, Tables, Zenon
    <3>2. r \in worker'[w].errs \/ r \in closed'[m]
      BY <1>2, <2>2, <3>1, Zenon
    <3> QED BY <1>3, <3>2, DoneNow, Zenon
  <2> QED BY <2>1, <2>2, Zenon
<1>10. Locals(w, m)'
  <2>1. \A s \in worker'[w].ok : Done(m, s)'
    BY <1>1, <1>2, <1>8, Zenon DEF Locals, Own
  <2> QED BY <1>1, <2>1, Zenon DEF Locals
<1>11. ASSUME NEW s \in Hold(w), Stored(m, s), s # r
       PROVE  Stored(m, s)' /\ s \in Hold(w)'
  BY <1>1, <1>2, <1>4, <1>6, <1>11, Zenon DEF Stored, Queued, Hold, Final
<1> QED BY <1>1, <1>3, <1>4, <1>8, <1>9, <1>10, <1>11, DeliveringStep, Zenon

LEMMA CollectedMail ==
  ASSUME IInv, MailInv, DelivererTypeOK, NEW w \in Workers, NEW m \in Msgs, m = worker[w].id,
         worker[w] \in BusyStates, ~worker[w].kept, Locals(w, m), Rest, Collected(w)
  PROVE  MailInv'
<1>1. At(w, "collect") /\ worker[w].ok \cup worker[w].fatal = {}
  BY Zenon DEF Collected
<1>2. /\ Others(w) /\ Same(worker[w], worker'[w])
      /\ worker'[w].pc = IF worker[w].rcpts # {} THEN "external"
                         ELSE IF worker[w].soft # {} THEN "reschedule" ELSE "bounce"
  BY <1>1, Sent, Zenon DEF Collected, At
<1>3. UNCHANGED <<row, rcpt, file, posted, reached, closed, cut>>
  BY Zenon DEF Collected, queueVars, history
<1>4. Grows
  BY <1>3, Zenon DEF Grows
<1>5. worker'[w].id = m /\ \A r \in InHand(w) : Done(m, r)'
  BY <1>1, <1>2, DoneNow, Zenon DEF InHand, At, Same, SameLocal, SameTask
<1>6. Locals(w, m)'
  BY <1>1, <1>2, Zenon DEF Locals, At, Same, SameLocal, SameTask, SameRcpts
<1>7. \A r \in Hold(w) : r \in Hold(w)'
  BY <1>1, <1>2, Zenon DEF Hold, Final, At, Same, SameLocal, SameRcpts
<1> QED BY <1>2, <1>3, <1>4, <1>5, <1>6, <1>7, StoreKept, Zenon

LEMMA EtrnMail ==
  ASSUME IInv, MailInv, DelivererTypeOK, NEW w \in Workers, NEW m \in Msgs, m = worker[w].id,
         worker[w] \in BusyStates, ~worker[w].kept, Locals(w, m), Rest, HoldForEtrn(w)
  PROVE  MailInv'
<1>1. At(w, "reschedule")
  BY Zenon DEF HoldForEtrn
<1>2. Others(w) /\ Same(worker[w], worker'[w]) /\ worker'[w].pc = "unlock"
  BY <1>1, Sent, Zenon DEF HoldForEtrn, At
<1>3. UNCHANGED <<rcpt, file, posted, reached, closed, cut>> /\ row' \in {row, HoldForRoute(m)}
  BY Zenon DEF HoldForEtrn, queueVars, history, WriteRow
<1>4. Grows
  BY <1>3, Zenon DEF Grows
<1>5. worker'[w].id = m /\ \A r \in InHand(w) : Done(m, r)'
  BY <1>1, <1>2, DoneNow, Zenon DEF InHand, At, Same, SameLocal, SameTask
<1>6. Locals(w, m)'
  BY <1>1, <1>2, Zenon DEF Locals, At, Same, SameLocal, SameTask, SameRcpts
<1>7. Hold(w) = Hold(w)'
  BY <1>1, <1>2, Zenon DEF Hold, Final, At, Same, SameLocal, SameRcpts
<1> QED BY <1>2, <1>3, <1>4, <1>5, <1>6, <1>7, RowWritten, Zenon

LEMMA RescheduleMail ==
  ASSUME IInv, MailInv, DelivererTypeOK, NEW w \in Workers, NEW m \in Msgs, m = worker[w].id,
         worker[w] \in BusyStates, ~worker[w].kept, Locals(w, m), Rest, RescheduleDelivery(w)
  PROVE  MailInv'
<1>1. At(w, "reschedule")
  BY Zenon DEF RescheduleDelivery
<1>2. Others(w) /\ Same(worker[w], worker'[w]) /\ worker'[w].pc = "unlock"
  BY <1>1, Sent, Zenon DEF RescheduleDelivery, At
<1>3. UNCHANGED <<rcpt, file, posted, reached, closed, cut>> /\ row' \in {row, SetNextTryTime(m, TRUE, FALSE)}
  BY Zenon DEF RescheduleDelivery, queueVars, history, WriteRow
<1>4. Grows
  BY <1>3, Zenon DEF Grows
<1>5. worker'[w].id = m /\ \A r \in InHand(w) : Done(m, r)'
  BY <1>1, <1>2, DoneNow, Zenon DEF InHand, At, Same, SameLocal, SameTask
<1>6. Locals(w, m)'
  BY <1>1, <1>2, Zenon DEF Locals, At, Same, SameLocal, SameTask, SameRcpts
<1>7. Hold(w) = Hold(w)'
  BY <1>1, <1>2, Zenon DEF Hold, Final, At, Same, SameLocal, SameRcpts
<1> QED BY <1>2, <1>3, <1>4, <1>5, <1>6, <1>7, RowWritten, Zenon

LEMMA UnlockMail ==
  ASSUME IInv, MailInv, DelivererTypeOK, NEW w \in Workers, NEW m \in Msgs, m = worker[w].id,
         worker[w] \in BusyStates, ~worker[w].kept, Locals(w, m), Rest, UnlockRescheduled(w)
  PROVE  MailInv'
<1>1. /\ worker[w] \in BusyStates /\ Others(w) /\ worker[w].pc = "unlock"
      /\ worker'[w].pc = "bounce" /\ worker'[w].kept /\ worker'[w].id = m
      /\ worker'[w].errs = worker[w].errs
  BY UnlocksRescheduled, Zenon
<1>2. UNCHANGED <<rcpt, file, posted, reached, closed, cut>> /\ row' \in {row, UnlockObject(m)}
  BY Zenon DEF UnlockRescheduled, queueVars, history, WriteRow
<1>3. Grows
  BY <1>2, Zenon DEF Grows
<1>4. \A r \in InHand(w) : Done(m, r)'
  BY <1>1, DoneNow, Zenon DEF InHand, At
<1>5. Locals(w, m)'
  BY <1>1, Zenon DEF Locals
<1> QED BY <1>1, <1>2, <1>3, <1>4, <1>5, RowWritten, Zenon

LEMMA GiveUpMail ==
  ASSUME IInv, MailInv, DelivererTypeOK, NEW w \in Workers, NEW m \in Msgs, m = worker[w].id,
         worker[w] \in BusyStates, ~worker[w].kept, Locals(w, m), Rest, GiveUp(w)
  PROVE  MailInv'
<1>1. /\ worker[w] \in BusyStates /\ Others(w) /\ worker[w].pc = "reschedule"
      /\ worker'[w].pc = "bounce" /\ SameLocal(worker[w], worker'[w])
      /\ worker'[w].errs = worker[w].errs \cup (worker[w].soft \ Silent)
  BY GivesUp, Zenon
<1>2. worker'[w].id = m
  BY <1>1, Zenon DEF SameLocal, SameTask
<1>3. UNCHANGED <<row, rcpt, file, posted, reached, cut>>
      /\ closed' = Add(closed, m, worker[w].soft \cap Silent)
  BY Zenon DEF GiveUp, queueVars
<1>4. Grows
  BY <1>3, HistoryGrows, Zenon
<1>5. \A r \in InHand(w) : Done(m, r)'
  BY <1>1, <1>2, DoneNow, Zenon DEF InHand, At
<1>6. Locals(w, m)'
  BY <1>1, Zenon DEF Locals
<1>7. \A r \in Hold(w) : Done(m, r)'
  <2>1. worker[w].soft \cap Silent \subseteq closed'[m]
    BY <1>3, AddGrows, Tables, Zenon
  <2>2. \A r \in worker[w].soft : r \in worker'[w].errs \/ r \in closed'[m]
    BY <1>1, <2>1, Zenon
  <2>3. Hold(w) = worker[w].soft
    BY <1>1, Zenon DEF Hold, Final, Locals
  <2> QED BY <1>2, <2>2, <2>3, DoneNow, Zenon
<1> QED BY <1>1, <1>2, <1>3, <1>4, <1>5, <1>6, <1>7, StoreKept, Zenon

LEMMA SubmitMail ==
  ASSUME IInv, MailInv, DelivererTypeOK, NEW w \in Workers, NEW m \in Msgs, m = worker[w].id, Rest, SubmitErrorLog(w)
  PROVE  MailInv'
<1>1. /\ worker[w] \in BusyStates /\ Others(w) /\ worker[w].pc \in {"bounce", "refuse"}
      /\ \/ closed' = Add(closed, m, worker[w].errs) /\ UNCHANGED cut
         \/ cut' = Add(cut, m, worker[w].errs) /\ UNCHANGED closed
      /\ \/ worker'[w] = Idle
         \/ /\ worker[w].pc = "bounce" => ~worker[w].kept
            /\ worker'[w].pc = "delrow" /\ worker'[w].errs = {}
            /\ SameLocal(worker[w], worker'[w])
  BY Submits, Zenon
<1>2. UNCHANGED <<row, rcpt, file, posted, reached>>
  BY Zenon DEF SubmitErrorLog, queueVars
<1>3. Grows
  BY <1>1, <1>2, HistoryGrows, Zenon
<1>4. \A r \in InHand(w) : Done(m, r)'
  <2>1. worker[w].errs \subseteq closed'[m] \cup cut'[m]
    BY <1>1, AddGrows, Tables, Zenon
  <2> QED BY <1>1, <2>1, DoneNow, Zenon DEF InHand, At
<1>5. Own(w)
  BY <1>1, <1>2, <1>3, <1>4, OwnWork, Zenon
<1>6. CASE worker'[w] = Idle
  BY <1>2, <1>5, <1>6, EndingStep, Zenon
<1>7. CASE worker'[w] # Idle
  <2>1. ~worker[w].kept /\ worker'[w].id = m
    BY <1>1, <1>7, Unkept, Zenon DEF At, SameLocal, SameTask
  <2>2. Locals(w, m)'
    BY <1>1, <1>7, Zenon DEF Locals
  <2>3. Hold(w) = {}
    BY <1>1, Zenon DEF Hold, Final
  <2> QED BY <1>1, <1>2, <1>5, <2>1, <2>2, <2>3, DeliveringStep, Zenon
<1> QED BY <1>6, <1>7, Zenon

\* A thread that deletes what is left of its message relies on nothing.
LEMMA DeletingMail ==
  ASSUME IInv, MailInv, NEW w \in Workers, NEW m \in Msgs, m = worker[w].id,
         worker[w] \in BusyStates, ~worker[w].kept, Locals(w, m), Rest, worker[w].pc \in {"delrow", "delrcpt", "delfile"},
         Others(w), posted' = posted, UNCHANGED history,
         \/ worker'[w] = Idle
         \/ /\ worker'[w].pc \in {"delrcpt", "delfile"}
            /\ Same(worker[w], worker'[w]),
         \A n \in Msgs : n # m => rcpt'[n] = rcpt[n] /\ file'[n] = file[n] /\ row'[n] = row[n]
  PROVE  MailInv'
<1>1. InHand(w) = {}
  BY Zenon DEF InHand, At, Locals
<1>2. Grows
  BY Zenon DEF Grows, history
<1>3. Own(w)
  BY <1>1, <1>2, OwnWork, Zenon
<1>4. worker'[w] = Idle \/ (worker'[w].id = m /\ Locals(w, m)')
  BY Zenon DEF Locals, Same, SameLocal, SameTask
<1>5. Hold(w) = {}
  BY Zenon DEF Hold, Final
<1> QED BY <1>3, <1>4, <1>5, DeliveringStep, Zenon

LEMMA DeleteRowMail ==
  ASSUME IInv, MailInv, DelivererTypeOK, NEW w \in Workers, NEW m \in Msgs, m = worker[w].id,
         worker[w] \in BusyStates, ~worker[w].kept, Locals(w, m), Rest, DeleteQueueRow(w)
  PROVE  MailInv'
<1>1. At(w, "delrow")
  BY Zenon DEF DeleteQueueRow
<1>2. /\ Others(w)
      /\ \/ worker'[w] = Idle
         \/ worker'[w].pc \in {"delrcpt", "delfile"} /\ Same(worker[w], worker'[w])
  <2>1. CASE Finish(w)
    BY <2>1, Finishes, Zenon
  <2>2. CASE Goto(w, IF worker[w].saved THEN "delfile" ELSE "delrcpt")
    BY <1>1, <2>2, Sent, Zenon DEF At
  <2> QED BY <2>1, <2>2, Zenon DEF DeleteQueueRow
<1>3. UNCHANGED <<rcpt, file, posted, history>> /\ (row' = row \/ row' = DeleteRow(m))
  BY Zenon DEF DeleteQueueRow, queueVars
<1>4. \A n \in Msgs : n # m => row'[n] = row[n]
  BY <1>3, Tables, Zenon DEF DeleteRow
<1> QED BY <1>1, <1>2, <1>3, <1>4, DeletingMail, Zenon DEF At

LEMMA DeleteRecipientsMail ==
  ASSUME IInv, MailInv, DelivererTypeOK, NEW w \in Workers, NEW m \in Msgs, m = worker[w].id,
         worker[w] \in BusyStates, ~worker[w].kept, Locals(w, m), Rest, DeleteQueueRecipients(w)
  PROVE  MailInv'
<1>1. At(w, "delrcpt")
  BY Zenon DEF DeleteQueueRecipients
<1>2. /\ Others(w)
      /\ \/ worker'[w] = Idle
         \/ worker'[w].pc \in {"delrcpt", "delfile"} /\ Same(worker[w], worker'[w])
  <2>1. CASE Finish(w)
    BY <2>1, Finishes, Zenon
  <2>2. CASE Goto(w, "delfile")
    BY <1>1, <2>2, Sent, Zenon DEF At
  <2> QED BY <2>1, <2>2, Zenon DEF DeleteQueueRecipients
<1>3. UNCHANGED <<row, file, posted, history>> /\ (rcpt' = rcpt \/ rcpt' = DeleteRecipients(m))
  BY Zenon DEF DeleteQueueRecipients, queueVars
<1>4. \A n \in Msgs : n # m => rcpt'[n] = rcpt[n]
  BY <1>3, Tables, Zenon DEF DeleteRecipients
<1> QED BY <1>1, <1>2, <1>3, <1>4, DeletingMail, Zenon DEF At

LEMMA DeleteFileMail ==
  ASSUME IInv, MailInv, DelivererTypeOK, NEW w \in Workers, NEW m \in Msgs, m = worker[w].id,
         worker[w] \in BusyStates, ~worker[w].kept, Locals(w, m), Rest, DeleteDataFile(w)
  PROVE  MailInv'
<1>1. At(w, "delfile")
  BY Zenon DEF DeleteDataFile
<1>2. Others(w) /\ worker'[w] = Idle
  BY Finishes, Zenon DEF DeleteDataFile
<1>3. UNCHANGED <<row, rcpt, posted, history>> /\ (file' = file \/ file' = DeleteQueueFile(m))
  BY Zenon DEF DeleteDataFile, queueVars
<1>4. \A n \in Msgs : n # m => file'[n] = file[n]
  BY <1>3, Tables, Zenon DEF DeleteQueueFile
<1> QED BY <1>1, <1>2, <1>3, <1>4, DeletingMail, Zenon DEF At

LEMMA InterruptMail ==
  ASSUME IInv, MailInv, DelivererTypeOK, NEW w \in Workers, NEW m \in Msgs, m = worker[w].id, Rest, Interrupt(w)
  PROVE  MailInv'
<1>1. Others(w) /\ worker'[w] = Idle
  BY Finishes, Zenon DEF Interrupt
<1>2. UNCHANGED <<row, rcpt, file, posted, reached, closed>> /\ cut' = Add(cut, m, InHand(w))
  BY Zenon DEF Interrupt, queueVars
<1>3. Grows
  BY <1>2, HistoryGrows, Zenon
<1>4. \A r \in InHand(w) : Done(m, r)'
  <2>1. InHand(w) \subseteq cut'[m]
    BY <1>2, AddGrows, Tables, Zenon
  <2> QED BY <2>1, DoneNow, Zenon
<1>5. Own(w)
  BY <1>1, <1>2, <1>3, <1>4, OwnWork, Zenon
<1> QED BY <1>1, <1>2, <1>5, EndingStep, Zenon

\* A thread takes over a task and what is known about it.
LEMMA ExecuteMail ==
  ASSUME IInv, MailInv, NEW w \in Workers, Rest, ExecuteTask(w)
  PROVE  MailInv'
<1>1. DelivererTypeOK
  BY Zenon DEF IInv, TypeOK
<1>2. PICK t \in posted :
        /\ Continue(w, [Idle EXCEPT !.pc = "check", !.id = t.id, !.rcpts = t.rcpts,
                                    !.tries = t.tries, !.owner = t.owner])
        /\ posted' = posted \ {t}
  BY Zenon DEF ExecuteTask
<1>3. Others(w) /\ worker[w].pc = "idle" /\ UNCHANGED <<row, rcpt, file, reached, closed, cut>>
  BY <1>1, <1>2, Continues, Zenon DEF ExecuteTask, At, history
<1>4. /\ worker'[w].pc = "check" /\ worker'[w].id = t.id /\ worker'[w].rcpts = t.rcpts
      /\ worker'[w].soft = {} /\ worker'[w].fatal = {} /\ worker'[w].errs = {}
  <2>1. worker'[w] = [Idle EXCEPT !.pc = "check", !.id = t.id, !.rcpts = t.rcpts,
                                    !.tries = t.tries, !.owner = t.owner]
    BY <1>1, <1>2, Continues, Zenon
  <2> QED BY <2>1 DEF Idle
<1>5. Grows
  BY <1>3, Zenon DEF Grows
<1>6. worker[w] = Idle
  BY <1>1, <1>3, Zenon DEF DelivererTypeOK, BusyStates, Steps
<1>7. \A n \in Msgs : \A r : Done(n, r) => Done(n, r)'
  <2>1. \A n \in Msgs : Settled(n) \subseteq Settled(n)'
    BY <1>5, Zenon DEF Grows, Settled
  <2>2. InHand(w) = {}
    BY <1>6, Free, Zenon
  <2> QED BY <1>3, <2>1, <2>2, DoneGrows, Zenon
<1>8. Own(w)
  BY <1>3, <1>7, Zenon DEF Own, Rest
<1>9. /\ \A n \in Msgs : Live(n)' <=> Live(n)
      /\ \A v \in Workers, n \in Msgs : v # w /\ worker[v].id = n => Locals(v, n)'
  BY <1>8, OwnStep, Zenon
<1>10. \A n \in Msgs : \A S : Cover(n, S) => Cover(n, S)'
  <2>1. \A n \in Msgs : n # worker[w].id
    BY <1>6, NoId, Zenon
  <2> QED BY <1>8, <2>1, OwnStep, Zenon
<1>11. \A n \in Msgs : Live(n)' => Cover(n, Rcpts)'
  BY <1>9, <1>10, Zenon DEF MailInv
<1>12. \A n \in Msgs : (recv[n] = "inserted" /\ n \notin purged)' => (Queued(n) /\ file[n] = "queue")'
  BY <1>3, Zenon DEF MailInv, Rest, Queued
<1>13. \A a \in posted : a.id \in Msgs
  BY <1>1, Zenon DEF DelivererTypeOK, Tasks
<1>14. \A a \in posted' : Live(a.id)' => Cover(a.id, a.rcpts)'
  BY <1>2, <1>9, <1>10, <1>13, Zenon DEF MailInv
<1>15. (mgr.pc \in {"lock", "post"} /\ Live(mgr.obj.id) => Cover(mgr.obj.id, mgr.obj.rcpts))'
  <2>1. mgr.pc \in {"lock", "post"} => mgr.obj.id \in Msgs
    BY Zenon DEF IInv, TypeOK, Tasks
  <2>2. mgr' = mgr
    BY Zenon DEF Rest
  <2> QED BY <1>9, <1>10, <2>1, <2>2, Zenon DEF MailInv
<1>16. ASSUME NEW v \in Workers, NEW n \in Msgs
       PROVE  WorkerMail(v, n)'
  <2>1. CASE v # w
    <3>1. worker'[v] = worker[v]
      BY <1>3, <2>1, Zenon DEF Others
    <3>2. Hold(v)' = Hold(v)
      BY <3>1, Zenon DEF Hold
    <3>3. SUFFICES ASSUME worker[v].id = n, ~worker[v].kept, Live(n) PROVE Cover(n, Hold(v))'
      BY <1>9, <2>1, <3>1, Zenon DEF WorkerMail
    <3> QED BY <1>10, <3>2, <3>3, Zenon DEF WorkerMail, MailInv
  <2>2. CASE v = w
    <3>1. Locals(w, n)'
      BY <1>4, Zenon DEF Locals
    <3>2. (Hold(w))' = t.rcpts
      BY <1>4, Zenon DEF Hold, Final
    <3>3. t.id = n /\ Live(n) => Cover(n, t.rcpts)'
      BY <1>10, Zenon DEF MailInv
    <3> QED BY <1>4, <1>9, <2>2, <3>1, <3>2, <3>3, Zenon DEF WorkerMail
  <2> QED BY <2>1, <2>2, Zenon
<1>17. (\A d \in {"clear", "remove"} :
          deleter[d].pc \in {"delrcpt", "delfile"} => deleter[d].id \in purged)'
  BY Zenon DEF MailInv, Rest
<1> QED BY <1>11, <1>12, <1>14, <1>15, <1>16, <1>17, Zenon DEF MailInv

\* A delivery thread loses nobody's mail.
LEMMA WorkMail ==
  ASSUME IInv, MailInv, NEW w \in Workers, Work(w)
  PROVE  MailInv'
<1>1. Rest /\ DelivererTypeOK
  BY Zenon DEF Work, Rest, sessionVars, managerVars, adminVars, IInv, TypeOK
<1>2. CASE ExecuteTask(w)
  BY <1>1, <1>2, ExecuteMail, Zenon
<1>3. CASE Deliver(w) \/ Interrupt(w)
  <2>1. worker[w] \in BusyStates
    BY <1>1, <1>3, DeliverBusy, Zenon
  <2>2. worker[w].id \in Msgs
    BY <2>1, Zenon DEF BusyStates
  <2>3. PICK m \in Msgs : m = worker[w].id
    BY <2>2, Zenon
  <2>4. Locals(w, m)
    BY <2>3, Zenon DEF MailInv, WorkerMail
  <2>5. CASE Interrupt(w)
    BY <1>1, <2>3, <2>5, InterruptMail, Zenon
  <2>6. CASE SubmitErrorLog(w)
    BY <1>1, <2>3, <2>6, SubmitMail, Zenon
  <2>7. ~worker[w].kept \/ At(w, "bounce")
    <3>1. ~At(w, "idle")
      BY <2>1, Zenon DEF BusyStates, Steps, At
    <3> QED BY <3>1, Unkept, Zenon
  <2>8. CASE CheckMessage(w) \/ PreprocessMessage(w) \/ AbortDelivery(w) \/ DeferDelivery(w)
    <3>1. ~At(w, "bounce")
      BY <2>8, Zenon DEF CheckMessage, PreprocessMessage, AbortDelivery, DeferDelivery, At
    <3> QED BY <1>1, <2>1, <2>3, <2>4, <2>7, <2>8, <3>1, CheckMail, PreprocessMail, AbortMail, DeferMail, Zenon
  <2>9. CASE HoldUnscannable(w) \/ UnlockHeld(w) \/ RefuseUnscannable(w)
    <3>1. ~At(w, "bounce")
      BY <2>9, Zenon DEF HoldUnscannable, UnlockHeld, RefuseUnscannable, At
    <3> QED BY <1>1, <2>1, <2>3, <2>4, <2>7, <2>9, <3>1, HoldMail, UnlockHeldMail, RefuseMail, Zenon
  <2>10. CASE \E r \in LocalRcpts :
                DropLocal(w, r) \/ RejectLocal(w, r) \/ CopyToAccount(w, r) \/ ReuseMessage(w, r)
    <3>1. ~At(w, "bounce")
      BY <2>10, Zenon DEF Handling, DropLocal, RejectLocal, CopyToAccount, ReuseMessage, At
    <3> QED BY <1>1, <2>1, <2>3, <2>4, <2>7, <2>10, <3>1, DropMail, RejectMail, CopyMail, ReuseMail, Zenon
  <2>11. CASE DropReused(w) \/ SaveReused(w) \/ DeleteLocalRecipient(w) \/ LocalDone(w)
    <3>1. ~At(w, "bounce")
      BY <2>11, Zenon DEF DropReused, SaveReused, DeleteLocalRecipient, LocalDone, At
    <3> QED BY <1>1, <2>1, <2>3, <2>4, <2>7, <2>11, <3>1, DropReusedMail, SaveReusedMail,
             DeleteLocalMail, LocalDoneMail, Zenon
  <2>12. CASE DeliverBatch(w) \/ CollectDeliveryResult(w) \/ Collected(w) \/ HoldForEtrn(w)
    <3>1. ~At(w, "bounce")
      BY <2>12, Zenon DEF DeliverBatch, CollectDeliveryResult, Collected, HoldForEtrn, At
    <3> QED BY <1>1, <2>1, <2>3, <2>4, <2>7, <2>12, <3>1, BatchMail, CollectMail, CollectedMail, EtrnMail, Zenon
  <2>13. CASE RescheduleDelivery(w) \/ UnlockRescheduled(w) \/ GiveUp(w)
    <3>1. ~At(w, "bounce")
      BY <2>13, Zenon DEF RescheduleDelivery, UnlockRescheduled, GiveUp, At
    <3> QED BY <1>1, <2>1, <2>3, <2>4, <2>7, <2>13, <3>1, RescheduleMail, UnlockMail, GiveUpMail, Zenon
  <2>14. CASE DeleteQueueRow(w) \/ DeleteQueueRecipients(w) \/ DeleteDataFile(w)
    <3>1. ~At(w, "bounce")
      BY <2>14, Zenon DEF DeleteQueueRow, DeleteQueueRecipients, DeleteDataFile, At
    <3> QED BY <1>1, <2>1, <2>3, <2>4, <2>7, <2>14, <3>1, DeleteRowMail, DeleteRecipientsMail, DeleteFileMail, Zenon
  <2> QED BY <1>3, <2>5, <2>6, <2>8, <2>9, <2>10, <2>11, <2>12, <2>13, <2>14, Zenon DEF Deliver
<1> QED BY <1>2, <1>3, Zenon DEF Work

\* No thread moves (it may be told to stop) and nothing is said to the world.
Still ==
  /\ \A w \in Workers : worker'[w].pc = worker[w].pc /\ Same(worker[w], worker'[w])
  /\ UNCHANGED <<reached, closed, cut>>

LEMMA StillMail ==
  ASSUME Still
  PROVE  /\ \A n \in Msgs : \A r : Done(n, r)' <=> Done(n, r)
         /\ \A w \in Workers, n \in Msgs : Locals(w, n)' <=> Locals(w, n)
         /\ \A w \in Workers : Hold(w)' = Hold(w)
<1> USE DEF Same, SameLocal, SameTask, SameRcpts
<1>1. ASSUME NEW n \in Msgs, NEW r
      PROVE  Done(n, r)' <=> Done(n, r)
  <2>1. \A w \in Workers : worker'[w].id = worker[w].id /\ InHand(w)' = InHand(w)
    BY Zenon DEF Still, InHand, At
  <2> QED BY <2>1 DEF Still, Done, Settled
<1>2. ASSUME NEW w \in Workers, NEW n \in Msgs
      PROVE  Locals(w, n)' <=> Locals(w, n)
  BY <1>1 DEF Still, Locals
<1>3. \A w \in Workers : Hold(w)' = Hold(w)
  BY Zenon DEF Still, Hold
<1> QED BY <1>1, <1>2, <1>3, Zenon

\* What the tables still hold covers what it covered.
Persists(n) == envelope'[n] = envelope[n] /\ \A r : Stored(n, r) => Stored(n, r)'

LEMMA StillCover ==
  ASSUME Still, NEW n \in Msgs, Persists(n)
  PROVE  \A S : Cover(n, S) => Cover(n, S)'
BY StillMail, CoverGrows, Zenon DEF Persists

\* Threads that do not move have what they had, of a message that is live.
LEMMA StillWorkers ==
  ASSUME MailInv, Still, \A n \in Msgs : Live(n)' /\ InWorker(n) => Live(n) /\ Persists(n),
         IInv
  PROVE  \A w \in Workers, n \in Msgs : WorkerMail(w, n)'
<1> SUFFICES ASSUME NEW w \in Workers, NEW n \in Msgs, worker'[w].id = n
             PROVE  Locals(w, n)' /\ (~worker'[w].kept /\ Live(n)' => Cover(n, Hold(w))')
  BY Zenon DEF WorkerMail
<1>1. worker[w].id = n /\ worker'[w].kept = worker[w].kept
  BY Zenon DEF Still, Same, SameLocal, SameTask
<1>2. Locals(w, n)' /\ Hold(w)' = Hold(w)
  BY <1>1, StillMail, Zenon DEF MailInv, WorkerMail
<1>3. ASSUME ~worker'[w].kept, Live(n)' PROVE Cover(n, Hold(w))'
  <2>1. worker[w].pc # "idle"
    BY <1>1, HasId, Zenon DEF IInv, TypeOK, At
  <2>2. InWorker(n)
    BY <1>1, <1>3, <2>1, Zenon DEF InWorker, Delivering, At
  <2>3. Cover(n, Hold(w))
    BY <1>1, <1>3, <2>2, Zenon DEF MailInv, WorkerMail
  <2> QED BY <1>2, <1>3, <2>2, <2>3, StillCover, Zenon
<1> QED BY <1>2, <1>3, Zenon

\* A step of a session, of the administrator or of time.
LEMMA OutsideMail ==
  ASSUME IInv, MailInv, Still, UNCHANGED <<posted, mgr>>,
         \A n \in Msgs : Live(n)' =>
           \/ Live(n) /\ Persists(n)
           \/ Cover(n, Rcpts)' /\ ~InQueue(n) /\ ~InManager(n) /\ ~InWorker(n),
         \A n \in Msgs : (recv[n] = "inserted" /\ n \notin purged)' => (Queued(n) /\ file[n] = "queue")',
         \A d \in {"clear", "remove"} :
           (deleter[d].pc \in {"delrcpt", "delfile"} => deleter[d].id \in purged)'
  PROVE  MailInv'
<1>1. \A n \in Msgs : \A S : Persists(n) /\ Cover(n, S) => Cover(n, S)'
  BY StillCover, Zenon
<1>2. \A n \in Msgs : Live(n)' => Cover(n, Rcpts)'
  BY <1>1, Zenon DEF MailInv
<1>3. \A t \in posted' : Live(t.id)' => Cover(t.id, t.rcpts)'
  <2>1. \A t \in posted : t.id \in Msgs /\ InQueue(t.id)
    BY Zenon DEF IInv, TypeOK, DelivererTypeOK, Tasks, InQueue
  <2> QED BY <1>1, <2>1, Zenon DEF MailInv
<1>4. (mgr.pc \in {"lock", "post"} /\ Live(mgr.obj.id) => Cover(mgr.obj.id, mgr.obj.rcpts))'
  <2>1. mgr.pc \in {"lock", "post"} => mgr.obj.id \in Msgs /\ InManager(mgr.obj.id)
    BY Zenon DEF IInv, TypeOK, Tasks, InManager
  <2> QED BY <1>1, <2>1, Zenon DEF MailInv
<1>5. \A v \in Workers, n \in Msgs : WorkerMail(v, n)'
  BY StillWorkers, Zenon
<1> QED BY <1>2, <1>3, <1>4, <1>5, Zenon DEF MailInv

\* A step of the manager.
LEMMA ManagingMail ==
  ASSUME IInv, MailInv, Still, UNCHANGED <<recv, envelope, purged, deleter, file>>,
         \A n \in Msgs : (Queued(n) => Queued(n)') /\ rcpt'[n] = rcpt[n],
         \A t \in posted' : t \in posted \/ (mgr.pc = "post" /\ t = mgr.obj),
         NEW m \in Msgs, NEW S,
         mgr'.pc \in {"lock", "post"} =>
           mgr'.obj.id = m /\ mgr'.obj.rcpts = S /\ (Live(m) => Cover(m, S))
  PROVE  MailInv'
<1>1. \A n \in Msgs : Persists(n)
  BY Zenon DEF Persists, Stored
<1>2. \A n \in Msgs : \A T : Cover(n, T) => Cover(n, T)'
  BY <1>1, StillCover, Zenon
<1>3. \A n \in Msgs : Live(n)' <=> Live(n)
  BY Zenon DEF Live
<1>4. \A n \in Msgs : Live(n)' => Cover(n, Rcpts)'
  BY <1>2, <1>3, Zenon DEF MailInv
<1>5. \A n \in Msgs : (recv[n] = "inserted" /\ n \notin purged)' => (Queued(n) /\ file[n] = "queue")'
  BY Zenon DEF MailInv
<1>6. \A t \in posted' : Live(t.id)' => Cover(t.id, t.rcpts)'
  <2>1. \A t \in posted : t.id \in Msgs
    BY Zenon DEF IInv, TypeOK, DelivererTypeOK, Tasks
  <2>2. mgr.pc = "post" => mgr.obj.id \in Msgs
    BY Zenon DEF IInv, TypeOK, Tasks
  <2> QED BY <1>2, <1>3, <2>1, <2>2, Zenon DEF MailInv
<1>7. (mgr.pc \in {"lock", "post"} /\ Live(mgr.obj.id) => Cover(mgr.obj.id, mgr.obj.rcpts))'
  <2>1. Live(m) => Live(m)' /\ (mgr'.pc \in {"lock", "post"} => Cover(m, S)')
    BY <1>2, <1>3, Zenon
  <2> QED BY <1>3, <2>1, Zenon
<1>8. \A v \in Workers, n \in Msgs : WorkerMail(v, n)'
  BY <1>1, <1>3, StillWorkers, Zenon
<1> QED BY <1>4, <1>5, <1>6, <1>7, <1>8, Zenon DEF MailInv

\* A session loses nobody's mail: when it answers 250 everything is in the store.
LEMMA ReceiveMail ==
  ASSUME IInv, MailInv, NEW m \in Msgs, Receive(m)
  PROVE  MailInv'
<1> USE DEF restOfSession, managerVars, adminVars, history
<1>1. row \in [Msgs -> Rows] /\ rcpt \in [Msgs -> SUBSET Rcpts] /\ file \in [Msgs -> Folders]
      /\ recv \in [Msgs -> Sessions] /\ envelope \in [Msgs -> SUBSET Rcpts]
  BY Zenon DEF IInv, TypeOK, DelivererTypeOK, StoreTypeOK
<1>2. UNCHANGED <<worker, reached, closed, cut, posted, mgr, purged, deleter>>
  BY Zenon DEF Receive, InsertMessage, SaveRecipients, UnlockSaved, AcceptMessage, delivererVars
<1>3. Still
  BY <1>2, Zenon DEF Still, Same, SameLocal, SameTask, SameRcpts, SameFlags
<1>4. (\A d \in {"clear", "remove"} :
        deleter[d].pc \in {"delrcpt", "delfile"} => deleter[d].id \in purged)'
  BY <1>2, Zenon DEF MailInv
<1>5. CASE InsertMessage(m)
  <2>1. recv[m] = "new" /\ recv'[m] \in {"inserted", "refused"} /\ rcpt' = rcpt
    BY <1>1, <1>5, Zenon DEF InsertMessage, Session
  <2>2. \A n \in Msgs : n # m => recv'[n] = recv[n] /\ row'[n] = row[n] /\ file'[n] = file[n]
                                 /\ envelope'[n] = envelope[n]
    BY <1>1, <1>5, Zenon DEF InsertMessage, Session, InsertRow
  <2>3. recv'[m] = "inserted" => row'[m].type = "delivering" /\ file'[m] = "queue"
    BY <1>1, <1>5 DEF InsertMessage, Session, InsertRow
  <2>4. \A n \in Msgs : Live(n)' => Live(n) /\ Persists(n)
    BY <1>2, <2>1, <2>2, Zenon DEF Live, Persists, Stored, Queued
  <2>5. \A n \in Msgs : (recv[n] = "inserted" /\ n \notin purged)' => (Queued(n) /\ file[n] = "queue")'
    BY <1>2, <2>2, <2>3, Zenon DEF MailInv, Queued
  <2> QED BY <1>2, <1>3, <1>4, <2>4, <2>5, OutsideMail, Zenon
<1>6. CASE SaveRecipients(m)
  <2>1. recv[m] = "inserted" /\ recv'[m] \in {"saved", "refused"} /\ UNCHANGED <<row, file, envelope>>
    BY <1>1, <1>6, Zenon DEF SaveRecipients, Session
  <2>2. \A n \in Msgs : n # m => recv'[n] = recv[n] /\ rcpt'[n] = rcpt[n]
    BY <1>1, <1>6, Zenon DEF SaveRecipients, Session, Add
  <2>3. recv'[m] = "saved" => envelope[m] \subseteq rcpt'[m]
    BY <1>1, <1>6 DEF SaveRecipients, Session, Add
  <2>4. ASSUME NEW n \in Msgs, Live(n)', n # m
        PROVE  Live(n) /\ Persists(n)
    BY <1>2, <2>1, <2>2, <2>4, Zenon DEF Live, Persists, Stored, Queued
  <2>5. Live(m)' => Cover(m, Rcpts)'
    <3>1. SUFFICES ASSUME recv'[m] = "saved", m \notin purged, NEW r \in envelope[m]
                   PROVE  Stored(m, r)' /\ r \in Rcpts
      BY <1>2, <2>1, Zenon DEF Live, Cover
    <3>2. Queued(m) /\ file[m] = "queue"
      BY <2>1, <3>1, Zenon DEF MailInv
    <3> QED BY <1>1, <2>1, <2>3, <3>1, <3>2, Zenon DEF Stored, Queued
  <2>6. ~InQueue(m) /\ ~InManager(m) /\ ~InWorker(m)
    BY <2>1, Zenon DEF IInv, LockInv
  <2>7. \A n \in Msgs : (recv[n] = "inserted" /\ n \notin purged)' => (Queued(n) /\ file[n] = "queue")'
    BY <1>2, <2>1, <2>2, Zenon DEF MailInv, Queued
  <2> QED BY <1>2, <1>3, <1>4, <2>4, <2>5, <2>6, <2>7, OutsideMail, Zenon
<1>7. CASE UnlockSaved(m)
  <2>1. recv[m] = "saved" /\ recv'[m] \in {"unlocked", "refused"} /\ UNCHANGED <<rcpt, file, envelope>>
    BY <1>1, <1>7, Zenon DEF UnlockSaved, Session
  <2>2. \A n \in Msgs : n # m => recv'[n] = recv[n] /\ row'[n] = row[n]
    BY <1>1, <1>7, Zenon DEF UnlockSaved, Session, UnlockObject, Update
  <2>3. Queued(m) => row'[m].type \in {"delivering", "held"}
    BY <1>1, <1>7 DEF UnlockSaved, UnlockObject, Update, Exists, Queued, Rows
  <2>4. \A n \in Msgs : Live(n)' => Live(n) /\ Persists(n)
    BY <1>2, <2>1, <2>2, <2>3, Zenon DEF Live, Persists, Stored, Queued
  <2>5. \A n \in Msgs : (recv[n] = "inserted" /\ n \notin purged)' => (Queued(n) /\ file[n] = "queue")'
    BY <1>2, <2>1, <2>2, Zenon DEF MailInv, Queued
  <2> QED BY <1>2, <1>3, <1>4, <2>4, <2>5, OutsideMail, Zenon
<1>8. CASE AcceptMessage(m)
  <2>1. recv[m] = "unlocked" /\ recv'[m] = "accepted" /\ UNCHANGED <<row, rcpt, file, envelope>>
    BY <1>1, <1>8, Zenon DEF AcceptMessage, Session, delivererVars
  <2>2. \A n \in Msgs : n # m => recv'[n] = recv[n]
    BY <1>1, <1>8, Zenon DEF AcceptMessage, Session
  <2>3. \A n \in Msgs : Live(n)' => Live(n) /\ Persists(n)
    BY <1>2, <2>1, <2>2, Zenon DEF Live, Persists, Stored, Queued
  <2>4. \A n \in Msgs : (recv[n] = "inserted" /\ n \notin purged)' => (Queued(n) /\ file[n] = "queue")'
    BY <1>2, <2>1, <2>2, Zenon DEF MailInv, Queued
  <2> QED BY <1>2, <1>3, <1>4, <2>3, <2>4, OutsideMail, Zenon
<1> QED BY <1>5, <1>6, <1>7, <1>8, Zenon DEF Receive

\* The manager passes on everybody it finds.
LEMMA ManagerMail ==
  ASSUME IInv, MailInv, DoWork
  PROVE  MailInv'
<1> USE DEF restOfManager, sessionVars, adminVars, history
<1>1. row \in [Msgs -> Rows]
  BY Zenon DEF IInv, TypeOK, DelivererTypeOK, StoreTypeOK
<1>2. UNCHANGED <<rcpt, file, worker, reached, closed, cut, recv, envelope, purged, deleter>>
  BY Zenon DEF DoWork, StartManager, LoadPendingMessageList, TakeFromCache, TakeFromDatabase,
     LockMessage, AddTask, WakeManager
<1>3. Still
  BY <1>2, Zenon DEF Still, Same, SameLocal, SameTask, SameRcpts, SameFlags
<1>4. mgr.pc \in {"lock", "post"} => mgr.obj.id \in Msgs /\ (Live(mgr.obj.id) => Cover(mgr.obj.id, mgr.obj.rcpts))
  BY Zenon DEF IInv, TypeOK, Tasks, MailInv
<1>5. \A n \in Msgs : Queued(n) => Queued(n)'
  <2>1. CASE row' = row
    BY <2>1, Zenon DEF Queued
  <2>2. CASE StartManager
    BY <1>1, <2>2 DEF StartManager, WriteRow, UnlockAll, Queued, Rows
  <2>3. CASE LockMessage
    BY <1>1, <1>4, <2>3 DEF LockMessage, LockObject, Update, Exists, Queued, Rows
  <2> QED BY <2>1, <2>2, <2>3, Zenon DEF DoWork, LoadPendingMessageList, TakeFromCache, TakeFromDatabase,
             AddTask, WakeManager
<1>6. CASE StartManager \/ LoadPendingMessageList \/ WakeManager
  <2>1. posted' = posted /\ mgr'.pc \in {"next", "wait", "pick"}
    BY <1>6 DEF StartManager, LoadPendingMessageList, WakeManager, Manager
  <2>2. CASE Msgs = {}
    <3>1. \A t \in posted : t.id \in Msgs
      BY Zenon DEF IInv, TypeOK, DelivererTypeOK, Tasks
    <3> QED BY <1>2, <2>1, <2>2, <3>1, Zenon DEF MailInv
  <2>3. CASE Msgs # {}
    <3>1. PICK m \in Msgs : TRUE
      BY <2>3, Zenon
    <3> QED BY <1>2, <1>3, <1>5, <2>1, <3>1, ManagingMail, Zenon
  <2> QED BY <2>2, <2>3, Zenon
<1>7. ASSUME NEW p \in pending, TakeFromCache(p) \/ TakeFromDatabase(p)
      PROVE  MailInv'
  <2>1. p.id \in Msgs
    BY Zenon DEF IInv, TypeOK, Entries
  <2>2. PICK m \in Msgs : m = p.id
    BY <2>1, Zenon
  <2>3. posted' = posted
    BY <1>7, Zenon DEF TakeFromCache, TakeFromDatabase
  <2>4. Live(m) => Cover(m, envelope[m]) /\ Cover(m, rcpt[m])
    BY Zenon DEF MailInv, Cover, Stored
  <2>5. /\ mgr'.pc = "lock" => mgr'.obj.id = m /\ mgr'.obj.rcpts \in {envelope[m], rcpt[m]}
        /\ mgr'.pc # "post"
    BY <1>7, <2>2, Picks, Zenon
  <2>7. CASE mgr'.pc = "lock" /\ mgr'.obj.rcpts = envelope[m]
    BY <1>2, <1>3, <1>5, <2>3, <2>4, <2>5, <2>7, ManagingMail, Zenon
  <2>8. CASE mgr'.pc = "lock" /\ mgr'.obj.rcpts = rcpt[m]
    BY <1>2, <1>3, <1>5, <2>3, <2>4, <2>5, <2>8, ManagingMail, Zenon
  <2>9. CASE mgr'.pc # "lock"
    BY <1>2, <1>3, <1>5, <2>3, <2>5, <2>9, ManagingMail, Zenon
  <2> QED BY <2>5, <2>7, <2>8, <2>9, Zenon
<1>8. CASE LockMessage
  <2>1. PICK m \in Msgs : m = mgr.obj.id
    BY <1>4, <1>8, Zenon DEF LockMessage
  <2>2. posted' = posted /\ (mgr'.pc \in {"lock", "post"} => mgr'.obj = mgr.obj)
    <3>1. posted' = posted
      BY <1>8, Zenon DEF LockMessage
    <3> QED BY <1>8, <3>1, Locks, Zenon
  <2>3. Live(m) => Cover(m, mgr.obj.rcpts)
    BY <1>4, <1>8, <2>1, Zenon DEF LockMessage
  <2> QED BY <1>2, <1>3, <1>5, <2>1, <2>2, <2>3, ManagingMail, Zenon
<1>9. CASE AddTask
  <2>1. PICK m \in Msgs : m = mgr.obj.id
    BY <1>4, <1>9, Zenon DEF AddTask
  <2>2. mgr'.pc = "next" /\ \A t \in posted' : t \in posted \/ (mgr.pc = "post" /\ t = mgr.obj)
    BY <1>9, Zenon DEF AddTask, Manager
  <2> QED BY <1>2, <1>3, <1>5, <2>2, ManagingMail, Zenon
<1> QED BY <1>6, <1>7, <1>8, <1>9, Zenon DEF DoWork

\* The administrator deletes only what is recorded as deleted.
LEMMA AdminMail ==
  ASSUME IInv, MailInv, Administer
  PROVE  MailInv'
<1> USE DEF restOfAdmin, sessionVars, history
<1>1. row \in [Msgs -> Rows] /\ rcpt \in [Msgs -> SUBSET Rcpts] /\ file \in [Msgs -> Folders]
  BY Zenon DEF IInv, TypeOK, DelivererTypeOK, StoreTypeOK
<1>2. UNCHANGED <<reached, closed, cut, mgr, recv, envelope>> /\ posted' = posted
  BY Zenon DEF Administer, Clearer, Clear, ClearerStop, ClearerRefresh, ClearerNext, ClearerUncache,
     ClearerStart, Remove, RemoveLock, AdminDeleteRow, AdminDeleteRecipients, AdminDeleteFile,
     ResetDeliveryTime, ETRN
<1>3. Still
  <2>1. CASE ClearerStop
    <3>1. StopQueue
      BY <2>1, Zenon DEF ClearerStop
    <3> QED BY <1>2, <3>1, Stops, Zenon DEF Still, IInv, TypeOK
  <2>2. CASE worker' = worker
    BY <1>2, <2>2, Zenon DEF Still, Same, SameLocal, SameTask, SameRcpts, SameFlags
  <2> QED BY <2>1, <2>2, Zenon DEF Administer, Clearer, Clear, ClearerRefresh, ClearerNext, ClearerUncache,
       ClearerStart, Remove, RemoveLock, AdminDeleteRow, AdminDeleteRecipients, AdminDeleteFile,
       ResetDeliveryTime, ETRN
<1> DEFINE Purging == \A d \in {"clear", "remove"} :
             (deleter[d].pc \in {"delrcpt", "delfile"} => deleter[d].id \in purged)'
<1>4. \A d \in {"clear", "remove"} : deleter[d].pc \in {"delrcpt", "delfile"} => deleter[d].id \in purged
  BY Zenon DEF MailInv
\* Steps that keep what is queued.
<1>5. ASSUME UNCHANGED <<rcpt, file, purged>>, Purging, \A n \in Msgs : Queued(n) => Queued(n)'
      PROVE  MailInv'
  <2>1. \A n \in Msgs : Live(n)' => Live(n) /\ Persists(n)
    BY <1>2, <1>5, Zenon DEF Live, Persists, Stored
  <2>2. \A n \in Msgs : (recv[n] = "inserted" /\ n \notin purged)' => (Queued(n) /\ file[n] = "queue")'
    BY <1>2, <1>5, Zenon DEF MailInv
  <2> QED BY <1>2, <1>3, <1>5, <2>1, <2>2, OutsideMail, Zenon
\* Steps that touch only one message, and that one is purged.
<1>6. ASSUME NEW m \in Msgs, purged' = purged \cup {m}, Purging,
             \A n \in Msgs : n # m => row'[n] = row[n] /\ rcpt'[n] = rcpt[n] /\ file'[n] = file[n]
      PROVE  MailInv'
  <2>1. \A n \in Msgs : Live(n)' => Live(n) /\ Persists(n)
    BY <1>2, <1>6, Zenon DEF Live, Persists, Stored, Queued
  <2>2. \A n \in Msgs : (recv[n] = "inserted" /\ n \notin purged)' => (Queued(n) /\ file[n] = "queue")'
    BY <1>2, <1>6, Zenon DEF MailInv, Queued
  <2> QED BY <1>2, <1>3, <1>6, <2>1, <2>2, OutsideMail, Zenon
<1>7. CASE Clear \/ ClearerStop \/ ClearerRefresh \/ ClearerUncache \/ ClearerStart
  <2>1. UNCHANGED <<row, rcpt, file, purged, deleter>>
    BY <1>7, Zenon DEF Clear, ClearerStop, ClearerRefresh, ClearerUncache, ClearerStart
  <2> QED BY <1>4, <1>5, <2>1, Zenon DEF Queued
<1>8. ASSUME ClearerNext \/ \E m \in Msgs : Remove(m)
      PROVE  MailInv'
  <2>1. UNCHANGED <<row, rcpt, file, purged>>
    BY <1>8, Zenon DEF ClearerNext, Remove
  <2>2. deleter \in [{"clear", "remove"} ->
                    [pc : {"lock", "delrow", "delrcpt", "delfile"},
                     id : Msgs, type : Types, owner : Owners] \cup {NoDelete}]
    BY Zenon DEF IInv, TypeOK
  <2>3. \A d \in {"clear", "remove"} : deleter'[d] = deleter[d] \/ deleter'[d].pc \in {"lock", "delrow"}
    <3>1. CASE ClearerNext
      BY <2>2, <3>1 DEF ClearerNext
    <3>2. ASSUME NEW m \in Msgs, Remove(m)
          PROVE  \A d \in {"clear", "remove"} : deleter'[d] = deleter[d] \/ deleter'[d].pc \in {"lock", "delrow"}
      BY <2>2, <3>2, Zenon DEF Remove
    <3> QED BY <1>8, <3>1, <3>2, Zenon
  <2>4. Purging
    BY <1>4, <2>1, <2>3, Zenon
  <2> QED BY <1>5, <2>1, <2>4, Zenon DEF Queued
<1>9. CASE RemoveLock
  <2>1. deleter["remove"].id \in Msgs
    BY <1>9, Removing, Zenon DEF RemoveLock, IInv
  <2>2. deleter \in [{"clear", "remove"} ->
                    [pc : {"lock", "delrow", "delrcpt", "delfile"},
                     id : Msgs, type : Types, owner : Owners] \cup {NoDelete}]
    BY Zenon DEF IInv, TypeOK
  <2>3. \A d \in {"clear", "remove"} : deleter'[d] = deleter[d] \/ deleter'[d].pc \in {"idle", "delrow"}
    BY <1>9, <2>2 DEF RemoveLock, Deleter, Deleted, NoDelete
  <2>4. UNCHANGED <<rcpt, file, purged>>
    BY <1>9, Zenon DEF RemoveLock
  <2>5. Purging
    BY <1>4, <2>3, <2>4, Zenon
  <2>6. \A n \in Msgs : Queued(n) => Queued(n)'
    BY <1>1, <1>9, <2>1 DEF RemoveLock, LockObject, Update, Exists, Queued, Rows
  <2> QED BY <1>5, <2>4, <2>5, <2>6, Zenon
<1>10. ASSUME NEW d \in {"clear", "remove"},
              AdminDeleteRow(d) \/ AdminDeleteRecipients(d) \/ AdminDeleteFile(d)
       PROVE  MailInv'
  <2>1. deleter[d].id \in Msgs
    BY <1>10, Removing, Zenon DEF AdminDeleteRow, AdminDeleteRecipients, AdminDeleteFile, IInv
  <2>2. PICK m \in Msgs : m = deleter[d].id
    BY <2>1, Zenon
  <2>3. /\ \A e \in {"clear", "remove"} : e # d => deleter'[e] = deleter[e]
        /\ deleter'[d].id = m \/ deleter'[d].pc = "idle"
    <3>1. Deleted(d) \/ (\E pc : Deleter(d, pc))
      BY <1>10, Zenon DEF AdminDeleteRow, AdminDeleteRecipients, AdminDeleteFile
    <3>2. TypeOK /\ deleter[d].pc # "idle"
      BY <1>10, Zenon DEF AdminDeleteRow, AdminDeleteRecipients, AdminDeleteFile, IInv
    <3> QED BY <2>2, <3>1, <3>2, Removes, Zenon
  <2>4. \A n \in Msgs : n # m => row'[n] = row[n] /\ rcpt'[n] = rcpt[n] /\ file'[n] = file[n]
    BY <1>1, <1>10, <2>2, Zenon DEF AdminDeleteRow, AdminDeleteRecipients, AdminDeleteFile,
       DeleteRow, DeleteRecipients, DeleteQueueFile
  <2>5. CASE purged' = purged \cup {m}
    <3>1. Purging
      BY <1>4, <2>3, <2>5, Zenon
    <3> QED BY <1>6, <2>4, <2>5, <3>1, Zenon
  <2>6. CASE purged' # purged \cup {m}
    <3>1. AdminDeleteRow(d) /\ UNCHANGED <<row, rcpt, file, purged>> /\ Deleted(d)
      BY <1>4, <1>10, <2>2, <2>6, Zenon DEF AdminDeleteRow, AdminDeleteRecipients, AdminDeleteFile
    <3>2. deleter'[d].pc = "idle"
      BY <3>1, Zenon DEF Deleted, NoDelete, IInv, TypeOK
    <3>3. Purging
      BY <1>4, <2>3, <3>1, <3>2, Zenon
    <3> QED BY <1>5, <3>1, <3>3, Zenon DEF Queued
  <2> QED BY <2>5, <2>6, Zenon
<1>11. ASSUME ETRN \/ \E m \in Msgs : ResetDeliveryTime(m)
       PROVE  MailInv'
  <2>1. UNCHANGED <<rcpt, file, purged, deleter>>
    BY <1>11, Zenon DEF ETRN, ResetDeliveryTime, adminVars
  <2>2. \A n \in Msgs : Queued(n) => Queued(n)'
    <3>1. CASE ETRN
      BY <1>1, <3>1, Zenon DEF ETRN, ReleaseRoute, Queued, Rows
    <3>2. ASSUME NEW m \in Msgs, ResetDeliveryTime(m) PROVE \A n \in Msgs : Queued(n) => Queued(n)'
      BY <1>1, <3>2, Zenon DEF ResetDeliveryTime, SetNextTryTime, Queued, Rows
    <3> QED BY <1>11, <3>1, <3>2, Zenon
  <2> QED BY <1>4, <1>5, <2>1, <2>2, Zenon
<1> QED BY <1>7, <1>8, <1>9, <1>10, <1>11, Zenon DEF Administer, Clearer

\* What a dying process has in hand is cut, unless it is in the store with
\* everybody else.
LEMMA CrashMail ==
  ASSUME IInv, MailInv, Crash
  PROVE  MailInv'
<1>1. /\ posted' = {} /\ mgr'.pc = "start"
      /\ \A w \in Workers : worker'[w] = Idle
      /\ UNCHANGED <<row, rcpt, file, reached, closed, envelope, purged>>
      /\ \A d \in {"clear", "remove"} : deleter'[d] = NoDelete
  BY Zenon DEF Crash, Manager
<1>2. \A n \in Msgs : recv'[n] # "inserted" /\ (Live(n)' => Live(n))
  BY <1>1, Zenon DEF Crash, Live, IInv, TypeOK
<1>3. ASSUME NEW n \in Msgs, NEW r \in Rcpts, Done(n, r) PROVE Done(n, r)' \/ Stored(n, r)
  <2>1. cut'[n] = cut[n] \cup
          {s \in Rcpts : ~Stored(n, s) /\ \E w \in Workers : worker[w].id = n /\ s \in InHand(w)}
    BY Zenon DEF Crash
  <2>2. r \in reached[n] \cup closed[n] \cup cut'[n] \/ Stored(n, r)
    BY <1>3, <2>1, Zenon DEF Done, Settled
  <2> QED BY <1>1, <2>2, Zenon DEF Done, Settled
<1>4. ASSUME NEW n \in Msgs, Live(n)' PROVE Cover(n, Rcpts)'
  <2>1. \A r : Stored(n, r) => Stored(n, r)'
    BY <1>1, Zenon DEF Stored, Queued
  <2>2. Cover(n, Rcpts) /\ envelope[n] \subseteq Rcpts
    BY <1>2, <1>4, Zenon DEF MailInv, IInv, TypeOK
  <2> QED BY <1>1, <1>3, <2>1, <2>2, Zenon DEF Cover
<1>5. ASSUME NEW w \in Workers, NEW n \in Msgs
      PROVE  WorkerMail(w, n)'
  <2>1. worker'[w].id # n
    BY <1>1, NoId, Zenon
  <2> QED BY <2>1, Zenon DEF WorkerMail
<1>6. NoDelete.pc = "idle"
  BY Zenon DEF NoDelete
<1> QED BY <1>1, <1>2, <1>4, <1>5, <1>6, Zenon DEF MailInv

\* MailInv is inductive.
LEMMA MailStep ==
  ASSUME IInv, MailInv, [Next]_vars
  PROVE  MailInv'
<1>1. ASSUME NEW m \in Msgs, TimePasses(m)
      PROVE  MailInv'
  <2>1. UNCHANGED <<worker, reached, closed, cut, posted, mgr, recv, envelope, purged, deleter, rcpt, file>>
    BY <1>1, Zenon DEF TimePasses, restOfAdmin, sessionVars, adminVars, history
  <2>2. Still
    BY <2>1, Zenon DEF Still, Same, SameLocal, SameTask, SameRcpts, SameFlags
  <2>3. \A n \in Msgs : Queued(n) => Queued(n)'
    BY <1>1 DEF TimePasses, Queued, IInv, TypeOK, DelivererTypeOK, StoreTypeOK, Rows
  <2>4. \A n \in Msgs : Live(n)' => Live(n) /\ Persists(n)
    BY <2>1, <2>3, Zenon DEF Live, Persists, Stored
  <2> QED BY <2>1, <2>2, <2>3, <2>4, OutsideMail, Zenon DEF MailInv
<1>2. CASE UNCHANGED vars
  <2>1. UNCHANGED <<worker, reached, closed, cut, posted, mgr, recv, envelope, purged, deleter, row, rcpt, file>>
    BY <1>2, Zenon DEF vars, delivererVars, sessionVars, managerVars, adminVars
  <2>2. Still
    BY <2>1, Zenon DEF Still, Same, SameLocal, SameTask, SameRcpts, SameFlags
  <2>3. \A n \in Msgs : Live(n)' => Live(n) /\ Persists(n)
    BY <2>1, Zenon DEF Live, Persists, Stored, Queued
  <2> QED BY <2>1, <2>2, <2>3, OutsideMail, Zenon DEF MailInv, Queued
<1> QED BY <1>1, <1>2, ReceiveMail, ManagerMail, WorkMail, AdminMail, CrashMail, Zenon DEF Next

LEMMA MailInit ==
  ASSUME Init
  PROVE  MailInv
<1>1. /\ \A m \in Msgs : recv[m] = "new" /\ posted = {} /\ mgr.pc = "start"
      /\ \A w \in Workers : worker[w] = Idle
      /\ \A d \in {"clear", "remove"} : deleter[d] = NoDelete
      /\ posted = {} /\ mgr.pc = "start"
  BY Zenon DEF Init, DelivererInit
<1>2. \A w \in Workers, m \in Msgs : WorkerMail(w, m)
  BY <1>1, NoId, Zenon DEF WorkerMail
<1>3. NoDelete.pc = "idle"
  BY Zenon DEF NoDelete
<1> QED BY <1>1, <1>2, <1>3, Zenon DEF MailInv, Live

\* Nobody's mail evaporates, for any number of messages, recipients and threads,
\* any policy, any number of failing statements and restarts, and whatever an
\* administrator does: a recipient of a message that was answered with 250 has
\* it, has been given up with or without a report, is in the hands of a thread,
\* or is in the queue with all that a later attempt needs.
THEOREM NobodyIsLost ==
  ASSUME EarlySessions = FALSE
  PROVE  Spec => []NoMailLost
<1>1. Init => IInv /\ MailInv
  BY LockInit, MailInit, Zenon
<1>2. IInv /\ MailInv /\ [Next]_vars => (IInv /\ MailInv)'
  BY LockStep, MailStep, Zenon
<1>3. IInv /\ MailInv => NoMailLost
  BY Zenon DEF MailInv, Live, Cover, Done, Stored, NoMailLost
<1> QED BY <1>1, <1>2, <1>3, PTL DEF Spec
==============================================================================
