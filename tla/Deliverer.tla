----------------------------- MODULE Deliverer ------------------------------
(***************************************************************************)
(* The delivery threads: what happens to a message between the moment one  *)
(* of them takes its DeliveryTask and the moment the thread is free again. *)
(* A worker is a program counter into SMTPDeliverer::DeliverMessage and    *)
(* the locals of that call: the Message object, with the recipients it     *)
(* still carries, and the failures collected for the sender.               *)
(*                                                                         *)
(* The statements and file operations on the queue's own message are steps *)
(* of their own, so that other threads, a crash or an interruption can     *)
(* come between any two; those that make an account's copy are one step    *)
(* (CopyToAccount), and so are the note of a hold and the next try it sets *)
(* (HoldUnscannable).  What a scanner, a script, a rule or a remote server *)
(* answers is chosen freely.                                               *)
(***************************************************************************)
EXTENDS MessageStore

CONSTANTS
  Workers,         \* the threads of the SMTP delivery queue
  NoMsg,           \* the message of a worker that has none
  Silent,          \* recipients whose NOTIFY asks for no failure report
  EtrnRcpts,       \* external recipients on the one domain whose route says ETRN
  MaxNoOfRetries,  \* smtpnooftries
  AVFailAction,    \* TRUE: unscannable mail is held, never delivered
  AVFailMaxHolds,  \* holds of one message before it is returned
  MaxTrackedAvHolds, \* kMaxTrackedAvHolds
  HardLinks,       \* DeliveryHardLinks
  MaxFaults        \* bound on failing statements and file operations

ASSUME DelivererAssumption ==
  /\ NoMsg \notin Msgs
  /\ EtrnRcpts \subseteq ExternalRcpts
  /\ MaxNoOfRetries \in Nat
  /\ AVFailMaxHolds \in Nat
  /\ MaxTrackedAvHolds \in Nat
  /\ AVFailAction \in BOOLEAN
  /\ HardLinks \in BOOLEAN
  /\ MaxFaults \in Nat

VARIABLES
  running,   \* the SMTP delivery queue: FALSE while it is stopped
  posted,    \* the tasks handed to that queue and not started yet
  worker,    \* worker[w] : what delivery thread w is doing
  holds,     \* av_hold_counts_, 0 for a message without an entry
  faults,    \* failures so far
  \* What the outside world has seen of each message:
  reached,   \* recipients it was delivered to
  twice,     \* recipients it was delivered to more than once
  closed,    \* recipients given up by policy or reported to the sender
  cut,       \* recipients lost in hand: the thread was cut short, or the report
             \* to the sender could not be saved (HM6085)
  signed,    \* messages that were signed and mirrored
  resigned   \* messages that were signed and mirrored more than once

delivererVars ==
  <<row, rcpt, file, running, posted, worker, holds, faults,
    reached, twice, closed, cut, signed, resigned>>

\* A Message object as it sits in a task.
Tasks == [id : Msgs, rcpts : SUBSET Rcpts, tries : Nat, owner : Owners]

Steps ==
  {"check", "preprocess", "unscannable", "holdunlock", "local", "save",
   "localrow", "external", "collect", "reschedule", "unlock", "bounce", "refuse",
   "delrow", "delrcpt", "delfile"}

BusyStates ==
  [pc : Steps, id : Msgs, rcpts : SUBSET Rcpts, tries : Nat, owner : Owners,
   hit : BOOLEAN,      \* the thread has been asked to stop
   counted : BOOLEAN,  \* TakeAvHold_ had room for this message
   saved : BOOLEAN,    \* the object's state is Delivered
   reused : BOOLEAN,   \* messageReused
   kept : BOOLEAN,     \* messageRescheduled
   shared : BOOLEAN,   \* shared_template_ is not empty
   cur : SUBSET Rcpts, \* the local recipient being handled
   ok : SUBSET Rcpts, fatal : SUBSET Rcpts, \* verdicts not collected yet
   soft : SUBSET Rcpts,                     \* mapFailedDueToNonFatalError
   errs : SUBSET Rcpts]                     \* saErrorMessages

Idle ==
  [pc |-> "idle", id |-> NoMsg, rcpts |-> {}, tries |-> 0, owner |-> "none",
   hit |-> FALSE, counted |-> FALSE, saved |-> FALSE, reused |-> FALSE, kept |-> FALSE, shared |-> FALSE, cur |-> {},
   ok |-> {}, fatal |-> {}, soft |-> {}, errs |-> {}]

DelivererTypeOK ==
  /\ StoreTypeOK
  /\ running \in BOOLEAN
  /\ posted \in SUBSET Tasks
  /\ worker \in [Workers -> BusyStates \cup {Idle}]
  /\ holds \in [Msgs -> Nat]
  /\ faults \in Nat
  /\ reached \in [Msgs -> SUBSET Rcpts]
  /\ twice \in [Msgs -> SUBSET Rcpts]
  /\ closed \in [Msgs -> SUBSET Rcpts]
  /\ cut \in [Msgs -> SUBSET Rcpts]
  /\ signed \in SUBSET Msgs
  /\ resigned \in SUBSET Msgs

DelivererInit ==
  /\ row = [m \in Msgs |-> NoRow]
  /\ rcpt = [m \in Msgs |-> {}]
  /\ file = [m \in Msgs |-> "none"]
  /\ running = TRUE
  /\ posted = {}
  /\ worker = [w \in Workers |-> Idle]
  /\ holds = [m \in Msgs |-> 0]
  /\ faults = 0
  /\ reached = [m \in Msgs |-> {}]
  /\ twice = [m \in Msgs |-> {}]
  /\ closed = [m \in Msgs |-> {}]
  /\ cut = [m \in Msgs |-> {}]
  /\ signed = {}
  /\ resigned = {}

-----------------------------------------------------------------------------
\* A statement or a file operation either works or fails.
Works == UNCHANGED faults

Fails == faults < MaxFaults /\ faults' = faults + 1

\* A write of hm_messages whose result changes nothing in what follows.
WriteRow(r) ==
  \/ Works /\ row' = r
  \/ Fails /\ UNCHANGED row

At(w, pc) == worker[w].pc = pc

\* The worker goes on as the record next.
Continue(w, next) == worker' = [worker EXCEPT ![w] = next]

Goto(w, pc) == Continue(w, [worker[w] EXCEPT !.pc = pc])

Finish(w) == Continue(w, Idle)

Add(f, m, S) == [f EXCEPT ![m] = @ \cup S]

Reach(m, S) ==
  /\ reached' = Add(reached, m, S)
  /\ twice' = Add(twice, m, S \cap reached[m])

NoReach == UNCHANGED <<reached, twice>>

history == <<reached, twice, closed, cut, signed, resigned>>

queueVars == <<running, posted>>

-----------------------------------------------------------------------------
\* WorkQueue::ExecuteTask on a thread that is free.
ExecuteTask(w) ==
  /\ running
  /\ At(w, "idle")
  /\ \E t \in posted :
       /\ posted' = posted \ {t}
       /\ Continue(w, [Idle EXCEPT !.pc = "check", !.id = t.id, !.rcpts = t.rcpts,
                                    !.tries = t.tries, !.owner = t.owner])
  /\ UNCHANGED <<row, rcpt, file, running, holds, faults, history>>

\* No data file, or no recipients: the message is removed.
CheckMessage(w) ==
  LET m == worker[w].id IN
  /\ At(w, "check")
  /\ Goto(w, IF file[m] = "queue" /\ worker[w].rcpts # {} THEN "preprocess" ELSE "delrow")
  /\ UNCHANGED <<row, rcpt, file, queueVars, holds, faults, history>>

\* Scripts, the scanner and the global rules let the message through.  The
\* first attempt signs it and sends the mirror copy.
PreprocessMessage(w) ==
  LET m == worker[w].id IN
  /\ At(w, "preprocess")
  /\ Goto(w, "local")
  /\ holds' = [holds EXCEPT ![m] = 0]
  /\ IF worker[w].tries = 0
     THEN /\ signed' = signed \cup {m}
          /\ resigned' = resigned \cup ({m} \cap signed)
     ELSE UNCHANGED <<signed, resigned>>
  /\ UNCHANGED <<row, rcpt, file, queueVars, faults, reached, twice, closed, cut>>

\* A script, a virus or a global rule ends the delivery.
AbortDelivery(w) ==
  LET m == worker[w].id IN
  /\ At(w, "preprocess")
  /\ Goto(w, "delrow")
  /\ holds' = [holds EXCEPT ![m] = 0]
  /\ closed' = Add(closed, m, worker[w].rcpts)
  /\ UNCHANGED <<row, rcpt, file, queueVars, faults, reached, twice, cut, signed, resigned>>

\* Mutant: every held message gets an entry.
HoldCountedAlways(m) == TRUE

\* TakeAvHold_ answers a count, not -1.
HoldCounted(m) ==
  \/ holds[m] > 0
  \/ Cardinality({n \in Msgs : holds[n] > 0}) < MaxTrackedAvHolds

\* Mutant: the message is signed and mirrored before it is scanned.
DeferSigned(w) ==
  LET m == worker[w].id IN
  /\ AVFailAction
  /\ At(w, "preprocess")
  /\ Continue(w, [worker[w] EXCEPT !.pc = "unscannable", !.counted = HoldCounted(m)])
  /\ IF worker[w].tries = 0
     THEN /\ signed' = signed \cup {m}
          /\ resigned' = resigned \cup ({m} \cap signed)
     ELSE UNCHANGED <<signed, resigned>>
  /\ UNCHANGED <<row, rcpt, file, queueVars, holds, faults, reached, twice, closed, cut>>

\* No scanner could look at the message and AVFailAction is 1.  Whether the
\* hold is counted is decided here, and recorded in a later step.
DeferDelivery(w) ==
  /\ AVFailAction
  /\ At(w, "preprocess")
  /\ Continue(w, [worker[w] EXCEPT !.pc = "unscannable", !.counted = HoldCounted(worker[w].id)])
  /\ UNCHANGED <<row, rcpt, file, queueVars, holds, faults, history>>

HoldsLeft(w) ==
  /\ AVFailMaxHolds > 0
  /\ worker[w].counted => holds[worker[w].id] < AVFailMaxHolds

\* HandleUnscannableMessage_ keeps the message for another attempt, which
\* does not count as a try.
HoldUnscannable(w) ==
  LET m == worker[w].id IN
  /\ At(w, "unscannable")
  /\ HoldsLeft(w)
  /\ holds' = IF worker[w].counted THEN [holds EXCEPT ![m] = @ + 1] ELSE holds
  /\ WriteRow(SetNextTryTime(m, FALSE, FALSE))
  /\ Goto(w, "holdunlock")
  /\ UNCHANGED <<rcpt, file, queueVars, history>>

UnlockHeld(w) ==
  LET m == worker[w].id IN
  /\ At(w, "holdunlock")
  /\ WriteRow(UnlockObject(m))
  /\ Finish(w)
  /\ UNCHANGED <<rcpt, file, queueVars, holds, history>>

\* HandleUnscannableMessage_ has no hold left: every recipient is reported.
RefuseUnscannable(w) ==
  LET m == worker[w].id IN
  /\ At(w, "unscannable")
  /\ ~HoldsLeft(w)
  /\ holds' = [holds EXCEPT ![m] = 0]
  /\ Continue(w, [worker[w] EXCEPT !.pc = "refuse", !.errs = worker[w].rcpts])
  /\ UNCHANGED <<row, rcpt, file, queueVars, faults, history>>

-----------------------------------------------------------------------------
\* LocalDelivery::Perform takes the local recipients one at a time.
Handling(w, r) == At(w, "local") /\ r \in worker[w].rcpts \cap LocalRcpts

\* The vector still holds the external recipients, so its size is 1 only for
\* a local recipient that is the last of all.
LastRecipient(w, r) == worker[w].rcpts = {r} /\ ~worker[w].shared

\* Whether there is a template to link copies to after recipient r: SharedTemplate_
\* may have made it, for anyone but the last, before r's copy is kept or dropped.
Template(w, r) ==
  {worker[w].shared} \cup (IF LastRecipient(w, r) THEN {} ELSE {HardLinks})

\* The worker goes on as next, and r is reported to the sender unless its
\* NOTIFY declines that.
LocalFailure(w, r, next) ==
  /\ Continue(w, [next EXCEPT !.errs = @ \cup ({r} \ Silent)])
  /\ closed' = Add(closed, worker[w].id, {r} \cap Silent)

\* The account is gone (HM5165), or one of its rules, scripts or filters
\* drops its copy: nobody is told.
DropLocal(w, r) ==
  LET m == worker[w].id IN
  /\ Handling(w, r)
  /\ \E shared \in Template(w, r) :
       Continue(w, [worker[w] EXCEPT !.pc = "localrow", !.cur = {r}, !.shared = shared])
  /\ closed' = Add(closed, m, {r})
  /\ UNCHANGED <<row, rcpt, file, queueVars, holds, faults, reached, twice, cut, signed, resigned>>

\* CheckAccountQuotas_ or a Sieve reject refuses the message.
RejectLocal(w, r) ==
  /\ Handling(w, r)
  /\ \E shared \in Template(w, r) :
       LocalFailure(w, r, [worker[w] EXCEPT !.pc = "localrow", !.cur = {r}, !.shared = shared])
  /\ UNCHANGED <<row, rcpt, file, queueVars, holds, faults, reached, twice, cut, signed, resigned>>

\* A copy of the file is made for the account and saved as a new row.  The
\* copy carries the recipient, whose row is thereby inserted once more.
CopyToAccount(w, r) ==
  LET m == worker[w].id IN
  /\ Handling(w, r)
  /\ ~LastRecipient(w, r)
  /\ \E shared \in Template(w, r) :
       LET next == [worker[w] EXCEPT !.pc = "localrow", !.cur = {r}, !.shared = shared]
       IN  \/ /\ Works
              /\ file[m] = "queue" \/ worker[w].shared
              /\ Continue(w, next)
              /\ rcpt' = Add(rcpt, m, {r})
              /\ Reach(m, {r})
              /\ UNCHANGED closed
           \/ /\ Fails \/ (file[m] # "queue" /\ UNCHANGED faults)
              /\ LocalFailure(w, r, next)
              /\ rcpt' \in {rcpt, Add(rcpt, m, {r})}
              /\ NoReach
  /\ UNCHANGED <<row, file, queueVars, holds, cut, signed, resigned>>

\* CreateAccountLevelMessage_ on the last recipient: the queue's own file is
\* moved to the account.  When that fails messageReused stays true.
ReuseMessage(w, r) ==
  LET m == worker[w].id IN
  /\ Handling(w, r)
  /\ LastRecipient(w, r)
  /\ \/ /\ Works
        /\ file[m] = "queue"
        /\ file' = MoveFileToUserFolder(m)
        /\ Continue(w, [worker[w] EXCEPT !.pc = "save", !.cur = {r},
                                         !.reused = TRUE, !.owner = "user"])
        /\ UNCHANGED closed
     \/ /\ Fails \/ (file[m] # "queue" /\ UNCHANGED faults)
        /\ LocalFailure(w, r, [worker[w] EXCEPT !.pc = "localrow", !.cur = {r},
                                                !.reused = TRUE, !.owner = "user"])
        /\ UNCHANGED file
  /\ UNCHANGED <<row, rcpt, queueVars, holds, reached, twice, cut, signed, resigned>>

\* The object goes back to the queue's hands, its file is deleted.
GiveBack(w) == [worker[w] EXCEPT !.pc = "localrow", !.reused = FALSE, !.owner = "none"]

\* LocalDeliveryPreProcess_ drops or rejects the message whose file was moved.
DropReused(w) ==
  LET m == worker[w].id IN
  /\ At(w, "save")
  /\ file' = [file EXCEPT ![m] = "none"]
  /\ \/ /\ Continue(w, GiveBack(w))
        /\ closed' = Add(closed, m, worker[w].cur)
     \/ \E r \in worker[w].cur : LocalFailure(w, r, GiveBack(w))
  /\ UNCHANGED <<row, rcpt, queueVars, holds, faults, reached, twice, cut, signed, resigned>>

\* The row of the queued message becomes the row of the mailbox.
SaveReused(w) ==
  LET m == worker[w].id IN
  /\ At(w, "save")
  /\ \/ /\ Works
        /\ row' = SaveDelivered(m)
        /\ Continue(w, [worker[w] EXCEPT !.pc = "localrow", !.saved = TRUE])
        /\ Reach(m, worker[w].cur)
        /\ UNCHANGED <<file, closed>>
     \/ /\ Fails
        /\ file' = [file EXCEPT ![m] = "none"]
        /\ \E r \in worker[w].cur : LocalFailure(w, r, [GiveBack(w) EXCEPT !.saved = TRUE])
        /\ NoReach /\ UNCHANGED row
  /\ UNCHANGED <<rcpt, queueVars, holds, cut, signed, resigned>>

\* The recipient leaves the vector whether or not its row could be deleted.
DeleteLocalRecipient(w) ==
  LET m == worker[w].id IN
  /\ At(w, "localrow")
  /\ \E r \in worker[w].cur :
       \/ Works /\ rcpt' = DeleteRecipient(m, r)
       \/ Fails /\ UNCHANGED rcpt
  /\ Continue(w, [worker[w] EXCEPT !.pc = "local", !.cur = {}, !.rcpts = @ \ worker[w].cur])
  /\ UNCHANGED <<row, file, queueVars, holds, history>>

LocalDone(w) ==
  /\ At(w, "local")
  /\ worker[w].rcpts \cap LocalRcpts = {}
  /\ Goto(w, IF worker[w].rcpts # {} THEN "external" ELSE "bounce")
  /\ UNCHANGED <<row, rcpt, file, queueVars, holds, faults, history>>

-----------------------------------------------------------------------------
\* ExternalDelivery::Perform: one batch of recipients is offered to a server,
\* which accepts some, refuses some for good and leaves the rest for later.
DeliverBatch(w) ==
  LET m == worker[w].id IN
  /\ At(w, "external")
  /\ \E batch \in SUBSET worker[w].rcpts \ {{}}, ok, fatal \in SUBSET worker[w].rcpts :
       /\ ok \cup fatal \subseteq batch
       /\ ok \cap fatal = {}
       /\ ok # {} => file[m] = "queue"
       /\ Continue(w, [worker[w] EXCEPT !.pc = "collect", !.rcpts = @ \ batch,
                                        !.ok = ok, !.fatal = fatal,
                                        !.soft = @ \cup (batch \ (ok \cup fatal))])
       /\ Reach(m, ok)
  /\ UNCHANGED <<row, rcpt, file, queueVars, holds, faults, closed, cut, signed, resigned>>

\* CollectDeliveryResult_, one recipient at a time.  A row that cannot be
\* deleted is reported and left.
CollectDeliveryResult(w) ==
  LET m == worker[w].id IN
  /\ At(w, "collect")
  /\ \E r \in worker[w].ok \cup worker[w].fatal :
       /\ Continue(w, [worker[w] EXCEPT !.ok = @ \ {r}, !.fatal = @ \ {r},
                                        !.errs = @ \cup (({r} \cap worker[w].fatal) \ Silent)])
       /\ closed' = Add(closed, m, {r} \cap worker[w].fatal \cap Silent)
       /\ \/ Works /\ rcpt' = DeleteRecipient(m, r)
          \/ Fails /\ UNCHANGED rcpt
  /\ UNCHANGED <<row, file, queueVars, holds, reached, twice, cut, signed, resigned>>

Collected(w) ==
  /\ At(w, "collect")
  /\ worker[w].ok \cup worker[w].fatal = {}
  /\ Goto(w, IF worker[w].rcpts # {} THEN "external"
             ELSE IF worker[w].soft # {} THEN "reschedule" ELSE "bounce")
  /\ UNCHANGED <<row, rcpt, file, queueVars, holds, faults, history>>

\* Mutant: one recipient of the route among those that failed is enough.
HoldForEtrnMixed(w) ==
  LET m == worker[w].id IN
  /\ At(w, "reschedule")
  /\ worker[w].soft \cap EtrnRcpts # {}
  /\ WriteRow(HoldForRoute(m))
  /\ Goto(w, "unlock")
  /\ UNCHANGED <<rcpt, file, queueVars, holds, history>>

\* GetRetryOptions_: only one route failed, and its description says ETRN.
HoldForEtrn(w) ==
  LET m == worker[w].id IN
  /\ At(w, "reschedule")
  /\ worker[w].soft \subseteq EtrnRcpts
  /\ WriteRow(HoldForRoute(m))
  /\ Goto(w, "unlock")
  /\ UNCHANGED <<rcpt, file, queueVars, holds, history>>

\* Mutant: the attempt does not count as a try.
RescheduleUncounted(w) ==
  LET m == worker[w].id IN
  /\ At(w, "reschedule")
  /\ ~(worker[w].soft \subseteq EtrnRcpts)
  /\ worker[w].tries < MaxNoOfRetries
  /\ WriteRow(SetNextTryTime(m, FALSE, FALSE))
  /\ Goto(w, "unlock")
  /\ UNCHANGED <<rcpt, file, queueVars, holds, history>>

\* Mutant: one retry too many.
RescheduleOnceMore(w) ==
  LET m == worker[w].id IN
  /\ At(w, "reschedule")
  /\ ~(worker[w].soft \subseteq EtrnRcpts)
  /\ worker[w].tries <= MaxNoOfRetries
  /\ WriteRow(SetNextTryTime(m, TRUE, FALSE))
  /\ Goto(w, "unlock")
  /\ UNCHANGED <<rcpt, file, queueVars, holds, history>>

RescheduleDelivery(w) ==
  LET m == worker[w].id IN
  /\ At(w, "reschedule")
  /\ ~(worker[w].soft \subseteq EtrnRcpts)
  /\ worker[w].tries < MaxNoOfRetries
  /\ WriteRow(SetNextTryTime(m, TRUE, FALSE))
  /\ Goto(w, "unlock")
  /\ UNCHANGED <<rcpt, file, queueVars, holds, history>>

\* Mutant: messageRescheduled is not set.
UnlockNotKept(w) ==
  LET m == worker[w].id IN
  /\ At(w, "unlock")
  /\ WriteRow(UnlockObject(m))
  /\ Goto(w, "bounce")
  /\ UNCHANGED <<rcpt, file, queueVars, holds, history>>

\* Mutant: the message is kept but its lock is not released.
KeepLocked(w) ==
  /\ At(w, "unlock")
  /\ Continue(w, [worker[w] EXCEPT !.pc = "bounce", !.kept = TRUE])
  /\ UNCHANGED <<row, rcpt, file, queueVars, holds, faults, history>>

\* The result of UnlockObject is not looked at.
UnlockRescheduled(w) ==
  LET m == worker[w].id IN
  /\ At(w, "unlock")
  /\ WriteRow(UnlockObject(m))
  /\ Continue(w, [worker[w] EXCEPT !.pc = "bounce", !.kept = TRUE])
  /\ UNCHANGED <<rcpt, file, queueVars, holds, history>>

\* Mutant: the recipients that used up their retries are not reported.
GiveUpQuietly(w) ==
  /\ At(w, "reschedule")
  /\ ~(worker[w].soft \subseteq EtrnRcpts)
  /\ ~(worker[w].tries < MaxNoOfRetries)
  /\ Goto(w, "bounce")
  /\ UNCHANGED <<row, rcpt, file, queueVars, holds, faults, history>>

\* The last attempt has failed.
GiveUp(w) ==
  LET m == worker[w].id IN
  /\ At(w, "reschedule")
  /\ ~(worker[w].soft \subseteq EtrnRcpts)
  /\ ~(worker[w].tries < MaxNoOfRetries)
  /\ Continue(w, [worker[w] EXCEPT !.pc = "bounce", !.errs = @ \cup (worker[w].soft \ Silent)])
  /\ closed' = Add(closed, m, worker[w].soft \cap Silent)
  /\ UNCHANGED <<row, rcpt, file, queueVars, holds, faults, reached, twice, cut, signed, resigned>>

-----------------------------------------------------------------------------
\* SubmitErrorLog_ (a report it declines to send counts as given up by
\* policy), and then what becomes of the queue row: kept for a later
\* attempt or by the mailbox, left where it is when the object claims an
\* account (HM5208), deleted otherwise.
SubmitErrorLog(w) ==
  LET m == worker[w].id IN
  /\ At(w, "bounce") \/ At(w, "refuse")
  /\ \/ Works /\ closed' = Add(closed, m, worker[w].errs) /\ UNCHANGED cut
     \/ Fails /\ cut' = Add(cut, m, worker[w].errs) /\ UNCHANGED closed
  /\ IF At(w, "bounce") /\ (worker[w].reused \/ worker[w].kept \/ worker[w].owner # "none")
     THEN Finish(w)
     ELSE Continue(w, [worker[w] EXCEPT !.pc = "delrow", !.errs = {}])
  /\ UNCHANGED <<row, rcpt, file, queueVars, holds, reached, twice, signed, resigned>>

\* DeleteQueuedMessageOrReport: the three steps of PersistentMessage's
\* DeleteObject.  Any that fails is reported (HM6104) and ends the task.
DeleteQueueRow(w) ==
  LET m == worker[w].id IN
  /\ At(w, "delrow")
  /\ \/ /\ Works /\ row' = DeleteRow(m)
        /\ Goto(w, IF worker[w].saved THEN "delfile" ELSE "delrcpt")
     \/ Fails /\ Finish(w) /\ UNCHANGED row
  /\ UNCHANGED <<rcpt, file, queueVars, holds, history>>

DeleteQueueRecipients(w) ==
  LET m == worker[w].id IN
  /\ At(w, "delrcpt")
  /\ \/ Works /\ rcpt' = DeleteRecipients(m) /\ Goto(w, "delfile")
     \/ Fails /\ Finish(w) /\ UNCHANGED rcpt
  /\ UNCHANGED <<row, file, queueVars, holds, history>>

\* An object that claims an account is looked for in that account's folder.
DeleteDataFile(w) ==
  LET m == worker[w].id IN
  /\ At(w, "delfile")
  /\ \/ Works /\ file' = DeleteQueueFile(m)
     \/ (Fails \/ (worker[w].owner # "none" /\ UNCHANGED faults)) /\ UNCHANGED file
  /\ Finish(w)
  /\ UNCHANGED <<row, rcpt, queueVars, holds, history>>

\* What is lost when the worker goes no further: failures nobody has been told
\* of, and a message that is in the account's folder but not in its mailbox.
InHand(w) == worker[w].errs \cup (IF At(w, "save") THEN worker[w].cur ELSE {})

\* WorkQueue::Stop interrupts its threads.  One that waits, for a remote
\* server or for a database connection, abandons its task there; the others
\* get that far whether or not the queue has been started again.
StopQueue ==
  /\ running' = FALSE
  /\ worker' = [w \in Workers |-> IF At(w, "idle") THEN worker[w]
                                  ELSE [worker[w] EXCEPT !.hit = TRUE]]

Interrupt(w) ==
  /\ worker[w].hit
  /\ cut' = Add(cut, worker[w].id, InHand(w))
  /\ Finish(w)
  /\ UNCHANGED <<row, rcpt, file, queueVars, holds, faults, reached, twice, closed, signed, resigned>>

\* Every step of one delivery attempt.
Deliver(w) ==
  \/ CheckMessage(w)
  \/ PreprocessMessage(w)
  \/ AbortDelivery(w)
  \/ DeferDelivery(w)
  \/ HoldUnscannable(w)
  \/ UnlockHeld(w)
  \/ RefuseUnscannable(w)
  \/ \E r \in LocalRcpts :
       DropLocal(w, r) \/ RejectLocal(w, r) \/ CopyToAccount(w, r) \/ ReuseMessage(w, r)
  \/ DropReused(w)
  \/ SaveReused(w)
  \/ DeleteLocalRecipient(w)
  \/ LocalDone(w)
  \/ DeliverBatch(w)
  \/ CollectDeliveryResult(w)
  \/ Collected(w)
  \/ HoldForEtrn(w)
  \/ RescheduleDelivery(w)
  \/ UnlockRescheduled(w)
  \/ GiveUp(w)
  \/ SubmitErrorLog(w)
  \/ DeleteQueueRow(w)
  \/ DeleteQueueRecipients(w)
  \/ DeleteDataFile(w)

-----------------------------------------------------------------------------
\* A worker answers for the message it delivers until it has unlocked it.
Delivering(w, m) == worker[w].id = m /\ ~At(w, "idle") /\ ~worker[w].kept
=============================================================================
