------------------------- MODULE DeliveryOnceProofs -------------------------
(***************************************************************************)
(* What a message may cost its recipients and the queue, for any constants *)
(* for which no session saves a message before the manager has run         *)
(* UnlockAll: nobody is sent it twice and it is signed once (as long as    *)
(* nothing fails and nothing restarts), its retries are bounded, and it is *)
(* held for an ETRN only when everybody it is still for is on the route.   *)
(*                                                                         *)
(* The invariant is a ledger per message.  It says of the tables, and of   *)
(* each object a delivery goes through (the listed row, the manager's      *)
(* object, the posted task, the thread), what the object must agree on     *)
(* with the tables and with what the world has seen.                       *)
(***************************************************************************)
EXTENDS MailSteps, DeliveryQueueProofs

\* Nothing has failed, the server has not been restarted, and m was not picked
\* up from the cache a second time.
Smooth(m) == faults = 0 /\ crashes = 0 /\ m \notin stale

\* Whoever still has a row has not been sent the message.
Clean(m) == rcpt[m] \cap reached[m] = {}

\* A queued message that was signed has used a try.
Tried(m) == m \in signed /\ Queued(m) => row[m].tries > 0

\* An object that says tries may be delivered: if it says 0, m is not signed yet.
Fresh(m, tries) == Clean(m) /\ Tried(m) /\ (m \in signed => tries > 0)

Allowed(m) == MaxNoOfRetries + (IF m \in stale THEN 1 ELSE 0)

\* If the object has a retry left so has the row.
Budget(m, tries) == Queued(m) /\ tries < MaxNoOfRetries => row[m].tries < Allowed(m)

Within(m) ==
  Queued(m) => row[m].tries <= Allowed(m) \/ (row[m].tries = 1 /\ EtrnRcpts # {})

RouteOnly(m) == faults = 0 /\ row[m].type = "held" => rcpt[m] \subseteq EtrnRcpts

Untouched(m) ==
  row[m].tries = 0 /\ row[m].type # "held" /\ reached[m] = {} /\ m \notin signed

MessageInv(m) ==
  /\ recv[m] \in {"new", "inserted", "saved"} => m \notin taken
  /\ recv[m] = "new" => rcpt[m] = {}
  /\ m \notin taken => Untouched(m)
  /\ m \in cache => recv[m] = "accepted"
  /\ m \in stale => m \notin cache /\ recv[m] = "accepted"
  /\ rcpt[m] \subseteq envelope[m]
  /\ Within(m)
  /\ RouteOnly(m)
  /\ Smooth(m) =>
       /\ twice[m] = {} /\ m \notin resigned
       /\ ~LockedOrGone(m) => Clean(m) /\ Tried(m)
       /\ mgr.pc = "start" => m \notin taken

\* An entry of pending_messages_.
EntryInv(m, tries) ==
  /\ Budget(m, tries) /\ row[m].type # "held"
  /\ Smooth(m) => Fresh(m, tries)

\* The manager's object, and the task it posts.
TaskInv(m, t) ==
  /\ m \in taken /\ Budget(m, t.tries) /\ row[m].type # "held"
  /\ t.rcpts \subseteq envelope[m]
  /\ faults = 0 => rcpt[m] \subseteq t.rcpts
  /\ Smooth(m) => Fresh(m, t.tries) /\ t.rcpts \cap reached[m] = {}

\* The steps before m is signed.
Early == {"check", "preprocess", "unscannable", "holdunlock"}

\* Recipients that have the message while their rows are still to be deleted.
Unrecorded(x) ==
  IF x.pc = "localrow" THEN x.cur ELSE IF x.pc = "collect" THEN x.ok ELSE {}

\* Recipients a thread knows of.
Known(x) ==
  x.rcpts \cup x.soft \cup (IF x.pc = "collect" THEN x.ok \cup x.fatal ELSE {})

AttemptInv(m, x) ==
  /\ m \in taken
  /\ x.pc # "unlock" => Budget(m, x.tries) /\ row[m].type # "held"
  /\ x.rcpts \subseteq envelope[m] /\ x.rcpts \cap x.soft = {}
  /\ x.pc \in {"save", "localrow"} => \E r \in x.rcpts : x.cur = {r}
  /\ x.pc \in {"reschedule", "unlock"} => x.rcpts = {} /\ x.soft # {}
  /\ faults = 0 => rcpt[m] \subseteq Known(x)
  /\ Smooth(m) =>
       /\ x.pc \in Early => Fresh(m, x.tries)
       /\ x.pc = "unlock" => Tried(m)
       /\ reached[m] \cap (x.rcpts \cup x.soft) \subseteq (IF x.pc = "localrow" THEN x.cur ELSE {})
       /\ reached[m] \cap rcpt[m] \subseteq Unrecorded(x)

Ledger(m) ==
  /\ MessageInv(m)
  /\ \A p \in pending : p.id = m => EntryInv(m, p.tries)
  /\ InManager(m) => TaskInv(m, mgr.obj)
  /\ \A t \in posted : t.id = m => TaskInv(m, t)
  /\ \A w \in Workers : Delivering(w, m) => AttemptInv(m, worker[w])

LedgerInv == \A m \in Msgs : Ledger(m)

-----------------------------------------------------------------------------
(* Steps that take from a message, or leave it alone *)

\* Failures and restarts are counted for good.
Counts == (faults' = 0 => faults = 0) /\ (crashes' = 0 => crashes = 0)

Recorded(m) ==
  /\ reached'[m] = reached[m] /\ twice'[m] = twice[m]
  /\ m \in signed' <=> m \in signed
  /\ m \in resigned' <=> m \in resigned

\* The row is kept, unlocked only when nobody has seen the message, or deleted.
Eases(m) ==
  /\ row'[m].tries \in {row[m].tries, 0}
  /\ Queued(m)' => Queued(m) /\ row'[m].tries = row[m].tries
  /\ row'[m].type = "held" => row[m].type = "held"
  /\ m \in taken /\ LockedOrGone(m) /\ Smooth(m) => LockedOrGone(m)'
  /\ rcpt'[m] \subseteq rcpt[m]
  /\ Recorded(m)
  /\ m \in taken' <=> m \in taken
  /\ m \in stale' <=> m \in stale
  /\ m \in cache' => m \in cache
  /\ envelope'[m] = envelope[m]
  /\ recv'[m] = recv[m] \/ (recv'[m] = "refused" /\ recv[m] # "accepted")

LEMMA EaseFacts ==
  ASSUME NEW m \in Msgs, Eases(m), Counts
  PROVE  /\ Smooth(m)' => Smooth(m)
         /\ Clean(m) => Clean(m)'
         /\ Tried(m) => Tried(m)'
         /\ \A t : Fresh(m, t) => Fresh(m, t)'
         /\ \A t : Budget(m, t) => Budget(m, t)'
         /\ Within(m) => Within(m)'
         /\ RouteOnly(m) => RouteOnly(m)'
         /\ Untouched(m) => Untouched(m)'
<1>1. Allowed(m)' = Allowed(m)
  BY Zenon DEF Eases, Allowed
<1>2. Smooth(m)' => Smooth(m)
  BY Zenon DEF Eases, Counts, Smooth
<1>3. Clean(m) => Clean(m)'
  BY Zenon DEF Eases, Recorded, Clean
<1>4. Tried(m) => Tried(m)'
  BY Zenon DEF Eases, Recorded, Tried
<1>5. \A t : Fresh(m, t) => Fresh(m, t)'
  BY <1>3, <1>4, Zenon DEF Eases, Recorded, Fresh
<1>6. \A t : Budget(m, t) => Budget(m, t)'
  BY <1>1, Zenon DEF Eases, Budget
<1>7. Within(m) => Within(m)'
  BY <1>1, Zenon DEF Eases, Within
<1>8. RouteOnly(m) => RouteOnly(m)'
  BY Zenon DEF Eases, Counts, RouteOnly
<1>9. Untouched(m) => Untouched(m)'
  BY Zenon DEF Eases, Recorded, Untouched
<1> QED BY <1>2, <1>3, <1>4, <1>5, <1>6, <1>7, <1>8, <1>9, Zenon

LEMMA EaseMessage ==
  ASSUME NEW m \in Msgs, Eases(m), Counts, MessageInv(m),
         Smooth(m)' /\ mgr'.pc = "start" => mgr.pc = "start" \/ m \notin taken
  PROVE  MessageInv(m)'
<1>2. Smooth(m)' => Smooth(m)
  BY EaseFacts, Zenon
<1>3. /\ (recv[m] \in {"new", "inserted", "saved"} => m \notin taken)'
      /\ (recv[m] = "new" => rcpt[m] = {})'
      /\ (m \in cache => recv[m] = "accepted")'
      /\ (m \in stale => m \notin cache /\ recv[m] = "accepted")'
      /\ (rcpt[m] \subseteq envelope[m])'
  BY Zenon DEF MessageInv, Eases
<1>4. (m \notin taken => Untouched(m))' /\ Within(m)' /\ RouteOnly(m)'
  BY EaseFacts, Zenon DEF MessageInv, Eases
<1>5. ASSUME Smooth(m)'
      PROVE  /\ twice'[m] = {} /\ m \notin resigned'
             /\ mgr'.pc = "start" => m \notin taken'
  BY <1>2, <1>5, Zenon DEF MessageInv, Eases, Recorded
<1>6. ASSUME Smooth(m)', ~LockedOrGone(m)'
      PROVE  Clean(m)' /\ Tried(m)'
  <2>1. CASE ~LockedOrGone(m)
    BY <1>2, <1>6, <2>1, EaseFacts, Zenon DEF MessageInv
  <2>2. CASE m \notin taken
    BY <2>2, <1>4, Zenon DEF Eases, Untouched, Clean, Tried
  <2> QED BY <1>2, <1>6, <2>1, <2>2, Zenon DEF Eases
<1> QED BY <1>3, <1>4, <1>5, <1>6, Zenon DEF MessageInv

LEMMA EaseEntry ==
  ASSUME NEW m \in Msgs, Eases(m), Counts, NEW tries, EntryInv(m, tries)
  PROVE  EntryInv(m, tries)'
BY EaseFacts, Zenon DEF EntryInv, Eases

LEMMA EaseTask ==
  ASSUME NEW m \in Msgs, Eases(m), Counts, NEW t, TaskInv(m, t)
  PROVE  TaskInv(m, t)'
<1>1. (faults = 0 => rcpt[m] \subseteq t.rcpts)'
  BY Zenon DEF TaskInv, Eases, Counts
<1>2. (Smooth(m) => Fresh(m, t.tries) /\ t.rcpts \cap reached[m] = {})'
  BY EaseFacts, Zenon DEF TaskInv, Eases, Recorded
<1> QED BY <1>1, <1>2, EaseFacts, Zenon DEF TaskInv, Eases

LEMMA EaseAttempt ==
  ASSUME NEW m \in Msgs, Eases(m), Counts, NEW x, AttemptInv(m, x)
  PROVE  AttemptInv(m, x)'
<1>1. (faults = 0 => rcpt[m] \subseteq Known(x))'
  BY Zenon DEF AttemptInv, Eases, Counts
<1>2. (Smooth(m) =>
        /\ x.pc \in Early => Fresh(m, x.tries)
        /\ x.pc = "unlock" => Tried(m))'
  BY EaseFacts, Zenon DEF AttemptInv
<1>3. (Smooth(m) =>
        /\ reached[m] \cap (x.rcpts \cup x.soft) \subseteq (IF x.pc = "localrow" THEN x.cur ELSE {})
        /\ reached[m] \cap rcpt[m] \subseteq Unrecorded(x))'
  <2>1. reached'[m] = reached[m] /\ rcpt'[m] \subseteq rcpt[m]
    BY Zenon DEF Eases, Recorded
  <2> QED BY <2>1, EaseFacts, Zenon DEF AttemptInv
<1>4. (x.pc # "unlock" => Budget(m, x.tries) /\ row[m].type # "held")'
  BY EaseFacts, Zenon DEF AttemptInv, Eases
<1> QED BY <1>1, <1>2, <1>3, <1>4, Zenon DEF AttemptInv, Eases

\* What AttemptInv looks at in a thread.
SameAttempt(x, y) ==
  /\ y.pc = x.pc /\ y.tries = x.tries /\ y.rcpts = x.rcpts /\ y.cur = x.cur
  /\ y.soft = x.soft /\ y.ok = x.ok /\ y.fatal = x.fatal

LEMMA SameEase ==
  ASSUME NEW m \in Msgs, Eases(m), Counts, NEW x, AttemptInv(m, x), NEW y, SameAttempt(x, y)
  PROVE  AttemptInv(m, y)'
<1>1. Known(y) = Known(x) /\ Unrecorded(y) = Unrecorded(x)
  BY Zenon DEF SameAttempt, Known, Unrecorded
<1>2. AttemptInv(m, y)
  BY <1>1, Zenon DEF AttemptInv, SameAttempt
<1> QED BY <1>2, EaseAttempt, Zenon

\* A step after which no object is new, or it agrees, keeps the ledger of a message it eases.
LEMMA EaseLedger ==
  ASSUME NEW m \in Msgs, Ledger(m), Eases(m), Counts,
         Smooth(m)' /\ mgr'.pc = "start" => mgr.pc = "start" \/ m \notin taken,
         \A p \in pending' : p.id = m => p \in pending \/ EntryInv(m, p.tries)',
         InManager(m)' => InManager(m) /\ mgr'.obj = mgr.obj,
         \A t \in posted' : t.id = m => t \in posted \/ (InManager(m) /\ t = mgr.obj),
         \A w \in Workers : Delivering(w, m)' =>
           \/ Delivering(w, m) /\ SameAttempt(worker[w], worker'[w])
           \/ AttemptInv(m, worker[w])'
  PROVE  Ledger(m)'
<1>1. MessageInv(m)'
  BY EaseMessage, Zenon DEF Ledger
<1>2. ASSUME NEW p \in pending', p.id = m PROVE EntryInv(m, p.tries)'
  BY <1>2, EaseEntry, Zenon DEF Ledger
<1>3. InManager(m) => TaskInv(m, mgr.obj)
  BY Zenon DEF Ledger
<1>4. ASSUME InManager(m) PROVE \A t : t = mgr.obj => TaskInv(m, t)'
  BY <1>3, <1>4, EaseTask, Zenon
<1>5. InManager(m)' => TaskInv(m, mgr.obj)'
  BY <1>4, Zenon
<1>6. ASSUME NEW t \in posted', t.id = m PROVE TaskInv(m, t)'
  BY <1>4, <1>6, EaseTask, Zenon DEF Ledger
<1>7. ASSUME NEW w \in Workers, Delivering(w, m)' PROVE AttemptInv(m, worker[w])'
  <2>1. CASE Delivering(w, m) /\ SameAttempt(worker[w], worker'[w])
    <3>1. \A x, y : x = worker[w] /\ y = worker'[w] => AttemptInv(m, y)'
      BY <2>1, SameEase, Zenon DEF Ledger
    <3> QED BY <3>1, Zenon
  <2> QED BY <1>7, <2>1, Zenon
<1> QED BY <1>1, <1>2, <1>5, <1>6, <1>7, Zenon DEF Ledger

-----------------------------------------------------------------------------
(* Steps of a delivery thread *)

\* Everything but the thread, its message's rows and the histories stays.
Aside(w) ==
  /\ Others(w) /\ posted' = posted
  /\ UNCHANGED <<recv, envelope, cache, mgr, pending, taken, stale, crashes>>

\* The step has not touched message n.
Spared(n) == row'[n] = row[n] /\ rcpt'[n] = rcpt[n] /\ Recorded(n)

LEMMA SparedEases ==
  ASSUME NEW n \in Msgs, Spared(n), UNCHANGED <<recv, envelope, cache, taken, stale>>
  PROVE  Eases(n)
BY Zenon DEF Spared, Eases, Queued, LockedOrGone

\* The ledger survives a step of thread w if the step settles the accounts of
\* the message the thread delivers.
LEMMA OwnLedger ==
  ASSUME IInv, LedgerInv, NEW w \in Workers, NEW m \in Msgs, worker[w].id = m, Aside(w), Counts,
         \A n \in Msgs : n # m => Spared(n),
         worker'[w].id = m \/ worker'[w] = Idle,
         Eases(m) \/ (Delivering(w, m) /\ MessageInv(m)'),
         Delivering(w, m)' => AttemptInv(m, worker[w])'
  PROVE  LedgerInv'
<1>1. /\ pending' = pending /\ mgr' = mgr /\ posted' = posted /\ Others(w)
      /\ UNCHANGED <<recv, envelope, cache, taken, stale>>
  BY Zenon DEF Aside
<1>2. \A n \in Msgs : InManager(n)' <=> InManager(n)
  BY <1>1, Zenon DEF InManager
<1>3. \A v \in Workers, n \in Msgs : v # w /\ Delivering(v, n)' =>
        Delivering(v, n) /\ SameAttempt(worker[v], worker'[v])
  BY <1>1, Zenon DEF Delivering, At, Others, SameAttempt
<1>4. ASSUME NEW n \in Msgs, n # m PROVE Ledger(n)'
  <2>1. Eases(n) /\ Ledger(n)
    BY <1>1, <1>4, SparedEases, Zenon DEF LedgerInv
  <2>2. ~Delivering(w, n)'
    BY <1>4, NoId, Zenon DEF Delivering
  <2>3. \A v \in Workers : Delivering(v, n)' =>
          Delivering(v, n) /\ SameAttempt(worker[v], worker'[v])
    BY <1>3, <2>2, Zenon
  <2> QED BY <1>1, <1>2, <2>1, <2>3, EaseLedger, Zenon
<1>5. Ledger(m)'
  <2>1. Ledger(m)
    BY Zenon DEF LedgerInv
  <2>2. CASE Eases(m)
    <3>1. \A v \in Workers : Delivering(v, m)' =>
            \/ Delivering(v, m) /\ SameAttempt(worker[v], worker'[v])
            \/ AttemptInv(m, worker[v])'
      BY <1>3, Zenon
    <3> QED BY <1>1, <1>2, <2>1, <2>2, <3>1, EaseLedger, Zenon
  <2>3. CASE Delivering(w, m) /\ MessageInv(m)'
    <3>1. InWorker(m)
      BY <2>3, Zenon DEF InWorker
    <3>2. \A p \in pending : p.id # m
      BY <3>1, Zenon DEF IInv, LockInv
    <3>3. ~InManager(m) /\ ~InQueue(m)
      BY <3>1, Zenon DEF IInv, OneDeliverer
    <3>4. \A v \in Workers : Delivering(v, m)' => v = w
      BY <1>3, <2>3, Zenon DEF IInv, OneDeliverer
    <3>5. \A t \in posted : t.id # m
      BY <3>3, Zenon DEF InQueue
    <3> QED BY <1>1, <1>2, <2>3, <3>2, <3>3, <3>4, <3>5, Zenon DEF Ledger
  <2> QED BY <2>2, <2>3, Zenon
<1> QED BY <1>4, <1>5, Zenon DEF LedgerInv

\* Moving on with the same recipients: what the next step of the thread needs.
MovesOn(x, y) ==
  /\ y.tries = x.tries /\ y.rcpts = x.rcpts /\ y.soft = x.soft
  /\ x.pc \notin {"unlock", "localrow"} /\ y.pc \notin {"unlock", "collect"}
  /\ x.pc = "collect" => x.ok \cup x.fatal = {}
  /\ y.pc \in Early => x.pc \in Early
  /\ y.pc \in {"save", "localrow"} => \E r \in y.rcpts : y.cur = {r}
  /\ y.pc = "reschedule" => y.rcpts = {} /\ y.soft # {}

LEMMA MovesOnEases ==
  ASSUME NEW m \in Msgs, Eases(m), Counts, NEW x, AttemptInv(m, x), NEW y, MovesOn(x, y)
  PROVE  AttemptInv(m, y)'
<1>1. AttemptInv(m, x)'
  BY EaseAttempt, Zenon
<1>2. Known(x) = y.rcpts \cup y.soft /\ Unrecorded(x) = {}
  BY Zenon DEF MovesOn, Known, Unrecorded
<1>3. Known(x) \subseteq Known(y)
  BY <1>2, Zenon DEF Known
<1>4. (faults = 0 => rcpt[m] \subseteq Known(y))'
  BY <1>1, <1>3, Zenon DEF AttemptInv
<1>5. (Smooth(m) =>
        /\ y.pc \in Early => Fresh(m, y.tries)
        /\ y.pc = "unlock" => Tried(m))'
  BY <1>1, Zenon DEF AttemptInv, MovesOn
<1>6. (Smooth(m) =>
        /\ reached[m] \cap (y.rcpts \cup y.soft) \subseteq (IF y.pc = "localrow" THEN y.cur ELSE {})
        /\ reached[m] \cap rcpt[m] \subseteq Unrecorded(y))'
  <2>1. Smooth(m)' => reached'[m] \cap (x.rcpts \cup x.soft) = {} /\ reached'[m] \cap rcpt'[m] = {}
    BY <1>1, <1>2, Zenon DEF AttemptInv, MovesOn
  <2> QED BY <2>1, Zenon DEF MovesOn
<1>7. (y.pc # "unlock" => Budget(m, y.tries) /\ row[m].type # "held")'
  BY <1>1, Zenon DEF AttemptInv, MovesOn
<1> QED BY <1>1, <1>4, <1>5, <1>6, <1>7, Zenon DEF AttemptInv, MovesOn

LEMMA CountsFaults ==
  ASSUME faults \in Nat, Works \/ Fails, crashes' = crashes
  PROVE  Counts
BY DEF Works, Fails, Counts

\* The thread delivers the message it has in hand.
Has(w, m) == worker[w] \in BusyStates /\ worker[w].id = m /\ ~worker[w].kept

LEMMA HasMessage ==
  ASSUME NEW w \in Workers, NEW m \in Msgs, Has(w, m), LedgerInv, IInv
  PROVE  /\ Delivering(w, m) /\ MessageInv(m) /\ AttemptInv(m, worker[w]) /\ m \in taken
         /\ LockedOrGone(m)
<1>1. Delivering(w, m)
  BY Zenon DEF Has, Delivering, At, BusyStates, Steps
<1>2. MessageInv(m) /\ AttemptInv(m, worker[w])
  BY <1>1, Zenon DEF LedgerInv, Ledger
<1>3. LockedOrGone(m)
  BY <1>1, Zenon DEF IInv, LockInv, InWorker
<1> QED BY <1>1, <1>2, <1>3, Zenon DEF AttemptInv

\* The thread moves on and the tables are the poorer for it, or the same.
LEMMA MoveLedger ==
  ASSUME IInv, LedgerInv, NEW w \in Workers, NEW m \in Msgs, Has(w, m), Aside(w),
         Works \/ Fails, \A n \in Msgs : n # m => Spared(n), Eases(m),
         worker'[w].id = m, MovesOn(worker[w], worker'[w])
  PROVE  LedgerInv'
<1>1. Counts
  BY CountsFaults, Zenon DEF IInv, TypeOK, DelivererTypeOK, Aside
<1>2. AttemptInv(m, worker[w]) /\ worker[w].id = m
  BY HasMessage, Zenon DEF Has
<1>3. \A x, y : x = worker[w] /\ y = worker'[w] => AttemptInv(m, y)'
  BY <1>1, <1>2, MovesOnEases, Zenon
<1>4. AttemptInv(m, worker[w])'
  BY <1>3, Zenon
<1> QED BY <1>1, <1>2, <1>4, OwnLedger, Zenon

\* The thread is done.
LEMMA EndLedger ==
  ASSUME IInv, LedgerInv, NEW w \in Workers, NEW m \in Msgs, worker[w].id = m, Aside(w),
         Works \/ Fails, \A n \in Msgs : n # m => Spared(n), Eases(m), worker'[w] = Idle
  PROVE  LedgerInv'
<1>1. Counts
  BY CountsFaults, Zenon DEF IInv, TypeOK, DelivererTypeOK, Aside
<1>2. ~Delivering(w, m)'
  BY NoId, Zenon DEF Delivering
<1> QED BY <1>1, <1>2, OwnLedger, Zenon

\* Tables and histories are as before.
Quiet == UNCHANGED <<row, rcpt, reached, twice, signed, resigned>>

LEMMA QuietSpares ==
  ASSUME Quiet, NEW w, Aside(w)
  PROVE  \A n \in Msgs : Spared(n) /\ Eases(n)
<1>1. \A n \in Msgs : Spared(n)
  BY Zenon DEF Quiet, Spared, Recorded
<1>2. UNCHANGED <<recv, envelope, cache, taken, stale>>
  BY Zenon DEF Aside
<1> QED BY <1>1, <1>2, SparedEases, Zenon

LEMMA QuietMove ==
  ASSUME IInv, LedgerInv, NEW w \in Workers, NEW m \in Msgs, Has(w, m), Aside(w),
         Works \/ Fails, Quiet, worker'[w].id = m, MovesOn(worker[w], worker'[w])
  PROVE  LedgerInv'
BY QuietSpares, MoveLedger, Zenon

\* What Work leaves alone.
Outside == UNCHANGED <<recv, envelope, cache, mgr, pending, taken, stale, crashes>>

LEMMA FirstSteps ==
  ASSUME IInv, LedgerInv, NEW w \in Workers, NEW m \in Msgs, Has(w, m), Outside,
         CheckMessage(w) \/ AbortDelivery(w) \/ DeferDelivery(w) \/ RefuseUnscannable(w)
  PROVE  LedgerInv'
<1> USE DEF queueVars, history
<1>1. DelivererTypeOK /\ worker[w].id = m
  BY Zenon DEF IInv, TypeOK, Has
<1>2. Quiet /\ Works /\ posted' = posted
  BY Zenon DEF CheckMessage, AbortDelivery, DeferDelivery, RefuseUnscannable, Quiet, Works
<1>3. CASE CheckMessage(w)
  <2>1. /\ worker[w].pc = "check" /\ Others(w) /\ worker'[w].pc \in {"preprocess", "delrow"}
        /\ Same(worker[w], worker'[w])
    BY <1>1, <1>3, Sent, Zenon DEF CheckMessage, At
  <2>2. worker'[w].id = m /\ MovesOn(worker[w], worker'[w])
    BY <1>1, <2>1, Zenon DEF Same, SameLocal, SameTask, SameRcpts, MovesOn, Early
  <2> QED BY <1>2, <2>1, <2>2, QuietMove, Zenon DEF Aside, Outside
<1>4. CASE AbortDelivery(w)
  <2>1. /\ worker[w].pc = "preprocess" /\ Others(w) /\ worker'[w].pc = "delrow"
        /\ Same(worker[w], worker'[w])
    BY <1>1, <1>4, Sent, Zenon DEF AbortDelivery, At
  <2>2. worker'[w].id = m /\ MovesOn(worker[w], worker'[w])
    BY <1>1, <2>1, Zenon DEF Same, SameLocal, SameTask, SameRcpts, MovesOn, Early
  <2> QED BY <1>2, <2>1, <2>2, QuietMove, Zenon DEF Aside, Outside
<1>5. CASE DeferDelivery(w)
  <2>1. /\ worker[w].pc = "preprocess" /\ Others(w) /\ worker'[w].pc = "unscannable"
        /\ SameLocal(worker[w], worker'[w])
    BY <1>1, <1>5, Defers, Zenon
  <2>2. worker'[w].id = m /\ MovesOn(worker[w], worker'[w])
    BY <1>1, <2>1, Zenon DEF SameLocal, SameTask, SameRcpts, MovesOn, Early
  <2> QED BY <1>2, <2>1, <2>2, QuietMove, Zenon DEF Aside, Outside
<1>6. CASE RefuseUnscannable(w)
  <2>1. /\ worker[w].pc = "unscannable" /\ Others(w) /\ worker'[w].pc = "refuse"
        /\ SameLocal(worker[w], worker'[w])
    BY <1>1, <1>6, Refuses, Zenon
  <2>2. worker'[w].id = m /\ MovesOn(worker[w], worker'[w])
    BY <1>1, <2>1, Zenon DEF SameLocal, SameTask, SameRcpts, MovesOn, Early
  <2> QED BY <1>2, <2>1, <2>2, QuietMove, Zenon DEF Aside, Outside
<1> QED BY <1>3, <1>4, <1>5, <1>6, Zenon

LEMMA LaterSteps ==
  ASSUME IInv, LedgerInv, NEW w \in Workers, NEW m \in Msgs, Has(w, m), Outside,
         LocalDone(w) \/ Collected(w) \/ GiveUp(w)
  PROVE  LedgerInv'
<1> USE DEF queueVars, history
<1>1. DelivererTypeOK /\ worker[w].id = m
  BY Zenon DEF IInv, TypeOK, Has
<1>2. Quiet /\ Works /\ posted' = posted
  BY Zenon DEF LocalDone, Collected, GiveUp, Quiet, Works
<1>3. CASE LocalDone(w)
  <2>1. /\ worker[w].pc = "local" /\ Others(w) /\ worker'[w].pc \in {"external", "bounce"}
        /\ Same(worker[w], worker'[w])
    BY <1>1, <1>3, Sent, Zenon DEF LocalDone, At
  <2>2. worker'[w].id = m /\ MovesOn(worker[w], worker'[w])
    BY <1>1, <2>1, Zenon DEF Same, SameLocal, SameTask, SameRcpts, MovesOn, Early
  <2> QED BY <1>2, <2>1, <2>2, QuietMove, Zenon DEF Aside, Outside
<1>4. CASE Collected(w)
  <2>1. /\ worker[w].pc = "collect" /\ Others(w) /\ Same(worker[w], worker'[w])
        /\ worker[w].ok \cup worker[w].fatal = {}
        /\ \/ worker'[w].pc \in {"external", "bounce"}
           \/ worker'[w].pc = "reschedule" /\ worker[w].rcpts = {} /\ worker[w].soft # {}
    <3>1. worker[w].pc = "collect" /\ worker[w].ok \cup worker[w].fatal = {} /\ ~At(w, "idle")
      BY <1>4, Zenon DEF Collected, At
    <3>2. CASE worker[w].rcpts # {}
      BY <1>1, <1>4, <3>1, <3>2, Sent, Zenon DEF Collected
    <3>3. CASE worker[w].rcpts = {} /\ worker[w].soft # {}
      BY <1>1, <1>4, <3>1, <3>3, Sent, Zenon DEF Collected
    <3>4. CASE worker[w].rcpts = {} /\ worker[w].soft = {}
      BY <1>1, <1>4, <3>1, <3>4, Sent, Zenon DEF Collected
    <3> QED BY <3>2, <3>3, <3>4, Zenon
  <2>2. worker'[w].id = m /\ MovesOn(worker[w], worker'[w])
    BY <1>1, <2>1, Zenon DEF Same, SameLocal, SameTask, SameRcpts, MovesOn, Early
  <2> QED BY <1>2, <2>1, <2>2, QuietMove, Zenon DEF Aside, Outside
<1>5. CASE GiveUp(w)
  <2>1. /\ worker[w].pc = "reschedule" /\ Others(w) /\ worker'[w].pc = "bounce"
        /\ SameLocal(worker[w], worker'[w])
    BY <1>1, <1>5, GivesUp, Zenon
  <2>2. worker'[w].id = m /\ MovesOn(worker[w], worker'[w])
    BY <1>1, <2>1, Zenon DEF SameLocal, SameTask, SameRcpts, MovesOn, Early
  <2> QED BY <1>2, <2>1, <2>2, QuietMove, Zenon DEF Aside, Outside
<1> QED BY <1>3, <1>4, <1>5, Zenon

\* The recipient is in hand and nothing has been sent.
LEMMA LocalSteps ==
  ASSUME IInv, LedgerInv, NEW w \in Workers, NEW m \in Msgs, Has(w, m), Outside,
         NEW r \in LocalRcpts, DropLocal(w, r) \/ RejectLocal(w, r) \/ ReuseMessage(w, r)
  PROVE  LedgerInv'
<1>1. DelivererTypeOK /\ worker[w].id = m
  BY Zenon DEF IInv, TypeOK, Has
<1>2. Quiet /\ posted' = posted /\ (Works \/ Fails)
  BY Zenon DEF DropLocal, RejectLocal, ReuseMessage, Quiet, Works, queueVars
<1>3. Handled(w, r) /\ worker'[w].pc \in {"save", "localrow"}
  BY <1>1, Drops, Rejects, Reuses, Zenon
<1>4. worker'[w].id = m /\ MovesOn(worker[w], worker'[w])
  BY <1>1, <1>3, Zenon DEF Handled, SameLocal, SameTask, SameRcpts, MovesOn, Early
<1> QED BY <1>2, <1>3, <1>4, QuietMove, Zenon DEF Aside, Outside, Handled

LEMMA DropReusedStep ==
  ASSUME IInv, LedgerInv, NEW w \in Workers, NEW m \in Msgs, Has(w, m), Outside, DropReused(w)
  PROVE  LedgerInv'
<1>1. DelivererTypeOK /\ worker[w].id = m
  BY Zenon DEF IInv, TypeOK, Has
<1>2. Quiet /\ posted' = posted /\ Works
  BY Zenon DEF DropReused, Quiet, Works, queueVars
<1>3. /\ Others(w) /\ worker[w].pc = "save" /\ worker'[w].pc = "localrow"
      /\ SameLocal(worker[w], worker'[w]) /\ worker'[w].cur = worker[w].cur
  BY <1>1, DropsReused, Zenon
<1>4. \E r \in worker[w].rcpts : worker[w].cur = {r}
  BY <1>3, HasMessage, Zenon DEF AttemptInv
<1>5. worker'[w].id = m /\ MovesOn(worker[w], worker'[w])
  BY <1>1, <1>3, <1>4, Zenon DEF SameLocal, SameTask, SameRcpts, MovesOn, Early
<1> QED BY <1>2, <1>3, <1>5, QuietMove, Zenon DEF Aside, Outside

LEMMA SubmitStep ==
  ASSUME IInv, LedgerInv, NEW w \in Workers, NEW m \in Msgs, worker[w].id = m, Outside,
         SubmitErrorLog(w)
  PROVE  LedgerInv'
<1>1. DelivererTypeOK
  BY Zenon DEF IInv, TypeOK
<1>2. Quiet /\ posted' = posted /\ (Works \/ Fails)
  BY Zenon DEF SubmitErrorLog, Quiet, queueVars
<1>3. /\ worker[w] \in BusyStates /\ Others(w) /\ worker[w].pc \in {"bounce", "refuse"}
      /\ \/ worker'[w] = Idle
         \/ /\ worker[w].pc = "bounce" => ~worker[w].kept
            /\ worker'[w].pc = "delrow" /\ SameLocal(worker[w], worker'[w])
  BY <1>1, Submits, Zenon
<1>4. Aside(w)
  BY <1>2, <1>3, Zenon DEF Aside, Outside
<1>5. CASE worker'[w] = Idle
  BY <1>2, <1>4, <1>5, QuietSpares, EndLedger, Zenon
<1>6. CASE /\ worker[w].pc = "bounce" => ~worker[w].kept
           /\ worker'[w].pc = "delrow" /\ SameLocal(worker[w], worker'[w])
  <2>1. worker[w].pc = "refuse" => ~worker[w].kept
    BY Zenon DEF IInv, LockInv, At
  <2>2. Has(w, m)
    BY <1>3, <1>6, <2>1, Zenon DEF Has
  <2>3. worker'[w].id = m /\ MovesOn(worker[w], worker'[w])
    BY <1>3, <1>6, Zenon DEF SameLocal, SameTask, SameRcpts, MovesOn, Early
  <2> QED BY <1>2, <1>4, <2>2, <2>3, QuietMove, Zenon
<1> QED BY <1>3, <1>5, <1>6, Zenon

LEMMA InterruptStep ==
  ASSUME IInv, LedgerInv, NEW w \in Workers, NEW m \in Msgs, worker[w].id = m, Outside,
         Interrupt(w)
  PROVE  LedgerInv'
<1>1. DelivererTypeOK
  BY Zenon DEF IInv, TypeOK
<1>2. Quiet /\ posted' = posted /\ Works
  BY Zenon DEF Interrupt, Quiet, Works, queueVars
<1>3. Others(w) /\ worker'[w] = Idle
  BY <1>1, Finishes, Zenon DEF Interrupt
<1> QED BY <1>2, <1>3, QuietSpares, EndLedger, Zenon DEF Aside, Outside

LEMMA Deleted1 == NoRow.tries = 0 /\ NoRow.type = "none"
BY DEF NoRow

\* A row that is written anew with the tries it had, or deleted.
LEMMA RowEases ==
  ASSUME NEW m \in Msgs, row \in [Msgs -> Rows],
         row' \in {row, DeleteRow(m), SetNextTryTime(m, FALSE, FALSE)},
         rcpt' = rcpt \/ rcpt' = DeleteRecipients(m), rcpt \in [Msgs -> SUBSET Rcpts],
         UNCHANGED <<reached, twice, signed, resigned>>,
         UNCHANGED <<recv, envelope, cache, taken, stale>>
  PROVE  Eases(m) /\ \A n \in Msgs : n # m => Spared(n)
<1>1. \A n \in Msgs : Recorded(n)
  BY Zenon DEF Recorded
<1>2. \A n \in Msgs : n # m => row'[n] = row[n] /\ rcpt'[n] = rcpt[n]
  BY Zenon DEF DeleteRow, SetNextTryTime, DeleteRecipients
<1>3. rcpt'[m] \subseteq rcpt[m]
  BY Zenon DEF DeleteRecipients
<1>4. /\ row'[m].tries \in {row[m].tries, 0}
      /\ Queued(m)' => Queued(m) /\ row'[m].tries = row[m].tries
      /\ row'[m].type = "held" => row[m].type = "held"
      /\ LockedOrGone(m) => LockedOrGone(m)'
  <2>1. CASE row' = row
    BY <2>1, Zenon DEF Queued, LockedOrGone
  <2>2. CASE row' = DeleteRow(m)
    <3>1. row'[m] = NoRow
      BY <2>2, Zenon DEF DeleteRow
    <3>2. row'[m].tries = 0 /\ row'[m].type = "none"
      BY <3>1, Deleted1, Zenon
    <3> QED BY <3>2, Zenon DEF Queued, LockedOrGone
  <2>3. CASE Queued(m) /\ row' = SetNextTryTime(m, FALSE, FALSE)
    <3>1. row'[m] = [row[m] EXCEPT !.type = "delivering", !.due = FALSE, !.tries = row[m].tries]
      BY <2>3, Zenon DEF SetNextTryTime
    <3>2. row'[m].tries = row[m].tries /\ row'[m].type = "delivering" /\ row'[m].locked = row[m].locked
      BY <3>1, Zenon DEF Rows
    <3> QED BY <2>3, <3>2, Zenon DEF Queued, LockedOrGone
  <2>4. CASE ~Queued(m) /\ row' = SetNextTryTime(m, FALSE, FALSE)
    BY <2>1, <2>4, Zenon DEF SetNextTryTime
  <2> QED BY <2>1, <2>2, <2>3, <2>4, Zenon
<1> QED BY <1>1, <1>2, <1>3, <1>4, Zenon DEF Eases, Spared

LEMMA DeletingSteps ==
  ASSUME IInv, LedgerInv, NEW w \in Workers, NEW m \in Msgs, Has(w, m), Outside,
         HoldUnscannable(w) \/ DeleteQueueRow(w) \/ DeleteQueueRecipients(w) \/ DeleteDataFile(w)
  PROVE  LedgerInv'
<1> USE DEF queueVars, history
<1>1. /\ DelivererTypeOK /\ worker[w].id = m /\ ~At(w, "idle")
      /\ row \in [Msgs -> Rows] /\ rcpt \in [Msgs -> SUBSET Rcpts]
  BY Zenon DEF IInv, TypeOK, DelivererTypeOK, StoreTypeOK, Has, BusyStates, Steps, At
<1>2. /\ row' \in {row, DeleteRow(m), SetNextTryTime(m, FALSE, FALSE)}
      /\ rcpt' = rcpt \/ rcpt' = DeleteRecipients(m)
      /\ UNCHANGED <<reached, twice, signed, resigned>>
      /\ posted' = posted /\ (Works \/ Fails)
  BY <1>1, Zenon DEF HoldUnscannable, DeleteQueueRow, DeleteQueueRecipients, DeleteDataFile, WriteRow, Works
<1>3. Eases(m) /\ \A n \in Msgs : n # m => Spared(n)
  BY <1>1, <1>2, RowEases, Zenon DEF Outside
<1>4. CASE Finish(w)
  <2>1. Others(w) /\ worker'[w] = Idle
    BY <1>1, <1>4, Finishes, Zenon
  <2> QED BY <1>1, <1>2, <1>3, <2>1, EndLedger, Zenon DEF Aside, Outside
<1>5. CASE ~Finish(w)
  <2>1. \/ worker[w].pc = "unscannable" /\ Goto(w, "holdunlock")
        \/ worker[w].pc = "delrow" /\ (Goto(w, "delrcpt") \/ Goto(w, "delfile"))
        \/ worker[w].pc = "delrcpt" /\ Goto(w, "delfile")
    BY <1>5, Zenon DEF HoldUnscannable, DeleteQueueRow, DeleteQueueRecipients, DeleteDataFile, At
  <2>2. /\ Others(w) /\ Same(worker[w], worker'[w])
        /\ \/ worker[w].pc = "unscannable" /\ worker'[w].pc = "holdunlock"
           \/ worker[w].pc = "delrow" /\ worker'[w].pc \in {"delrcpt", "delfile"}
           \/ worker[w].pc = "delrcpt" /\ worker'[w].pc = "delfile"
    BY <1>1, <2>1, Sent, Zenon
  <2>3. worker'[w].id = m /\ MovesOn(worker[w], worker'[w])
    BY <1>1, <2>2, Zenon DEF Same, SameLocal, SameTask, SameRcpts, MovesOn, Early
  <2> QED BY <1>2, <1>3, <2>2, <2>3, MoveLedger, Zenon DEF Aside, Outside
<1> QED BY <1>4, <1>5, Zenon

\* The lock may go when everybody still to be reached is clean.
LEMMA UnlockSteps ==
  ASSUME IInv, LedgerInv, NEW w \in Workers, NEW m \in Msgs, Has(w, m), Outside,
         UnlockHeld(w) \/ UnlockRescheduled(w)
  PROVE  LedgerInv'
<1> USE DEF queueVars, history
<1>1. /\ DelivererTypeOK /\ worker[w].id = m /\ ~At(w, "idle")
      /\ row \in [Msgs -> Rows] /\ rcpt \in [Msgs -> SUBSET Rcpts]
  BY Zenon DEF IInv, TypeOK, DelivererTypeOK, StoreTypeOK, Has, BusyStates, Steps, At
<1>2. /\ row' \in {row, UnlockObject(m)}
      /\ UNCHANGED <<rcpt, reached, twice, signed, resigned>>
      /\ posted' = posted /\ (Works \/ Fails) /\ worker[w].pc \in {"holdunlock", "unlock"}
  BY <1>1, Zenon DEF UnlockHeld, UnlockRescheduled, WriteRow, Works, At
<1>3. /\ Others(w) /\ (worker'[w].id = m \/ worker'[w] = Idle) /\ ~Delivering(w, m)'
  <2>1. CASE UnlockHeld(w)
    BY <1>1, <2>1, Finishes, NoId, Zenon DEF UnlockHeld, Delivering
  <2>2. CASE UnlockRescheduled(w)
    BY <1>1, <2>2, UnlocksRescheduled, Zenon DEF Delivering
  <2> QED BY <2>1, <2>2, Zenon
<1>4. Counts
  BY <1>2, CountsFaults, Zenon DEF DelivererTypeOK, IInv, TypeOK, Outside
<1>5. \A n \in Msgs : n # m => Spared(n)
  BY <1>1, <1>2, Zenon DEF Spared, Recorded, UnlockObject, Update
<1>6. row'[m].tries = row[m].tries /\ row'[m].type = row[m].type
  <2>1. row[m] \in Rows
    BY <1>1, Zenon
  <2>2. row'[m] \in {row[m], [row[m] EXCEPT !.locked = FALSE]}
    BY <1>1, <1>2, Zenon DEF UnlockObject, Update
  <2> QED BY <2>1, <2>2, Zenon DEF Rows
<1>7. MessageInv(m) /\ AttemptInv(m, worker[w])
  BY HasMessage, Zenon
<1>8. Smooth(m) => Clean(m) /\ Tried(m)
  BY <1>2, <1>7, Zenon DEF AttemptInv, Unrecorded, Early, Fresh, Clean
<1>9. /\ Smooth(m)' => Smooth(m) /\ Clean(m)' /\ Tried(m)'
      /\ Within(m)' /\ RouteOnly(m)' /\ (Untouched(m) => Untouched(m)')
  <2>1. Smooth(m)' => Smooth(m)
    BY <1>4, Zenon DEF Counts, Smooth, Outside
  <2>2. Smooth(m) => Clean(m)' /\ Tried(m)'
    BY <1>2, <1>6, <1>8, Zenon DEF Clean, Tried, Queued
  <2>3. Within(m)'
    BY <1>6, <1>7, Zenon DEF MessageInv, Within, Queued, Allowed, Outside
  <2>4. RouteOnly(m)'
    BY <1>2, <1>4, <1>6, <1>7, Zenon DEF MessageInv, RouteOnly, Counts
  <2>5. Untouched(m) => Untouched(m)'
    BY <1>2, <1>6, Zenon DEF Untouched
  <2> QED BY <2>1, <2>2, <2>3, <2>4, <2>5, Zenon
<1>10. MessageInv(m)'
  BY <1>2, <1>7, <1>9, Zenon DEF MessageInv, Outside
<1>11. Delivering(w, m)
  BY HasMessage, Zenon
<1> QED BY <1>1, <1>2, <1>3, <1>4, <1>5, <1>10, <1>11, OwnLedger, Zenon DEF Aside, Outside

\* The first attempt signs, later ones do not.
LEMMA PreprocessStep ==
  ASSUME IInv, LedgerInv, NEW w \in Workers, NEW m \in Msgs, Has(w, m), Outside,
         PreprocessMessage(w)
  PROVE  LedgerInv'
<1> USE DEF queueVars, history
<1>1. DelivererTypeOK /\ worker[w].id = m
  BY Zenon DEF IInv, TypeOK, Has
<1>2. UNCHANGED <<row, rcpt, reached, twice>> /\ posted' = posted /\ Works
  BY Zenon DEF PreprocessMessage, Works
<1>3. /\ worker[w].pc = "preprocess" /\ Others(w) /\ worker'[w].pc = "local"
      /\ Same(worker[w], worker'[w])
  BY <1>1, Sent, Zenon DEF PreprocessMessage, At
<1>4. Counts
  BY <1>2, CountsFaults, Zenon DEF DelivererTypeOK, IInv, TypeOK, Outside
<1>5. /\ \/ signed' = signed \cup {m} /\ resigned' = resigned \cup ({m} \cap signed) /\ worker[w].tries = 0
         \/ signed' = signed /\ resigned' = resigned
  BY <1>1, Zenon DEF PreprocessMessage
<1>6. MessageInv(m) /\ AttemptInv(m, worker[w]) /\ m \in taken /\ LockedOrGone(m) /\ Delivering(w, m)
  BY HasMessage, Zenon
<1>7. Smooth(m)' => Smooth(m)
  BY <1>4, Zenon DEF Counts, Smooth, Outside
<1>8. Smooth(m) => m \notin resigned'
  <2>1. SUFFICES ASSUME Smooth(m), worker[w].tries = 0 PROVE m \notin signed
    BY <1>5, <1>6, Zenon DEF MessageInv
  <2>2. m \in signed => worker[w].tries > 0
    BY <1>3, <1>6, <2>1, Zenon DEF AttemptInv, Early, Fresh
  <2> QED BY <2>1, <2>2
<1>9. MessageInv(m)'
  <2>1. Within(m)' /\ RouteOnly(m)' /\ LockedOrGone(m)'
    BY <1>2, <1>4, <1>6, Zenon DEF MessageInv, Within, RouteOnly, Queued, Allowed, Counts, Outside, LockedOrGone
  <2> QED BY <1>2, <1>6, <1>7, <1>8, <2>1, Zenon DEF MessageInv, Outside
<1>10. \A n \in Msgs : n # m => Spared(n)
  BY <1>2, <1>5, Zenon DEF Spared, Recorded
<1>11. AttemptInv(m, worker[w])'
  <2>1. worker'[w].rcpts = worker[w].rcpts /\ worker'[w].soft = worker[w].soft /\ worker'[w].tries = worker[w].tries
    BY <1>3, Zenon DEF Same, SameLocal, SameTask, SameRcpts
  <2>2. (Known(worker[w]))' = Known(worker[w]) /\ Unrecorded(worker[w]) = {}
    BY <1>3, <2>1, Zenon DEF Known, Unrecorded
  <2>3. Budget(m, worker[w].tries)' /\ row'[m].type # "held"
    BY <1>2, <1>3, <1>6, <2>1, Zenon DEF AttemptInv, Budget, Queued, Allowed, Outside
  <2>4. (faults = 0 => rcpt[m] \subseteq Known(worker[w]))'
    BY <1>2, <1>4, <1>6, <2>2, Zenon DEF AttemptInv, Counts
  <2>5. ASSUME Smooth(m)'
        PROVE  reached'[m] \cap (worker'[w].rcpts \cup worker'[w].soft) = {} /\ reached'[m] \cap rcpt'[m] = {}
    BY <1>2, <1>3, <1>6, <1>7, <2>1, <2>2, <2>5, Zenon DEF AttemptInv
  <2>6. (Smooth(m) =>
          /\ worker[w].pc \in Early => Fresh(m, worker[w].tries)
          /\ worker[w].pc = "unlock" => Tried(m)
          /\ reached[m] \cap (worker[w].rcpts \cup worker[w].soft)
               \subseteq (IF worker[w].pc = "localrow" THEN worker[w].cur ELSE {})
          /\ reached[m] \cap rcpt[m] \subseteq Unrecorded(worker[w]))'
    BY <1>3, <2>5, Zenon DEF Early
  <2>7. (worker[w].rcpts \subseteq envelope[m] /\ worker[w].rcpts \cap worker[w].soft = {})' /\ m \in taken'
    BY <1>6, <2>1, Zenon DEF AttemptInv, Outside
  <2> QED BY <1>3, <2>3, <2>4, <2>6, <2>7, Zenon DEF AttemptInv
<1>12. worker'[w].id = m
  BY <1>1, <1>3, Zenon DEF Same, SameLocal, SameTask
<1> QED BY <1>1, <1>2, <1>3, <1>4, <1>6, <1>9, <1>10, <1>11, <1>12, OwnLedger, Zenon DEF Aside, Outside

\* Steps that send: nobody new is among those who had the message.
LEMMA ReachMessage ==
  ASSUME IInv, LedgerInv, NEW w \in Workers, NEW m \in Msgs, Has(w, m), Outside, Counts,
         NEW S, Reach(m, S) \/ NoReach, S \cap reached[m] = {} \/ ~Smooth(m) \/ NoReach,
         row' = row \/ row' = SaveDelivered(m), worker[w].pc # "unlock",
         UNCHANGED <<signed, resigned>>, rcpt'[m] \subseteq envelope[m]
  PROVE  MessageInv(m)'
<1>1. /\ row \in [Msgs -> Rows] /\ twice \in [Msgs -> SUBSET Rcpts]
  BY Zenon DEF IInv, TypeOK, DelivererTypeOK, StoreTypeOK
<1>2. MessageInv(m) /\ AttemptInv(m, worker[w]) /\ m \in taken /\ LockedOrGone(m)
  BY HasMessage, Zenon
<1>3. Smooth(m)' => Smooth(m)
  BY Zenon DEF Counts, Smooth, Outside
<1>4. Smooth(m) => twice'[m] = {}
  <2>1. CASE NoReach
    BY <1>2, <2>1, Zenon DEF MessageInv, NoReach
  <2>2. CASE Reach(m, S) /\ Smooth(m) /\ S \cap reached[m] = {}
    <3>1. twice'[m] = twice[m] \cup (S \cap reached[m])
      BY <1>1, <2>2, Zenon DEF Reach, Add
    <3> QED BY <1>2, <2>2, <3>1, Zenon DEF MessageInv
  <2> QED BY <2>1, <2>2, Zenon
<1>5. LockedOrGone(m)' /\ row'[m].type # "held" /\ (Queued(m)' => row'[m] = row[m])
  <2>1. row[m].type # "held"
    BY <1>2, Zenon DEF AttemptInv
  <2>2. CASE row' = row
    BY <1>2, <2>1, <2>2, Zenon DEF LockedOrGone
  <2>3. CASE row' = SaveDelivered(m) /\ Exists(m)
    <3>1. row'[m] = [row[m] EXCEPT !.type = "delivered", !.owner = "user"]
      BY <1>1, <2>3, Zenon DEF SaveDelivered, Update
    <3>2. row[m] \in Rows
      BY <1>1, Zenon
    <3>3. row'[m].type = "delivered" /\ row'[m].locked = row[m].locked
      BY <3>1, <3>2 DEF Rows
    <3> QED BY <1>2, <2>3, <3>3, Zenon DEF LockedOrGone, Exists, Queued
  <2>4. CASE row' = SaveDelivered(m) /\ ~Exists(m)
    BY <2>2, <2>4, Zenon DEF SaveDelivered, Update
  <2> QED BY <2>2, <2>3, <2>4, Zenon
<1>6. Within(m)' /\ RouteOnly(m)'
  <2>1. Queued(m)' => Queued(m)
    BY <1>5, Zenon DEF Queued
  <2>2. Within(m)'
    BY <1>2, <1>5, <2>1, Zenon DEF MessageInv, Within, Allowed, Outside
  <2> QED BY <1>5, <2>2, Zenon DEF RouteOnly
<1>7. recv[m] # "new"
  BY <1>2, Zenon DEF MessageInv
<1> QED BY <1>2, <1>3, <1>4, <1>5, <1>6, <1>7, Zenon DEF MessageInv, Outside

\* The row after such a step is as good for a retry as before.
LEMMA ReachBudget ==
  ASSUME NEW m \in Msgs, row \in [Msgs -> Rows], row' = row \/ row' = SaveDelivered(m), Outside,
         NEW tries, Budget(m, tries), row[m].type # "held"
  PROVE  Budget(m, tries)' /\ row'[m].type # "held"
<1>1. CASE row' = row
  BY <1>1, Zenon DEF Budget, Queued, Allowed, Outside
<1>2. CASE row' = SaveDelivered(m) /\ Exists(m)
  <2>1. row'[m] = [row[m] EXCEPT !.type = "delivered", !.owner = "user"]
    BY <1>2, Zenon DEF SaveDelivered, Update
  <2>2. row'[m].type = "delivered"
    BY <2>1, Zenon DEF Rows
  <2> QED BY <2>2, Zenon DEF Budget, Queued
<1>3. CASE row' = SaveDelivered(m) /\ ~Exists(m)
  BY <1>1, <1>3, Zenon DEF SaveDelivered, Update
<1> QED BY <1>1, <1>2, <1>3, Zenon

\* The copy goes to somebody who did not have the message.
LEMMA CopyStep ==
  ASSUME IInv, LedgerInv, NEW w \in Workers, NEW m \in Msgs, Has(w, m), Outside,
         NEW r \in LocalRcpts, CopyToAccount(w, r)
  PROVE  LedgerInv'
<1> USE DEF queueVars, history
<1>1. /\ DelivererTypeOK /\ worker[w].id = m /\ row \in [Msgs -> Rows]
      /\ rcpt \in [Msgs -> SUBSET Rcpts] /\ reached \in [Msgs -> SUBSET Rcpts]
      /\ twice \in [Msgs -> SUBSET Rcpts]
  BY Zenon DEF IInv, TypeOK, DelivererTypeOK, StoreTypeOK, Has
<1>2. UNCHANGED <<row, signed, resigned>> /\ posted' = posted
  BY Zenon DEF CopyToAccount
<1>3. /\ Handled(w, r) /\ worker'[w].pc = "localrow"
      /\ rcpt' \in {rcpt, Add(rcpt, m, {r})}
      /\ Reach(m, {r}) \/ NoReach
      /\ Works \/ Fails
  BY <1>1, Copies, Zenon DEF Works
<1>4. Counts
  BY <1>3, CountsFaults, Zenon DEF DelivererTypeOK, IInv, TypeOK, Outside
<1>5. MessageInv(m) /\ AttemptInv(m, worker[w]) /\ m \in taken /\ Delivering(w, m)
  BY HasMessage, Zenon
<1>6. /\ worker[w].pc = "local" /\ r \in worker[w].rcpts /\ worker'[w].cur = {r} /\ worker'[w].id = m
      /\ worker'[w].rcpts = worker[w].rcpts /\ worker'[w].soft = worker[w].soft
      /\ worker'[w].tries = worker[w].tries /\ Others(w)
  BY <1>1, <1>3, Zenon DEF Handled, SameLocal, SameTask, SameRcpts
<1>7. Smooth(m) => /\ reached[m] \cap (worker[w].rcpts \cup worker[w].soft) = {}
                   /\ reached[m] \cap rcpt[m] = {}
  BY <1>5, <1>6, Zenon DEF AttemptInv, Unrecorded
<1>8. rcpt'[m] \subseteq rcpt[m] \cup {r}
  BY <1>1, <1>3, Zenon DEF Add
<1>9. rcpt'[m] \subseteq envelope[m]
  BY <1>5, <1>6, <1>8, Zenon DEF MessageInv, AttemptInv
<1>10. MessageInv(m)'
  <2>1. {r} \cap reached[m] = {} \/ ~Smooth(m)
    BY <1>6, <1>7, Zenon
  <2> QED BY <1>2, <1>3, <1>4, <1>6, <1>9, <2>1, ReachMessage, Zenon
<1>11. reached'[m] \subseteq reached[m] \cup {r}
  BY <1>1, <1>3, Zenon DEF Reach, NoReach, Add
<1>12. \A n \in Msgs : n # m => Spared(n)
  BY <1>1, <1>2, <1>3, Zenon DEF Spared, Recorded, Reach, NoReach, Add
<1>13. AttemptInv(m, worker[w])'
  <2>1. Smooth(m)' => Smooth(m)
    BY <1>4, Zenon DEF Counts, Smooth, Outside
  <2>2. (Budget(m, worker[w].tries) /\ row[m].type # "held")'
    BY <1>2, <1>5, <1>6, Zenon DEF AttemptInv, Budget, Queued, Allowed, Outside
  <2>3. (faults = 0 => rcpt[m] \subseteq Known(worker[w]))'
    <3>1. Known(worker[w]) = worker[w].rcpts \cup worker[w].soft
      BY <1>6, Zenon DEF Known
    <3>2. (Known(worker[w]))' = worker[w].rcpts \cup worker[w].soft
      BY <1>3, <1>6, Zenon DEF Known
    <3> QED BY <1>4, <1>5, <1>6, <1>8, <3>1, <3>2, Zenon DEF AttemptInv, Counts
  <2>4. ASSUME Smooth(m)'
        PROVE  /\ reached'[m] \cap (worker'[w].rcpts \cup worker'[w].soft) \subseteq {r}
               /\ reached'[m] \cap rcpt'[m] \subseteq {r}
    <3>1. Smooth(m)
      BY <2>1, <2>4, Zenon
    <3> QED BY <1>6, <1>7, <1>8, <1>11, <3>1, Zenon
  <2>5. (Smooth(m) =>
          /\ worker[w].pc \in Early => Fresh(m, worker[w].tries)
          /\ worker[w].pc = "unlock" => Tried(m)
          /\ reached[m] \cap (worker[w].rcpts \cup worker[w].soft)
               \subseteq (IF worker[w].pc = "localrow" THEN worker[w].cur ELSE {})
          /\ reached[m] \cap rcpt[m] \subseteq Unrecorded(worker[w]))'
    BY <1>3, <1>6, <2>4, Zenon DEF Early, Unrecorded
  <2>6. (worker[w].rcpts \subseteq envelope[m] /\ worker[w].rcpts \cap worker[w].soft = {})' /\ m \in taken'
    BY <1>5, <1>6, Zenon DEF AttemptInv, Outside
  <2> QED BY <1>3, <1>6, <2>2, <2>3, <2>5, <2>6, Zenon DEF AttemptInv
<1> QED BY <1>1, <1>2, <1>4, <1>5, <1>6, <1>10, <1>12, <1>13, OwnLedger, Zenon DEF Aside, Outside

\* The mailbox gets the message itself; it did not have it.
LEMMA SaveReusedStep ==
  ASSUME IInv, LedgerInv, NEW w \in Workers, NEW m \in Msgs, Has(w, m), Outside, SaveReused(w)
  PROVE  LedgerInv'
<1> USE DEF queueVars, history
<1>1. /\ DelivererTypeOK /\ worker[w].id = m /\ row \in [Msgs -> Rows]
      /\ reached \in [Msgs -> SUBSET Rcpts] /\ twice \in [Msgs -> SUBSET Rcpts]
  BY Zenon DEF IInv, TypeOK, DelivererTypeOK, StoreTypeOK, Has
<1>2. UNCHANGED <<rcpt, signed, resigned>> /\ posted' = posted
  BY Zenon DEF SaveReused
<1>3. /\ Others(w) /\ worker[w].pc = "save" /\ worker'[w].pc = "localrow"
      /\ SameLocal(worker[w], worker'[w]) /\ worker'[w].cur = worker[w].cur
      /\ Reach(m, worker[w].cur) \/ NoReach
      /\ row' = row \/ row' = SaveDelivered(m)
      /\ Works \/ Fails
  BY <1>1, SavesReused, Zenon
<1>4. Counts
  BY <1>3, CountsFaults, Zenon DEF DelivererTypeOK, IInv, TypeOK, Outside
<1>5. MessageInv(m) /\ AttemptInv(m, worker[w]) /\ m \in taken /\ Delivering(w, m)
  BY HasMessage, Zenon
<1>6. PICK r \in worker[w].rcpts : worker[w].cur = {r}
  BY <1>3, <1>5, Zenon DEF AttemptInv
<1>7. /\ worker'[w].id = m /\ worker'[w].rcpts = worker[w].rcpts /\ worker'[w].soft = worker[w].soft
      /\ worker'[w].tries = worker[w].tries /\ worker'[w].cur = {r}
  BY <1>1, <1>3, <1>6, Zenon DEF SameLocal, SameTask, SameRcpts
<1>8. Smooth(m) => /\ reached[m] \cap (worker[w].rcpts \cup worker[w].soft) = {}
                   /\ reached[m] \cap rcpt[m] = {}
  BY <1>3, <1>5, Zenon DEF AttemptInv, Unrecorded
<1>9. rcpt'[m] \subseteq envelope[m]
  BY <1>2, <1>5, Zenon DEF MessageInv
<1>10. Reach(m, {r}) \/ NoReach
  BY <1>3, <1>6, Zenon
<1>11. MessageInv(m)'
  <2>1. {r} \cap reached[m] = {} \/ ~Smooth(m)
    BY <1>6, <1>8, Zenon
  <2>2. worker[w].pc # "unlock" /\ UNCHANGED <<signed, resigned>>
    BY <1>2, <1>3, Zenon
  <2> QED BY <1>3, <1>4, <1>9, <1>10, <2>1, <2>2, ReachMessage, Zenon
<1>12. reached'[m] \subseteq reached[m] \cup {r}
  BY <1>1, <1>10, Zenon DEF Reach, NoReach, Add
<1>13. \A n \in Msgs : n # m => Spared(n)
  BY <1>1, <1>2, <1>3, <1>10, Zenon DEF Spared, Recorded, Reach, NoReach, Add, SaveDelivered, Update
<1>14. AttemptInv(m, worker[w])'
  <2>1. Smooth(m)' => Smooth(m)
    BY <1>4, Zenon DEF Counts, Smooth, Outside
  <2>2. (Budget(m, worker[w].tries) /\ row[m].type # "held")'
    <3>1. PICK t : t = worker[w].tries
      BY Zenon
    <3>2. Budget(m, t) /\ row[m].type # "held"
      BY <1>3, <1>5, <3>1, Zenon DEF AttemptInv
    <3>3. Budget(m, t)' /\ row'[m].type # "held"
      BY <1>1, <1>3, <3>2, ReachBudget, Zenon
    <3> QED BY <1>7, <3>1, <3>3, Zenon
  <2>3. (faults = 0 => rcpt[m] \subseteq Known(worker[w]))'
    <3>1. Known(worker[w]) = worker[w].rcpts \cup worker[w].soft
      BY <1>3, Zenon DEF Known
    <3>2. (Known(worker[w]))' = worker[w].rcpts \cup worker[w].soft
      BY <1>3, <1>7, Zenon DEF Known
    <3> QED BY <1>2, <1>4, <1>5, <3>1, <3>2, Zenon DEF AttemptInv, Counts
  <2>4. ASSUME Smooth(m)'
        PROVE  /\ reached'[m] \cap (worker'[w].rcpts \cup worker'[w].soft) \subseteq {r}
               /\ reached'[m] \cap rcpt'[m] \subseteq {r}
    <3>1. Smooth(m)
      BY <2>1, <2>4, Zenon
    <3> QED BY <1>2, <1>7, <1>8, <1>12, <3>1, Zenon
  <2>5. (Smooth(m) =>
          /\ worker[w].pc \in Early => Fresh(m, worker[w].tries)
          /\ worker[w].pc = "unlock" => Tried(m)
          /\ reached[m] \cap (worker[w].rcpts \cup worker[w].soft)
               \subseteq (IF worker[w].pc = "localrow" THEN worker[w].cur ELSE {})
          /\ reached[m] \cap rcpt[m] \subseteq Unrecorded(worker[w]))'
    BY <1>3, <1>7, <2>4, Zenon DEF Early, Unrecorded
  <2>6. (worker[w].rcpts \subseteq envelope[m] /\ worker[w].rcpts \cap worker[w].soft = {})' /\ m \in taken'
    BY <1>5, <1>7, Zenon DEF AttemptInv, Outside
  <2> QED BY <1>3, <1>6, <1>7, <2>2, <2>3, <2>5, <2>6, Zenon DEF AttemptInv
<1> QED BY <1>1, <1>2, <1>3, <1>4, <1>5, <1>7, <1>11, <1>13, <1>14, OwnLedger, Zenon DEF Aside, Outside

\* The recipient's row is deleted after the recipient has the message.
LEMMA DeleteLocalStep ==
  ASSUME IInv, LedgerInv, NEW w \in Workers, NEW m \in Msgs, Has(w, m), Outside,
         DeleteLocalRecipient(w)
  PROVE  LedgerInv'
<1> USE DEF queueVars, history
<1>1. /\ DelivererTypeOK /\ worker[w].id = m /\ rcpt \in [Msgs -> SUBSET Rcpts]
  BY Zenon DEF IInv, TypeOK, DelivererTypeOK, StoreTypeOK, Has
<1>2. UNCHANGED <<row, reached, twice, signed, resigned>> /\ posted' = posted
  BY Zenon DEF DeleteLocalRecipient
<1>3. /\ Others(w) /\ worker[w].pc = "localrow" /\ worker'[w].pc = "local"
      /\ worker'[w].rcpts = worker[w].rcpts \ worker[w].cur
      /\ worker'[w].soft = worker[w].soft /\ SameTask(worker[w], worker'[w])
  BY <1>1, DeletesLocal, Zenon
<1>4. PICK r \in worker[w].cur :
        \/ Works /\ rcpt' = DeleteRecipient(m, r)
        \/ Fails /\ UNCHANGED rcpt
  BY <1>1, Zenon DEF DeleteLocalRecipient
<1>5. Counts
  BY <1>4, CountsFaults, Zenon DEF DelivererTypeOK, IInv, TypeOK, Outside
<1>6. MessageInv(m) /\ AttemptInv(m, worker[w]) /\ m \in taken /\ Delivering(w, m)
  BY HasMessage, Zenon
<1>7. worker[w].cur = {r} /\ worker'[w].rcpts = worker[w].rcpts \ {r} /\ worker'[w].id = m
      /\ worker'[w].tries = worker[w].tries
  BY <1>1, <1>3, <1>4, <1>6, Zenon DEF AttemptInv, SameTask
<1>8. rcpt'[m] \subseteq rcpt[m] /\ (faults' = 0 => r \notin rcpt'[m])
  <2>1. CASE Works /\ rcpt' = DeleteRecipient(m, r)
    BY <1>1, <2>1, Zenon DEF DeleteRecipient
  <2>2. CASE Fails /\ UNCHANGED rcpt
    <3>1. faults' # 0
      BY <1>1, <2>2 DEF Fails, DelivererTypeOK
    <3> QED BY <2>2, <3>1, Zenon
  <2> QED BY <1>4, <2>1, <2>2, Zenon
<1>9. \A n \in Msgs : n # m => Spared(n)
  BY <1>1, <1>2, <1>4, Zenon DEF Spared, Recorded, DeleteRecipient
<1>10. Eases(m)
  BY <1>2, <1>8, Zenon DEF Eases, Recorded, Queued, LockedOrGone, Outside
<1>11. AttemptInv(m, worker[w])'
  <2>1. Smooth(m)' => Smooth(m) /\ faults' = 0
    BY <1>5, Zenon DEF Counts, Smooth, Outside
  <2>2. (Budget(m, worker[w].tries) /\ row[m].type # "held")'
    BY <1>2, <1>3, <1>6, <1>7, Zenon DEF AttemptInv, Budget, Queued, Allowed, Outside
  <2>3. (faults = 0 => rcpt[m] \subseteq Known(worker[w]))'
    <3>1. Known(worker[w]) = worker[w].rcpts \cup worker[w].soft
      BY <1>3, Zenon DEF Known
    <3>2. (Known(worker[w]))' = (worker[w].rcpts \ {r}) \cup worker[w].soft
      BY <1>3, <1>7, Zenon DEF Known
    <3> QED BY <1>5, <1>6, <1>8, <3>1, <3>2, Zenon DEF AttemptInv, Counts
  <2>4. ASSUME Smooth(m)'
        PROVE  /\ reached'[m] \cap (worker'[w].rcpts \cup worker'[w].soft) = {}
               /\ reached'[m] \cap rcpt'[m] = {}
    <3>1. Smooth(m) /\ r \notin rcpt'[m]
      BY <1>8, <2>1, <2>4, Zenon
    <3>2. /\ reached[m] \cap (worker[w].rcpts \cup worker[w].soft) \subseteq {r}
          /\ reached[m] \cap rcpt[m] \subseteq {r}
      BY <1>3, <1>6, <1>7, <3>1, Zenon DEF AttemptInv, Unrecorded
    <3>3. r \notin worker[w].soft
      BY <1>3, <1>6, <1>7, Zenon DEF AttemptInv
    <3> QED BY <1>2, <1>3, <1>7, <1>8, <3>1, <3>2, <3>3, Zenon
  <2>5. (Smooth(m) =>
          /\ worker[w].pc \in Early => Fresh(m, worker[w].tries)
          /\ worker[w].pc = "unlock" => Tried(m)
          /\ reached[m] \cap (worker[w].rcpts \cup worker[w].soft)
               \subseteq (IF worker[w].pc = "localrow" THEN worker[w].cur ELSE {})
          /\ reached[m] \cap rcpt[m] \subseteq Unrecorded(worker[w]))'
    BY <1>3, <2>4, Zenon DEF Early, Unrecorded
  <2>6. (worker[w].rcpts \subseteq envelope[m] /\ worker[w].rcpts \cap worker[w].soft = {})' /\ m \in taken'
    BY <1>3, <1>6, <1>7, Zenon DEF AttemptInv, Outside
  <2> QED BY <1>3, <2>2, <2>3, <2>5, <2>6, Zenon DEF AttemptInv
<1> QED BY <1>1, <1>2, <1>3, <1>5, <1>7, <1>9, <1>10, <1>11, OwnLedger, Zenon DEF Aside, Outside

\* Those the server accepts had not been sent the message.
LEMMA BatchStep ==
  ASSUME IInv, LedgerInv, NEW w \in Workers, NEW m \in Msgs, Has(w, m), Outside, DeliverBatch(w)
  PROVE  LedgerInv'
<1> USE DEF queueVars, history
<1>1. /\ DelivererTypeOK /\ worker[w].id = m /\ faults \in Nat
      /\ reached \in [Msgs -> SUBSET Rcpts] /\ twice \in [Msgs -> SUBSET Rcpts]
  BY Zenon DEF IInv, TypeOK, DelivererTypeOK, Has
<1>2. UNCHANGED <<row, rcpt, signed, resigned>> /\ posted' = posted /\ Works
  BY Zenon DEF DeliverBatch, Works
<1>3. Counts
  BY <1>1, <1>2, CountsFaults, Zenon DEF Outside
<1>4. PICK S : S = worker'[w].ok
  BY Zenon
<1>5. /\ Others(w) /\ worker[w].pc = "external" /\ worker'[w].pc = "collect"
      /\ worker'[w].id = m /\ worker'[w].tries = worker[w].tries
      /\ worker'[w].rcpts \cup S \cup worker'[w].fatal \cup worker'[w].soft =
              worker[w].rcpts \cup worker[w].soft
      /\ worker'[w].rcpts \cup S \subseteq worker[w].rcpts
      /\ S \cap worker'[w].rcpts = {}
      /\ worker'[w].soft \cap (S \cup worker'[w].rcpts) \subseteq worker[w].soft
      /\ Reach(m, S)
  BY <1>1, <1>4, Batches, Zenon DEF SameTask
<1>6. MessageInv(m) /\ AttemptInv(m, worker[w]) /\ m \in taken /\ Delivering(w, m)
  BY HasMessage, Zenon
<1>7. Smooth(m) => /\ reached[m] \cap (worker[w].rcpts \cup worker[w].soft) = {}
                   /\ reached[m] \cap rcpt[m] = {}
  BY <1>5, <1>6, Zenon DEF AttemptInv, Unrecorded
<1>8. MessageInv(m)'
  <2>1. S \cap reached[m] = {} \/ ~Smooth(m)
    BY <1>5, <1>7, Zenon
  <2>2. worker[w].pc # "unlock" /\ rcpt'[m] \subseteq envelope[m]
    BY <1>2, <1>5, <1>6, Zenon DEF MessageInv
  <2> QED BY <1>2, <1>3, <1>5, <2>1, <2>2, ReachMessage, Zenon
<1>9. reached'[m] \subseteq reached[m] \cup S
  BY <1>1, <1>5, Zenon DEF Reach, Add
<1>10. \A n \in Msgs : n # m => Spared(n)
  BY <1>1, <1>2, <1>5, Zenon DEF Spared, Recorded, Reach, Add
<1>11. AttemptInv(m, worker[w])'
  <2>1. Smooth(m)' => Smooth(m)
    BY <1>3, Zenon DEF Counts, Smooth, Outside
  <2>2. (Budget(m, worker[w].tries) /\ row[m].type # "held")'
    BY <1>2, <1>5, <1>6, Zenon DEF AttemptInv, Budget, Queued, Allowed, Outside
  <2>3. (faults = 0 => rcpt[m] \subseteq Known(worker[w]))'
    <3>1. Known(worker[w]) = worker[w].rcpts \cup worker[w].soft
      BY <1>5, Zenon DEF Known
    <3>2. (Known(worker[w]))' = worker'[w].rcpts \cup worker'[w].soft \cup (S \cup worker'[w].fatal)
      BY <1>4, <1>5, Zenon DEF Known
    <3>3. Known(worker[w]) \subseteq (Known(worker[w]))'
      BY <1>5, <3>1, <3>2, Zenon
    <3> QED BY <1>2, <1>3, <1>6, <3>3, Zenon DEF AttemptInv, Counts
  <2>4. worker[w].rcpts \cap worker[w].soft = {}
    BY <1>6, Zenon DEF AttemptInv
  <2>5. ASSUME Smooth(m)'
        PROVE  /\ reached'[m] \cap (worker'[w].rcpts \cup worker'[w].soft) = {}
               /\ reached'[m] \cap rcpt'[m] \subseteq S
    <3>1. Smooth(m)
      BY <2>1, <2>5, Zenon
    <3>2. worker'[w].rcpts \cup worker'[w].soft \subseteq worker[w].rcpts \cup worker[w].soft
      BY <1>5, Zenon
    <3>3. S \cap (worker'[w].rcpts \cup worker'[w].soft) = {}
      BY <1>5, <2>4, Zenon
    <3> QED BY <1>2, <1>7, <1>9, <3>1, <3>2, <3>3, Zenon
  <2>6. (Smooth(m) =>
          /\ worker[w].pc \in Early => Fresh(m, worker[w].tries)
          /\ worker[w].pc = "unlock" => Tried(m)
          /\ reached[m] \cap (worker[w].rcpts \cup worker[w].soft)
               \subseteq (IF worker[w].pc = "localrow" THEN worker[w].cur ELSE {})
          /\ reached[m] \cap rcpt[m] \subseteq Unrecorded(worker[w]))'
    BY <1>4, <1>5, <2>5, Zenon DEF Early, Unrecorded
  <2>7. (worker[w].rcpts \subseteq envelope[m] /\ worker[w].rcpts \cap worker[w].soft = {})' /\ m \in taken'
    <3>1. worker[w].rcpts \subseteq envelope[m] /\ envelope' = envelope /\ taken' = taken
      BY <1>6, Zenon DEF AttemptInv, Outside
    <3> QED BY <1>5, <1>6, <2>4, <3>1, Zenon
  <2> QED BY <1>5, <2>2, <2>3, <2>6, <2>7, Zenon DEF AttemptInv
<1> QED BY <1>1, <1>2, <1>3, <1>5, <1>6, <1>8, <1>10, <1>11, OwnLedger, Zenon DEF Aside, Outside

\* The row of a recipient that is done with is deleted.
LEMMA CollectStep ==
  ASSUME IInv, LedgerInv, NEW w \in Workers, NEW m \in Msgs, Has(w, m), Outside,
         CollectDeliveryResult(w)
  PROVE  LedgerInv'
<1> USE DEF queueVars, history
<1>1. /\ DelivererTypeOK /\ worker[w].id = m /\ rcpt \in [Msgs -> SUBSET Rcpts]
  BY Zenon DEF IInv, TypeOK, DelivererTypeOK, StoreTypeOK, Has
<1>2. UNCHANGED <<row, reached, twice, signed, resigned>> /\ posted' = posted
  BY Zenon DEF CollectDeliveryResult
<1>3. PICK r : /\ worker'[w].ok = worker[w].ok \ {r} /\ worker'[w].fatal = worker[w].fatal \ {r}
               /\ \/ Works /\ rcpt' = DeleteRecipient(m, r)
                  \/ Fails /\ UNCHANGED rcpt
  BY <1>1, Collects, Zenon
<1>4. /\ Others(w) /\ worker[w].pc = "collect" /\ worker'[w].pc = "collect"
      /\ worker'[w].id = m /\ worker'[w].tries = worker[w].tries
      /\ worker'[w].rcpts = worker[w].rcpts /\ worker'[w].soft = worker[w].soft
  BY <1>1, Collects, Zenon DEF SameTask
<1>5. Counts
  BY <1>3, CountsFaults, Zenon DEF DelivererTypeOK, IInv, TypeOK, Outside
<1>6. MessageInv(m) /\ AttemptInv(m, worker[w]) /\ m \in taken /\ Delivering(w, m)
  BY HasMessage, Zenon
<1>7. rcpt'[m] \subseteq rcpt[m] /\ (faults' = 0 => r \notin rcpt'[m])
  <2>1. CASE Works /\ rcpt' = DeleteRecipient(m, r)
    BY <1>1, <2>1, Zenon DEF DeleteRecipient
  <2>2. CASE Fails /\ UNCHANGED rcpt
    <3>1. faults' # 0
      BY <1>1, <2>2 DEF Fails, DelivererTypeOK
    <3> QED BY <2>2, <3>1, Zenon
  <2> QED BY <1>3, <2>1, <2>2, Zenon
<1>8. \A n \in Msgs : n # m => Spared(n)
  BY <1>1, <1>2, <1>3, Zenon DEF Spared, Recorded, DeleteRecipient
<1>9. Eases(m)
  BY <1>2, <1>7, Zenon DEF Eases, Recorded, Queued, LockedOrGone, Outside
<1>10. AttemptInv(m, worker[w])'
  <2>1. Smooth(m)' => Smooth(m) /\ faults' = 0
    BY <1>5, Zenon DEF Counts, Smooth, Outside
  <2>2. (Budget(m, worker[w].tries) /\ row[m].type # "held")'
    BY <1>2, <1>4, <1>6, Zenon DEF AttemptInv, Budget, Queued, Allowed, Outside
  <2>3. (faults = 0 => rcpt[m] \subseteq Known(worker[w]))'
    <3>1. Known(worker[w]) = worker[w].rcpts \cup worker[w].soft \cup (worker[w].ok \cup worker[w].fatal)
      BY <1>4, Zenon DEF Known
    <3>2. (Known(worker[w]))' =
            worker[w].rcpts \cup worker[w].soft \cup ((worker[w].ok \ {r}) \cup (worker[w].fatal \ {r}))
      BY <1>3, <1>4, Zenon DEF Known
    <3>3. \A q \in Known(worker[w]) : q # r => q \in (Known(worker[w]))'
      BY <3>1, <3>2, Zenon
    <3> QED BY <1>5, <1>6, <1>7, <3>3, Zenon DEF AttemptInv, Counts
  <2>4. (Smooth(m) =>
          /\ worker[w].pc \in Early => Fresh(m, worker[w].tries)
          /\ worker[w].pc = "unlock" => Tried(m)
          /\ reached[m] \cap (worker[w].rcpts \cup worker[w].soft)
               \subseteq (IF worker[w].pc = "localrow" THEN worker[w].cur ELSE {})
          /\ reached[m] \cap rcpt[m] \subseteq Unrecorded(worker[w]))'
    <3>1. Smooth(m) => /\ reached[m] \cap (worker[w].rcpts \cup worker[w].soft) = {}
                       /\ reached[m] \cap rcpt[m] \subseteq worker[w].ok
      BY <1>4, <1>6, Zenon DEF AttemptInv, Unrecorded
    <3>2. ASSUME Smooth(m)'
          PROVE  /\ reached'[m] \cap (worker'[w].rcpts \cup worker'[w].soft) = {}
                 /\ reached'[m] \cap rcpt'[m] \subseteq worker'[w].ok
      BY <1>2, <1>3, <1>4, <1>7, <2>1, <3>1, <3>2, Zenon
    <3> QED BY <1>4, <3>2, Zenon DEF Early, Unrecorded
  <2>5. (worker[w].rcpts \subseteq envelope[m] /\ worker[w].rcpts \cap worker[w].soft = {})' /\ m \in taken'
    BY <1>4, <1>6, Zenon DEF AttemptInv, Outside
  <2> QED BY <1>4, <2>2, <2>3, <2>4, <2>5, Zenon DEF AttemptInv
<1> QED BY <1>1, <1>2, <1>4, <1>5, <1>8, <1>9, <1>10, OwnLedger, Zenon DEF Aside, Outside

\* The row goes back to the queue with a try more, for whoever is left.
LEMMA RequeueLedger ==
  ASSUME IInv, LedgerInv, NEW w \in Workers, NEW m \in Msgs, Has(w, m), Outside,
         Works \/ Fails, UNCHANGED <<rcpt, posted, reached, twice, signed, resigned>>,
         \A n \in Msgs : n # m => row'[n] = row[n],
         worker[w].pc = "reschedule", Goto(w, "unlock"),
         LockedOrGone(m)', Within(m)',
         row'[m].type = "held" => worker[w].soft \subseteq EtrnRcpts,
         faults' = 0 /\ Queued(m)' => row'[m].tries > 0
  PROVE  LedgerInv'
<1>1. DelivererTypeOK /\ worker[w].id = m
  BY Zenon DEF IInv, TypeOK, Has
<1>2. Others(w) /\ worker'[w].pc = "unlock" /\ Same(worker[w], worker'[w])
  BY <1>1, Sent, Zenon DEF At
<1>3. /\ worker'[w].id = m /\ worker'[w].rcpts = worker[w].rcpts
      /\ worker'[w].soft = worker[w].soft
  BY <1>1, <1>2, Zenon DEF Same, SameLocal, SameTask, SameRcpts
<1>4. Counts
  BY CountsFaults, Zenon DEF DelivererTypeOK, IInv, TypeOK, Outside
<1>5. MessageInv(m) /\ AttemptInv(m, worker[w]) /\ m \in taken /\ Delivering(w, m)
  BY HasMessage, Zenon
<1>6. /\ worker[w].rcpts = {} /\ worker[w].soft # {}
      /\ faults = 0 => rcpt[m] \subseteq worker[w].soft
  <2>1. Known(worker[w]) = worker[w].rcpts \cup worker[w].soft
    BY Zenon DEF Known
  <2>2. /\ worker[w].rcpts = {} /\ worker[w].soft # {}
        /\ faults = 0 => rcpt[m] \subseteq Known(worker[w])
    BY <1>5, Zenon DEF AttemptInv
  <2> QED BY <2>1, <2>2, Zenon
<1>7. \A n \in Msgs : n # m => Spared(n)
  BY Zenon DEF Spared, Recorded
<1>8. Smooth(m)' => Smooth(m) /\ faults' = 0
  BY <1>4, Zenon DEF Counts, Smooth, Outside
<1>9. RouteOnly(m)'
  BY <1>4, <1>6, Zenon DEF RouteOnly, Counts
<1>10. MessageInv(m)'
  <2>1. recv[m] # "new"
    BY <1>5, Zenon DEF MessageInv
  <2> QED BY <1>5, <1>8, <1>9, <2>1, Zenon DEF MessageInv, Outside
<1>11. AttemptInv(m, worker[w])'
  <2>1. (faults = 0 => rcpt[m] \subseteq Known(worker[w]))'
    <3>1. (Known(worker[w]))' = worker[w].rcpts \cup worker[w].soft
      BY <1>2, <1>3, Zenon DEF Known
    <3> QED BY <1>4, <1>6, <3>1, Zenon DEF Counts
  <2>2. Smooth(m)' => Tried(m)'
    BY <1>8, Zenon DEF Tried
  <2>3. (Smooth(m) =>
          /\ worker[w].pc \in Early => Fresh(m, worker[w].tries)
          /\ worker[w].pc = "unlock" => Tried(m)
          /\ reached[m] \cap (worker[w].rcpts \cup worker[w].soft)
               \subseteq (IF worker[w].pc = "localrow" THEN worker[w].cur ELSE {})
          /\ reached[m] \cap rcpt[m] \subseteq Unrecorded(worker[w]))'
    <3>1. Smooth(m) => /\ reached[m] \cap (worker[w].rcpts \cup worker[w].soft) = {}
                       /\ reached[m] \cap rcpt[m] = {}
      BY <1>5, Zenon DEF AttemptInv, Unrecorded
    <3> QED BY <1>2, <1>3, <1>8, <2>2, <3>1, Zenon DEF Early, Unrecorded
  <2>4. (worker[w].rcpts \subseteq envelope[m] /\ worker[w].rcpts \cap worker[w].soft = {})' /\ m \in taken'
    BY <1>3, <1>5, Zenon DEF AttemptInv, Outside
  <2> QED BY <1>2, <1>3, <1>6, <2>1, <2>3, <2>4, Zenon DEF AttemptInv
<1> QED BY <1>1, <1>2, <1>3, <1>4, <1>5, <1>7, <1>10, <1>11, OwnLedger, Zenon DEF Aside, Outside

LEMMA RequeueSteps ==
  ASSUME IInv, LedgerInv, NEW w \in Workers, NEW m \in Msgs, Has(w, m), Outside,
         HoldForEtrn(w) \/ RescheduleDelivery(w)
  PROVE  LedgerInv'
<1> USE DEF queueVars, history
<1>1. /\ worker[w].id = m /\ row \in [Msgs -> Rows] /\ faults \in Nat
  BY Zenon DEF IInv, TypeOK, DelivererTypeOK, StoreTypeOK, Has
<1>2. /\ UNCHANGED <<rcpt, posted, reached, twice, signed, resigned>>
      /\ worker[w].pc = "reschedule" /\ Goto(w, "unlock")
  BY Zenon DEF HoldForEtrn, RescheduleDelivery, At
<1>3. MessageInv(m) /\ AttemptInv(m, worker[w]) /\ LockedOrGone(m)
  BY HasMessage, Zenon
<1>4. row[m] \in Rows /\ row[m].type # "held" /\ worker[w].soft # {}
  BY <1>1, <1>2, <1>3, Zenon DEF AttemptInv
<1>5. CASE Fails /\ row' = row
  <2>1. faults' # 0
    BY <1>1, <1>5 DEF Fails
  <2>2. LockedOrGone(m)' /\ Within(m)'
    BY <1>3, <1>5, Zenon DEF LockedOrGone, MessageInv, Within, Queued, Allowed, Outside
  <2> QED BY <1>2, <1>4, <1>5, <2>1, <2>2, RequeueLedger, Zenon
<1>6. CASE HoldForEtrn(w) /\ Works /\ row' = HoldForRoute(m)
  <2>1. worker[w].soft \subseteq EtrnRcpts /\ EtrnRcpts # {}
    BY <1>4, <1>6, Zenon DEF HoldForEtrn
  <2>2. \A n \in Msgs : n # m => row'[n] = row[n]
    BY <1>1, <1>6, Zenon DEF HoldForRoute, Update
  <2>3. CASE Exists(m)
    <3>1. row'[m] = [row[m] EXCEPT !.type = "held", !.owner = "route", !.tries = 1, !.due = TRUE]
      BY <1>1, <1>6, <2>3, Zenon DEF HoldForRoute, Update
    <3>2. row'[m].tries = 1 /\ row'[m].locked = row[m].locked
      BY <1>4, <3>1 DEF Rows
    <3>3. row'[m].tries > 0
      BY <3>2
    <3>4. LockedOrGone(m)' /\ Within(m)'
      BY <1>3, <2>1, <2>3, <3>2, Zenon DEF LockedOrGone, Exists, Within
    <3> QED BY <1>2, <1>6, <2>1, <2>2, <3>3, <3>4, RequeueLedger, Zenon
  <2>4. CASE ~Exists(m)
    <3>1. row' = row /\ ~Queued(m)
      BY <1>6, <2>4, Zenon DEF HoldForRoute, Update, Exists, Queued
    <3>2. ~Queued(m)' /\ LockedOrGone(m)' /\ Within(m)'
      BY <1>3, <3>1, Zenon DEF LockedOrGone, Queued, Within
    <3> QED BY <1>2, <1>6, <2>1, <2>2, <3>2, RequeueLedger, Zenon
  <2> QED BY <2>3, <2>4, Zenon
<1>7. CASE RescheduleDelivery(w) /\ Works /\ row' = SetNextTryTime(m, TRUE, FALSE)
  <2>1. \A n \in Msgs : n # m => row'[n] = row[n]
    BY <1>1, <1>7, Zenon DEF SetNextTryTime
  <2>2. CASE Queued(m)
    <3>1. row'[m] = [row[m] EXCEPT !.type = "delivering", !.due = FALSE, !.tries = @ + 1]
      BY <1>1, <1>7, <2>2 DEF SetNextTryTime
    <3>2. /\ row'[m].tries = row[m].tries + 1 /\ row'[m].locked = row[m].locked
          /\ row'[m].type = "delivering" /\ row[m].tries \in Nat
      BY <1>4, <3>1 DEF Rows
    <3>3. row[m].tries < Allowed(m)
      BY <1>2, <1>3, <1>7, <2>2, Zenon DEF AttemptInv, Budget, RescheduleDelivery
    <3>4. Allowed(m)' = Allowed(m) /\ Allowed(m) \in Nat
      BY DelivererAssumption DEF Allowed, Outside
    <3>5. row'[m].tries > 0 /\ row'[m].tries <= Allowed(m)'
      BY <3>2, <3>3, <3>4
    <3>6. LockedOrGone(m)' /\ Within(m)' /\ row'[m].type # "held"
      BY <1>3, <2>2, <3>2, <3>5, Zenon DEF LockedOrGone, Queued, Within
    <3> QED BY <1>2, <1>7, <2>1, <3>5, <3>6, RequeueLedger, Zenon
  <2>3. CASE ~Queued(m)
    <3>1. row' = row
      BY <1>7, <2>3, Zenon DEF SetNextTryTime
    <3>2. ~Queued(m)' /\ LockedOrGone(m)' /\ Within(m)' /\ row'[m].type # "held"
      BY <1>3, <1>4, <2>3, <3>1, Zenon DEF LockedOrGone, Queued, Within
    <3> QED BY <1>2, <1>7, <2>1, <3>2, RequeueLedger, Zenon
  <2> QED BY <2>2, <2>3, Zenon
<1> QED BY <1>1, <1>5, <1>6, <1>7, Zenon DEF HoldForEtrn, RescheduleDelivery, WriteRow

\* A thread starts with what the task says.
LEMMA StartAttempt ==
  ASSUME NEW m, NEW t, TaskInv(m, t), NEW x, x.pc = "check", x.rcpts = t.rcpts,
         x.tries = t.tries, x.soft = {}
  PROVE  AttemptInv(m, x)
<1>1. Known(x) = t.rcpts
  BY Zenon DEF Known
<1>2. Smooth(m) => /\ Fresh(m, x.tries)
                   /\ reached[m] \cap (x.rcpts \cup x.soft) = {} /\ reached[m] \cap rcpt[m] = {}
  BY Zenon DEF TaskInv, Fresh, Clean
<1> QED BY <1>1, <1>2, Zenon DEF TaskInv, AttemptInv, Unrecorded

LEMMA ExecuteStep ==
  ASSUME IInv, LedgerInv, NEW w \in Workers, Outside, ExecuteTask(w)
  PROVE  LedgerInv'
<1>1. DelivererTypeOK /\ faults \in Nat
  BY Zenon DEF IInv, TypeOK, DelivererTypeOK
<1>2. PICK t \in posted :
        /\ Continue(w, [Idle EXCEPT !.pc = "check", !.id = t.id, !.rcpts = t.rcpts,
                                    !.tries = t.tries, !.owner = t.owner])
        /\ posted' = posted \ {t}
  BY Zenon DEF ExecuteTask
<1>3. Others(w) /\ Quiet /\ Works
  BY <1>1, <1>2, Continues, Zenon DEF ExecuteTask, history, Quiet, Works
<1>4. PICK x : x = worker'[w]
  BY Zenon
<1>5. x.pc = "check" /\ x.id = t.id /\ x.rcpts = t.rcpts /\ x.tries = t.tries /\ x.soft = {}
  <2>1. x = [Idle EXCEPT !.pc = "check", !.id = t.id, !.rcpts = t.rcpts,
                                    !.tries = t.tries, !.owner = t.owner]
    BY <1>1, <1>2, <1>4, Continues, Zenon
  <2> QED BY <2>1 DEF Idle
<1>6. Counts
  BY <1>1, <1>3, CountsFaults, Zenon DEF Outside
<1>7. ASSUME NEW n \in Msgs PROVE Ledger(n)'
  <2>1. Ledger(n) /\ Eases(n)
    <3>1. Spared(n)
      BY <1>3, Zenon DEF Spared, Recorded, Quiet
    <3> QED BY <3>1, SparedEases, Zenon DEF LedgerInv, Outside
  <2>2. t.id = n => AttemptInv(n, worker[w])'
    <3>1. t.id = n => AttemptInv(n, x)
      BY <1>5, <2>1, StartAttempt, Zenon DEF Ledger
    <3>2. t.id = n => AttemptInv(n, x)'
      BY <1>6, <2>1, <3>1, EaseAttempt, Zenon
    <3> QED BY <1>4, <3>2, Zenon
  <2>3. \A v \in Workers : Delivering(v, n)' =>
           \/ Delivering(v, n) /\ SameAttempt(worker[v], worker'[v])
           \/ AttemptInv(n, worker[v])'
    BY <1>3, <1>4, <1>5, <2>2, Zenon DEF Delivering, At, Others, SameAttempt
  <2>4. /\ pending' = pending /\ mgr' = mgr /\ (InManager(n)' <=> InManager(n))
        /\ \A s \in posted' : s \in posted
    BY <1>2, Zenon DEF Outside, InManager
  <2> QED BY <1>6, <2>1, <2>3, <2>4, EaseLedger, Zenon
<1> QED BY <1>7, Zenon DEF LedgerInv

\* A delivery thread keeps the ledger.
LEMMA WorkLedger ==
  ASSUME IInv, LedgerInv, NEW w \in Workers, Work(w)
  PROVE  LedgerInv'
<1>1. Outside /\ DelivererTypeOK
  BY Zenon DEF Work, Outside, sessionVars, managerVars, IInv, TypeOK
<1>2. CASE ExecuteTask(w)
  BY <1>1, <1>2, ExecuteStep, Zenon
<1>3. CASE Deliver(w) \/ Interrupt(w)
  <2>1. worker[w] \in BusyStates
    BY <1>1, <1>3, DeliverBusy, Zenon
  <2>2. worker[w].id \in Msgs
    BY <2>1, Zenon DEF BusyStates
  <2>3. PICK m \in Msgs : m = worker[w].id
    BY <2>2, Zenon
  <2>4. CASE Interrupt(w)
    BY <1>1, <2>3, <2>4, InterruptStep, Zenon
  <2>5. CASE SubmitErrorLog(w)
    BY <1>1, <2>3, <2>5, SubmitStep, Zenon
  <2>6. Has(w, m) \/ At(w, "bounce")
    <3>1. ~At(w, "idle")
      BY <2>1, Zenon DEF BusyStates, Steps, At
    <3> QED BY <2>3, <3>1, Unkept, Zenon DEF Has
  <2>7. CASE CheckMessage(w) \/ AbortDelivery(w) \/ DeferDelivery(w) \/ RefuseUnscannable(w)
    <3>1. Has(w, m)
      BY <2>6, <2>7, Zenon DEF CheckMessage, AbortDelivery, DeferDelivery, RefuseUnscannable, At
    <3> QED BY <1>1, <2>7, <3>1, FirstSteps, Zenon
  <2>8. CASE LocalDone(w) \/ Collected(w) \/ GiveUp(w)
    <3>1. Has(w, m)
      BY <2>6, <2>8, Zenon DEF LocalDone, Collected, GiveUp, At
    <3> QED BY <1>1, <2>8, <3>1, LaterSteps, Zenon
  <2>9. CASE \E r \in LocalRcpts :
               DropLocal(w, r) \/ RejectLocal(w, r) \/ CopyToAccount(w, r) \/ ReuseMessage(w, r)
    <3>1. Has(w, m)
      BY <2>6, <2>9, Zenon DEF Handling, DropLocal, RejectLocal, CopyToAccount, ReuseMessage, At
    <3> QED BY <1>1, <2>9, <3>1, LocalSteps, CopyStep, Zenon
  <2>10. CASE DropReused(w) \/ SaveReused(w) \/ DeleteLocalRecipient(w)
    <3>1. Has(w, m)
      BY <2>6, <2>10, Zenon DEF DropReused, SaveReused, DeleteLocalRecipient, At
    <3> QED BY <1>1, <2>10, <3>1, DropReusedStep, SaveReusedStep, DeleteLocalStep, Zenon
  <2>11. CASE DeliverBatch(w) \/ CollectDeliveryResult(w)
    <3>1. Has(w, m)
      BY <2>6, <2>11, Zenon DEF DeliverBatch, CollectDeliveryResult, At
    <3> QED BY <1>1, <2>11, <3>1, BatchStep, CollectStep, Zenon
  <2>12. CASE HoldForEtrn(w) \/ RescheduleDelivery(w)
    <3>1. Has(w, m)
      BY <2>6, <2>12, Zenon DEF HoldForEtrn, RescheduleDelivery, At
    <3> QED BY <1>1, <2>12, <3>1, RequeueSteps, Zenon
  <2>13. CASE UnlockHeld(w) \/ UnlockRescheduled(w) \/ PreprocessMessage(w)
    <3>1. Has(w, m)
      BY <2>6, <2>13, Zenon DEF UnlockHeld, UnlockRescheduled, PreprocessMessage, At
    <3> QED BY <1>1, <2>13, <3>1, UnlockSteps, PreprocessStep, Zenon
  <2>14. CASE HoldUnscannable(w) \/ DeleteQueueRow(w) \/ DeleteQueueRecipients(w) \/ DeleteDataFile(w)
    <3>1. Has(w, m)
      BY <2>6, <2>14, Zenon DEF HoldUnscannable, DeleteQueueRow, DeleteQueueRecipients, DeleteDataFile, At
    <3> QED BY <1>1, <2>14, <3>1, DeletingSteps, Zenon
  <2> QED BY <1>3, <2>4, <2>5, <2>7, <2>8, <2>9, <2>10, <2>11, <2>12, <2>13, <2>14, Zenon DEF Deliver
<1> QED BY <1>2, <1>3, Zenon DEF Work

-----------------------------------------------------------------------------
(* Steps of sessions, of the manager and of the administrator *)

\* The objects a delivery goes through stay as they are.
SameObjects == UNCHANGED <<pending, posted, mgr>> /\ \A w \in Workers : SameAttempt(worker[w], worker'[w])
                 /\ \A m \in Msgs : Delivering(w, m)' <=> Delivering(w, m)

LEMMA ObjectsLedger ==
  ASSUME NEW m \in Msgs, LedgerInv, Eases(m), Counts, SameObjects
  PROVE  Ledger(m)'
<1>1. InManager(m)' <=> InManager(m)
  BY Zenon DEF SameObjects, InManager
<1> QED BY <1>1, EaseLedger, Zenon DEF LedgerInv, SameObjects

\* A message that is still being saved: nobody has it, nobody has seen it.
LEMMA Unseen ==
  ASSUME NEW m \in Msgs, IInv, LedgerInv, recv[m] \in {"new", "inserted", "saved"}
  PROVE  /\ m \notin taken /\ m \notin cache /\ m \notin stale /\ Untouched(m)
         /\ rcpt[m] \subseteq envelope[m]
         /\ \A p \in pending : p.id # m
         /\ \A t \in posted : t.id # m
         /\ ~InManager(m) /\ \A w \in Workers : ~Delivering(w, m)
<1>1. MessageInv(m)
  BY Zenon DEF LedgerInv, Ledger
<1>2. ~InManager(m) /\ ~InQueue(m) /\ ~InWorker(m) /\ \A p \in pending : p.id # m
  BY Zenon DEF IInv, LockInv
<1> QED BY <1>1, <1>2, Zenon DEF MessageInv, InQueue, InWorker

LEMMA UnseenLedger ==
  ASSUME NEW m \in Msgs, IInv, LedgerInv, recv[m] \in {"new", "inserted", "saved"}, SameObjects, Counts,
         UNCHANGED <<taken, stale, cache, crashes, reached, twice, signed, resigned>>,
         row'[m].tries = 0, row'[m].type # "held",
         recv'[m] # "new", rcpt'[m] \subseteq envelope'[m]
  PROVE  Ledger(m)'
<1>1. /\ m \notin taken /\ m \notin cache /\ m \notin stale /\ Untouched(m) /\ MessageInv(m)
      /\ \A p \in pending : p.id # m
      /\ \A t \in posted : t.id # m
      /\ ~InManager(m) /\ \A w \in Workers : ~Delivering(w, m)
  BY Unseen, Zenon DEF LedgerInv, Ledger
<1>2. Untouched(m)'
  BY <1>1, Zenon DEF Untouched
<1>3. Within(m)'
  <2>1. Allowed(m)' \in Nat
    BY DelivererAssumption DEF Allowed
  <2>2. row'[m].tries <= Allowed(m)'
    BY <2>1
  <2> QED BY <2>2, Zenon DEF Within
<1>4. Smooth(m)' => Smooth(m)
  BY Zenon DEF Counts, Smooth
<1>5. Clean(m)' /\ Tried(m)' /\ RouteOnly(m)'
  BY <1>2, Zenon DEF Untouched, Clean, Tried, RouteOnly
<1>6. MessageInv(m)'
  BY <1>1, <1>2, <1>3, <1>4, <1>5, Zenon DEF MessageInv
<1>7. ~InManager(m)'
  BY <1>1, Zenon DEF SameObjects, InManager
<1> QED BY <1>1, <1>6, <1>7, Zenon DEF Ledger, SameObjects

\* A session keeps the ledger.
LEMMA ReceiveLedger ==
  ASSUME IInv, LedgerInv, NEW m \in Msgs, Receive(m)
  PROVE  LedgerInv'
<1> USE DEF restOfSession, managerVars, adminVars, history
<1>1. /\ row \in [Msgs -> Rows] /\ rcpt \in [Msgs -> SUBSET Rcpts]
      /\ recv \in [Msgs -> Sessions] /\ envelope \in [Msgs -> SUBSET Rcpts] /\ faults \in Nat
  BY Zenon DEF IInv, TypeOK, DelivererTypeOK, StoreTypeOK
<1>2. /\ UNCHANGED <<worker, reached, twice, signed, resigned, posted, mgr, pending>>
      /\ UNCHANGED <<taken, stale, crashes>>
  BY Zenon DEF Receive, InsertMessage, SaveRecipients, UnlockSaved, AcceptMessage, delivererVars
<1>3. SameObjects
  BY <1>2, Zenon DEF SameObjects, SameAttempt, Delivering, At
<1>4. Counts
  <2>1. Works \/ Fails
    BY Zenon DEF Receive, InsertMessage, SaveRecipients, UnlockSaved, AcceptMessage, delivererVars, Works
  <2> QED BY <1>1, <1>2, <2>1, CountsFaults, Zenon
<1>5. ASSUME NEW n \in Msgs, n # m PROVE Ledger(n)'
  <2>1. /\ recv'[n] = recv[n] /\ envelope'[n] = envelope[n]
        /\ row'[n] = row[n] /\ rcpt'[n] = rcpt[n]
    BY <1>1, <1>5, Zenon DEF Receive, InsertMessage, SaveRecipients, UnlockSaved, AcceptMessage,
       Session, InsertRow, Add, UnlockObject, Update, delivererVars
  <2>2. n \in cache' => n \in cache
    <3>1. CASE AcceptMessage(m)
      BY <1>5, <3>1 DEF AcceptMessage
    <3>2. CASE cache' = cache
      BY <3>2, Zenon
    <3> QED BY <3>1, <3>2, Zenon DEF Receive, InsertMessage, SaveRecipients, UnlockSaved
  <2>3. Eases(n)
    BY <1>2, <2>1, <2>2, Zenon DEF Eases, Recorded, Queued, LockedOrGone
  <2> QED BY <1>3, <1>4, <2>3, ObjectsLedger, Zenon
<1>6. Ledger(m)' => LedgerInv'
  BY <1>5, Zenon DEF LedgerInv
<1>7. CASE InsertMessage(m)
  <2>1. recv[m] = "new" /\ recv'[m] # "new" /\ cache' = cache /\ rcpt' = rcpt
    BY <1>1, <1>7, Zenon DEF InsertMessage, Session
  <2>2. Untouched(m) /\ rcpt[m] = {}
    BY <2>1, Unseen, Zenon DEF LedgerInv, Ledger, MessageInv
  <2>3. row'[m].tries = 0 /\ row'[m].type # "held"
    <3>1. CASE row' = row
      BY <2>2, <3>1, Zenon DEF Untouched
    <3>2. CASE row' = InsertRow(m)
      BY <1>1, <3>2 DEF InsertRow
    <3> QED BY <1>7, <3>1, <3>2, Zenon DEF InsertMessage
  <2> QED BY <1>2, <1>3, <1>4, <2>1, <2>2, <2>3, <1>6, UnseenLedger, Zenon
<1>8. CASE SaveRecipients(m)
  <2>1. recv[m] = "inserted" /\ recv'[m] # "new" /\ cache' = cache /\ row' = row /\ envelope' = envelope
    BY <1>1, <1>8, Zenon DEF SaveRecipients, Session
  <2>2. Untouched(m) /\ rcpt[m] \subseteq envelope[m]
    BY <2>1, Unseen, Zenon
  <2>3. PICK S \in SUBSET envelope[m] : rcpt' = Add(rcpt, m, S)
    BY <1>8, Zenon DEF SaveRecipients
  <2>4. rcpt'[m] \subseteq envelope'[m]
    BY <1>1, <2>1, <2>2, <2>3, Zenon DEF Add
  <2>5. row'[m].tries = 0 /\ row'[m].type # "held"
    BY <2>1, <2>2, Zenon DEF Untouched
  <2> QED BY <1>2, <1>3, <1>4, <2>1, <2>4, <2>5, <1>6, UnseenLedger, Zenon
<1>9. CASE UnlockSaved(m)
  <2>1. recv[m] = "saved" /\ recv'[m] # "new" /\ cache' = cache /\ rcpt' = rcpt /\ envelope' = envelope
    BY <1>1, <1>9, Zenon DEF UnlockSaved, Session
  <2>2. Untouched(m) /\ rcpt[m] \subseteq envelope[m]
    BY <2>1, Unseen, Zenon
  <2>3. row'[m].tries = 0 /\ row'[m].type # "held"
    <3>1. CASE row' = row
      BY <2>2, <3>1, Zenon DEF Untouched
    <3>2. CASE row' = UnlockObject(m) /\ row' # row
      <4>1. row[m] \in Rows /\ row'[m] = [row[m] EXCEPT !.locked = FALSE]
        BY <1>1, <3>2, Zenon DEF UnlockObject, Update
      <4>2. row'[m].tries = row[m].tries /\ row'[m].type = row[m].type
        BY <4>1 DEF Rows
      <4> QED BY <2>2, <4>2, Zenon DEF Untouched
    <3> QED BY <1>9, <3>1, <3>2, Zenon DEF UnlockSaved
  <2> QED BY <1>2, <1>3, <1>4, <2>1, <2>2, <2>3, <1>6, UnseenLedger, Zenon
<1>10. CASE AcceptMessage(m)
  <2>1. /\ recv[m] = "unlocked" /\ recv'[m] = "accepted"
        /\ UNCHANGED <<row, rcpt, envelope, faults>>
    BY <1>1, <1>10, Zenon DEF AcceptMessage, Session, delivererVars
  <2>2. Ledger(m)
    BY Zenon DEF LedgerInv
  <2> USE DEF Queued, LockedOrGone, Smooth, Allowed, Clean, Tried
  <2>3. MessageInv(m)'
    <3>1. m \notin stale
      BY <2>1, <2>2, Zenon DEF Ledger, MessageInv
    <3>2. Within(m)' /\ RouteOnly(m)' /\ (m \notin taken => Untouched(m))'
      BY <1>2, <2>1, <2>2, Zenon DEF Ledger, MessageInv, Within, RouteOnly, Untouched
    <3>3. MessageInv(m)
      BY <2>2, Zenon DEF Ledger
    <3> QED BY <1>2, <2>1, <3>1, <3>2, <3>3, Zenon DEF MessageInv
  <2>4. /\ \A t : Budget(m, t)' <=> Budget(m, t)
        /\ \A t : Fresh(m, t)' <=> Fresh(m, t)
        /\ Tried(m)' <=> Tried(m)
        /\ Smooth(m)' <=> Smooth(m)
    BY <1>2, <2>1, Zenon DEF Budget, Fresh
  <2> HIDE DEF Queued, LockedOrGone, Smooth, Allowed, Clean, Tried
  <2>5. \A t : EntryInv(m, t) => EntryInv(m, t)'
    BY <2>1, <2>4, Zenon DEF EntryInv
  <2>6. \A t : TaskInv(m, t) => TaskInv(m, t)'
    BY <1>2, <2>1, <2>4, Zenon DEF TaskInv
  <2>7. \A x : AttemptInv(m, x) => AttemptInv(m, x)'
    BY <1>2, <2>1, <2>4, Zenon DEF AttemptInv
  <2> QED BY <1>2, <1>6, <2>2, <2>3, <2>5, <2>6, <2>7, Zenon DEF Ledger, InManager, Delivering, At
<1> QED BY <1>7, <1>8, <1>9, <1>10, Zenon DEF Receive

\* A write that keeps the tries and the lock of a row, and its place in the queue.
KeepsRow(m) ==
  /\ row'[m].tries = row[m].tries
  /\ row'[m].type = row[m].type \/ (Queued(m) /\ row'[m].type = "delivering")
  /\ m \in taken /\ LockedOrGone(m) /\ Smooth(m) => LockedOrGone(m)'

LEMMA KeepsEases ==
  ASSUME NEW m \in Msgs, KeepsRow(m), rcpt'[m] \subseteq rcpt[m],
         UNCHANGED <<reached, twice, signed, resigned, recv, envelope, cache, taken, stale>>
  PROVE  Eases(m)
BY Zenon DEF KeepsRow, Eases, Recorded, Queued

\* Locking, unlocking everything (before anything is on its way), releasing the
\* route and resetting the delivery time keep every row.
LEMMA RowsKept ==
  ASSUME row \in [Msgs -> Rows],
         \/ row' = row
         \/ \E m \in Msgs : row' = LockObject(m)
         \/ row' = UnlockAll /\ \A n \in Msgs : ~(n \in taken /\ Smooth(n))
         \/ row' = ReleaseRoute
         \/ \E m \in Msgs : Queued(m) /\ row' = SetNextTryTime(m, FALSE, TRUE)
         \/ \E m \in Msgs : row' = [row EXCEPT ![m] = [row[m] EXCEPT !.due = TRUE]]
  PROVE  \A n \in Msgs : KeepsRow(n)
<1> TAKE n \in Msgs
<1>1. row[n] \in Rows
  BY Zenon
<1>2. CASE row'[n] = row[n]
  BY <1>2, Zenon DEF KeepsRow, LockedOrGone
<1>3. CASE row'[n] = [row[n] EXCEPT !.locked = TRUE]
  <2>1. row'[n].tries = row[n].tries /\ row'[n].type = row[n].type /\ row'[n].locked
    BY <1>1, <1>3, Zenon DEF Rows
  <2> QED BY <2>1, Zenon DEF KeepsRow, LockedOrGone
<1>4. CASE row'[n] = [row[n] EXCEPT !.locked = FALSE] /\ ~(n \in taken /\ Smooth(n))
  <2>1. row'[n].tries = row[n].tries /\ row'[n].type = row[n].type
    BY <1>1, <1>4, Zenon DEF Rows
  <2> QED BY <1>4, <2>1, Zenon DEF KeepsRow
<1>5. CASE /\ row[n].type = "held"
           /\ row'[n] = [row[n] EXCEPT !.type = "delivering", !.owner = "none", !.due = TRUE]
  <2>1. row'[n].tries = row[n].tries /\ row'[n].type = "delivering" /\ row'[n].locked = row[n].locked
    BY <1>1, <1>5, Zenon DEF Rows
  <2> QED BY <1>5, <2>1, Zenon DEF KeepsRow, LockedOrGone, Queued
<1>6. CASE /\ Queued(n)
           /\ row'[n] = [row[n] EXCEPT !.type = "delivering", !.due = TRUE, !.tries = row[n].tries]
  <2>1. row'[n].tries = row[n].tries /\ row'[n].type = "delivering" /\ row'[n].locked = row[n].locked
    BY <1>1, <1>6, Zenon DEF Rows
  <2> QED BY <1>6, <2>1, Zenon DEF KeepsRow, LockedOrGone, Queued
<1>7. CASE row'[n] = [row[n] EXCEPT !.due = TRUE]
  <2>1. row'[n].tries = row[n].tries /\ row'[n].type = row[n].type /\ row'[n].locked = row[n].locked
    BY <1>1, <1>7, Zenon DEF Rows
  <2> QED BY <2>1, Zenon DEF KeepsRow, LockedOrGone
<1>8. ASSUME NEW m \in Msgs, row' = LockObject(m) PROVE KeepsRow(n)
  BY <1>2, <1>3, <1>8, Zenon DEF LockObject, Update
<1>9. CASE row' = UnlockAll /\ \A k \in Msgs : ~(k \in taken /\ Smooth(k))
  BY <1>2, <1>4, <1>9, Zenon DEF UnlockAll
<1>10. CASE row' = ReleaseRoute
  BY <1>2, <1>5, <1>10, Zenon DEF ReleaseRoute
<1>11. ASSUME NEW m \in Msgs, Queued(m), row' = SetNextTryTime(m, FALSE, TRUE) PROVE KeepsRow(n)
  BY <1>2, <1>6, <1>11, Zenon DEF SetNextTryTime
<1>12. ASSUME NEW m \in Msgs, row' = [row EXCEPT ![m] = [row[m] EXCEPT !.due = TRUE]] PROVE KeepsRow(n)
  BY <1>2, <1>7, <1>12, Zenon
<1> QED BY <1>2, <1>8, <1>9, <1>10, <1>11, <1>12, Zenon

\* A listed row agrees with its entry.
LEMMA ListedEntry ==
  ASSUME NEW m \in Msgs, IInv, MessageInv(m), row[m].type = "delivering", ~row[m].locked
  PROVE  EntryInv(m, row[m].tries)
<1>1. Queued(m) /\ ~LockedOrGone(m) /\ row[m].type # "held"
  BY Zenon DEF Queued, LockedOrGone
<1>2. Budget(m, row[m].tries)
  <2>1. row[m].tries \in Nat
    BY Zenon DEF IInv, TypeOK, DelivererTypeOK, StoreTypeOK, Rows
  <2>2. row[m].tries < MaxNoOfRetries => row[m].tries < Allowed(m)
    BY <2>1, DelivererAssumption DEF Allowed
  <2> QED BY <2>2, Zenon DEF Budget
<1>3. Smooth(m) => Fresh(m, row[m].tries)
  BY <1>1, Zenon DEF MessageInv, Fresh, Tried
<1> QED BY <1>1, <1>2, <1>3, Zenon DEF EntryInv

\* What a step of the manager leaves alone.
Resting ==
  UNCHANGED <<rcpt, worker, reached, twice, signed, resigned, recv, envelope, crashes>>

\* A step of the manager in which it picks nothing up.
LEMMA ManagingLedger ==
  ASSUME IInv, LedgerInv, Resting, Works \/ Fails, UNCHANGED <<cache, taken, stale>>,
         \A n \in Msgs : KeepsRow(n), mgr'.pc # "start",
         \A p \in pending' : p \in pending \/ EntryInv(p.id, p.tries)',
         mgr'.pc \in {"lock", "post"} => mgr.pc \in {"lock", "post"} /\ mgr'.obj = mgr.obj,
         \A t \in posted' : t \in posted \/ (mgr.pc \in {"lock", "post"} /\ t = mgr.obj)
  PROVE  LedgerInv'
<1> SUFFICES ASSUME NEW m \in Msgs PROVE Ledger(m)'
  BY Zenon DEF LedgerInv
<1>1. Counts
  BY CountsFaults, Zenon DEF IInv, TypeOK, DelivererTypeOK, Resting
<1>2. Eases(m) /\ Ledger(m)
  BY KeepsEases, Zenon DEF Resting, LedgerInv
<1>3. InManager(m)' => InManager(m) /\ mgr'.obj = mgr.obj
  BY Zenon DEF InManager
<1>4. \A t \in posted' : t.id = m => t \in posted \/ (InManager(m) /\ t = mgr.obj)
  BY Zenon DEF InManager
<1>5. \A w \in Workers : Delivering(w, m)' => Delivering(w, m) /\ SameAttempt(worker[w], worker'[w])
  BY Zenon DEF Resting, Delivering, At, SameAttempt
<1>6. \A p \in pending' : p.id = m => p \in pending \/ EntryInv(m, p.tries)'
  BY Zenon
<1> QED BY <1>1, <1>2, <1>3, <1>4, <1>5, <1>6, EaseLedger, Zenon

\* The manager picks up a listed message: the entry is gone, nobody else has
\* the message, and the object it made agrees with the tables.
LEMMA TakeLedger ==
  ASSUME IInv, LedgerInv, Resting, UNCHANGED <<row, posted>>, Works,
         NEW p \in pending, NEW m \in Msgs, p.id = m, pending' = pending \ {p},
         NEW t, mgr' = [pc |-> "lock", obj |-> t], t.id = m,
         taken' = taken \cup {m},
         \A n \in Msgs : (n \in cache' => n \in cache) /\ (n # m => (n \in stale' <=> n \in stale)),
         m \in stale => m \in stale',
         m \in stale' => m \notin cache' /\ recv[m] = "accepted",
         TaskInv(m, t)'
  PROVE  LedgerInv'
<1>1. mgr'.pc = "lock" /\ mgr'.obj = t
  BY Zenon
<1>2. Counts
  BY CountsFaults, Zenon DEF IInv, TypeOK, DelivererTypeOK, Resting
<1>3. /\ ~InManager(m) /\ ~InQueue(m) /\ ~InWorker(m)
      /\ recv[m] \notin {"new", "inserted", "saved"}
      /\ \A q \in pending : q.id = m => q = p
  BY Zenon DEF IInv, LockInv
<1>4. ASSUME NEW n \in Msgs, n # m PROVE Ledger(n)'
  <2>1. Eases(n) /\ Ledger(n)
    BY <1>4, Zenon DEF Eases, Recorded, Queued, LockedOrGone, Resting, LedgerInv
  <2>2. ~InManager(n)'
    BY <1>1, <1>4, Zenon DEF InManager
  <2>3. \A w \in Workers : Delivering(w, n)' => Delivering(w, n) /\ SameAttempt(worker[w], worker'[w])
    BY Zenon DEF Resting, Delivering, At, SameAttempt
  <2>4. /\ \A q \in pending' : q \in pending
        /\ mgr'.pc # "start"
    BY <1>1, Zenon
  <2> QED BY <1>2, <2>1, <2>2, <2>3, <2>4, EaseLedger, Zenon
<1>5. Ledger(m)'
  <2>1. MessageInv(m)
    BY Zenon DEF LedgerInv, Ledger
  <2>2. Smooth(m)' => Smooth(m)
    BY <1>2, Zenon DEF Smooth, Counts
  <2>3. Within(m)'
    <3>1. Allowed(m) \in Nat /\ Allowed(m)' \in Nat /\ Allowed(m) <= Allowed(m)' /\ row[m].tries \in Nat
      BY DelivererAssumption DEF Allowed, IInv, TypeOK, DelivererTypeOK, StoreTypeOK, Rows
    <3>2. row[m].tries <= Allowed(m) => row[m].tries <= Allowed(m)'
      BY <3>1
    <3> QED BY <2>1, <3>2, Zenon DEF MessageInv, Within, Queued
  <2>4. RouteOnly(m)'
    BY <1>2, <2>1, Zenon DEF MessageInv, RouteOnly, Counts, Resting
  <2>5. Smooth(m)' => /\ twice'[m] = {} /\ m \notin resigned'
                      /\ ~LockedOrGone(m)' => Clean(m)' /\ Tried(m)'
    BY <2>1, <2>2, Zenon DEF MessageInv, LockedOrGone, Clean, Tried, Queued, Resting
  <2>6. MessageInv(m)'
    BY <1>1, <1>3, <2>1, <2>3, <2>4, <2>5, Zenon DEF MessageInv, Resting
  <2>7. \A q \in pending' : q.id # m
    BY <1>3, Zenon
  <2>8. \A s \in posted' : s.id # m
    BY <1>3, Zenon DEF InQueue
  <2>9. \A w \in Workers : ~Delivering(w, m)'
    BY <1>3, Zenon DEF InWorker, Delivering, At, Resting
  <2> QED BY <1>1, <2>6, <2>7, <2>8, <2>9, Zenon DEF Ledger
<1> QED BY <1>4, <1>5, Zenon DEF LedgerInv

\* An object from the cache is the message as it was received.
LEMMA CachedTask ==
  ASSUME IInv, NEW m \in Msgs, MessageInv(m), m \in cache, row[m].type # "held",
         Resting, UNCHANGED row, Works,
         taken' = taken \cup {m}, stale' = stale \cup ({m} \cap taken),
         NEW t, t.tries = 0, t.rcpts = envelope[m]
  PROVE  TaskInv(m, t)'
<1>1. m \notin stale /\ (m \in stale' <=> m \in taken)
  BY Zenon DEF MessageInv
<1>2. Budget(m, t.tries)'
  <2>1. row[m].tries \in Nat
    BY Zenon DEF IInv, TypeOK, DelivererTypeOK, StoreTypeOK, Rows
  <2>2. Queued(m) => row[m].tries <= MaxNoOfRetries \/ row[m].tries = 1
    BY <1>1, DelivererAssumption DEF MessageInv, Within, Allowed
  <2>3. CASE m \in taken
    <3>1. Allowed(m)' = MaxNoOfRetries + 1
      BY <1>1, <2>3, Zenon DEF Allowed
    <3>2. Queued(m) /\ 0 < MaxNoOfRetries => row[m].tries < Allowed(m)'
      BY <2>1, <2>2, <3>1, DelivererAssumption
    <3> QED BY <3>2, Zenon DEF Budget, Queued
  <2>4. CASE m \notin taken
    <3>1. row[m].tries = 0
      BY <2>4, Zenon DEF MessageInv, Untouched
    <3>2. 0 < MaxNoOfRetries => row[m].tries < Allowed(m)'
      BY <3>1, DelivererAssumption DEF Allowed
    <3> QED BY <3>2, Zenon DEF Budget, Queued
  <2> QED BY <2>3, <2>4, Zenon
<1>3. ASSUME Smooth(m)' PROVE (Fresh(m, t.tries) /\ t.rcpts \cap reached[m] = {})'
  <2>1. m \notin taken
    BY <1>1, <1>3, Zenon DEF Smooth
  <2>2. reached[m] = {} /\ m \notin signed
    BY <2>1, Zenon DEF MessageInv, Untouched
  <2> QED BY <2>2, Zenon DEF Fresh, Clean, Tried, Resting
<1>4. rcpt[m] \subseteq envelope[m]
  BY Zenon DEF MessageInv
<1> QED BY <1>2, <1>3, <1>4, Zenon DEF TaskInv, Resting

\* An object from the database is the entry with the recipients that are left.
LEMMA ReadTask ==
  ASSUME NEW m \in Msgs, MessageInv(m), NEW t, EntryInv(m, t.tries),
         Resting, UNCHANGED <<row, stale>>, Works,
         taken' = taken \cup {m}, t.rcpts = rcpt[m]
  PROVE  TaskInv(m, t)'
<1>1. Budget(m, t.tries)'
  BY Zenon DEF EntryInv, Budget, Queued, Allowed
<1>2. ASSUME Smooth(m)' PROVE (Fresh(m, t.tries) /\ t.rcpts \cap reached[m] = {})'
  <2>1. Smooth(m)
    BY <1>2, Zenon DEF Smooth, Works, Resting
  <2>2. Fresh(m, t.tries)
    BY <2>1, Zenon DEF EntryInv
  <2> QED BY <2>2, Zenon DEF Fresh, Clean, Tried, Queued, Resting
<1>3. rcpt[m] \subseteq envelope[m] /\ row[m].type # "held"
  BY Zenon DEF MessageInv, EntryInv
<1> QED BY <1>1, <1>2, <1>3, Zenon DEF TaskInv, Resting

\* The manager keeps the ledger.
LEMMA ManagerLedger ==
  ASSUME IInv, LedgerInv, DoWork
  PROVE  LedgerInv'
<1> USE DEF restOfManager, sessionVars, adminVars, history
<1>1. row \in [Msgs -> Rows] /\ \A n \in Msgs : MessageInv(n)
  BY Zenon DEF IInv, TypeOK, DelivererTypeOK, StoreTypeOK, LedgerInv, Ledger
<1>2. Resting /\ (Works \/ Fails)
  BY Zenon DEF DoWork, StartManager, LoadPendingMessageList, TakeFromCache, TakeFromDatabase,
     LockMessage, AddTask, WakeManager, Resting, WriteRow, Works
<1>3. mgr.pc \in {"lock", "post"} => mgr.obj.id \in Msgs
  BY Zenon DEF IInv, TypeOK, Tasks
<1>4. CASE StartManager
  <2>1. /\ mgr.pc = "start" /\ row' \in {row, UnlockAll} /\ UNCHANGED <<posted, cache, pending, taken, stale>>
        /\ mgr'.pc = "next"
    BY <1>4, Zenon DEF StartManager, WriteRow, Manager
  <2>2. \A n \in Msgs : ~(n \in taken /\ Smooth(n))
    BY <1>1, <2>1, Zenon DEF MessageInv
  <2>3. \A n \in Msgs : KeepsRow(n)
    BY <1>1, <2>1, <2>2, RowsKept, Zenon
  <2> QED BY <1>2, <2>1, <2>3, ManagingLedger, Zenon
<1>5. CASE LoadPendingMessageList
  <2>1. /\ pending' = PendingMessageList \/ pending' = {}
        /\ UNCHANGED <<row, posted, cache, taken, stale>>
    BY <1>5, Zenon DEF LoadPendingMessageList
  <2>2. mgr'.pc \in {"wait", "pick"}
    BY <1>5 DEF LoadPendingMessageList, Manager
  <2>3. \A n \in Msgs : KeepsRow(n)
    BY <1>1, <2>1, RowsKept, Zenon
  <2>4. Counts
    BY <1>2, CountsFaults, Zenon DEF IInv, TypeOK, DelivererTypeOK, Resting
  <2>5. ASSUME NEW p \in pending' PROVE EntryInv(p.id, p.tries)'
    <3>1. PICK n \in Msgs : /\ row[n].type = "delivering" /\ ~row[n].locked
                            /\ p = [id |-> n, tries |-> row[n].tries, owner |-> row[n].owner]
      BY <2>1, Zenon DEF PendingMessageList
    <3>2. p.id = n /\ p.tries = row[n].tries
      BY <3>1, Zenon
    <3>3. EntryInv(n, p.tries)
      BY <1>1, <3>1, <3>2, ListedEntry, Zenon
    <3>4. Eases(n)
      BY <1>2, <2>1, <2>3, KeepsEases, Zenon DEF Resting
    <3>5. EntryInv(n, p.tries)'
      BY <2>4, <3>3, <3>4, EaseEntry, Zenon
    <3> QED BY <3>2, <3>5, Zenon
  <2> QED BY <1>2, <2>1, <2>2, <2>3, <2>5, ManagingLedger, Zenon
<1>6. ASSUME NEW p \in pending, TakeFromCache(p)
      PROVE  LedgerInv'
  <2>1. PICK m \in Msgs : m = p.id
    BY Zenon DEF IInv, TypeOK, Entries
  <2>2. PICK t : t = [id |-> m, rcpts |-> envelope[m], tries |-> 0, owner |-> "none"]
    BY Zenon
  <2>3. /\ m \in cache /\ mgr' = [pc |-> "lock", obj |-> t] /\ taken' = taken \cup {m}
        /\ stale' = stale \cup ({m} \cap taken) /\ cache' = cache \ {m} /\ pending' = pending \ {p}
        /\ UNCHANGED <<row, posted>> /\ Works
    BY <1>6, <2>1, <2>2, Zenon DEF TakeFromCache, Take, Works
  <2>4. t.id = m /\ t.tries = 0 /\ t.rcpts = envelope[m]
    BY <2>2, Zenon
  <2>5. row[m].type # "held"
    BY <2>1, Zenon DEF LedgerInv, Ledger, EntryInv
  <2>6. TaskInv(m, t)'
    BY <1>1, <1>2, <2>3, <2>4, <2>5, CachedTask, Zenon
  <2>7. recv[m] = "accepted"
    BY <1>1, <2>3, Zenon DEF MessageInv
  <2>8. \A n \in Msgs : (n \in cache' => n \in cache) /\ (n # m => (n \in stale' <=> n \in stale))
    BY <2>3, Zenon
  <2> QED BY <1>2, <2>1, <2>3, <2>4, <2>6, <2>7, <2>8, TakeLedger, Zenon
<1>7. ASSUME NEW p \in pending, TakeFromDatabase(p)
      PROVE  LedgerInv'
  <2>1. PICK m \in Msgs : m = p.id
    BY Zenon DEF IInv, TypeOK, Entries
  <2>2. PICK t : t = [id |-> m, rcpts |-> rcpt[m], tries |-> p.tries, owner |-> p.owner]
    BY Zenon
  <2>3. t.id = m /\ t.tries = p.tries /\ t.rcpts = rcpt[m]
    BY <2>2, Zenon
  <2>4. UNCHANGED <<row, posted, cache, stale>>
    BY <1>7, Zenon DEF TakeFromDatabase
  <2>5. CASE Works /\ mgr' = [pc |-> "lock", obj |-> t] /\ taken' = taken \cup {m} /\ pending' = pending \ {p}
    <3>1. EntryInv(m, t.tries)
      BY <2>1, <2>3, Zenon DEF LedgerInv, Ledger
    <3>2. TaskInv(m, t)'
      BY <1>1, <1>2, <2>3, <2>4, <2>5, <3>1, ReadTask, Zenon
    <3>3. m \in stale => m \notin cache /\ recv[m] = "accepted"
      BY <1>1, Zenon DEF MessageInv
    <3> QED BY <1>2, <2>1, <2>3, <2>4, <2>5, <3>2, <3>3, TakeLedger, Zenon
  <2>6. CASE Fails /\ Manager("wait") /\ UNCHANGED <<pending, taken>>
    <3>1. mgr'.pc = "wait"
      BY <2>6, Zenon DEF Manager
    <3>2. \A n \in Msgs : KeepsRow(n)
      BY <1>1, <2>4, RowsKept, Zenon
    <3> QED BY <1>2, <2>4, <2>6, <3>1, <3>2, ManagingLedger, Zenon
  <2> QED BY <1>7, <2>1, <2>2, <2>5, <2>6, Zenon DEF TakeFromDatabase, Take
<1>8. CASE LockMessage \/ AddTask \/ WakeManager
  <2>1. /\ UNCHANGED <<cache, pending, taken, stale>>
        /\ row' = row \/ (\E m \in Msgs : row' = LockObject(m))
        /\ \A t \in posted' : t \in posted \/ (mgr.pc \in {"lock", "post"} /\ t = mgr.obj)
    BY <1>3, <1>8, Zenon DEF LockMessage, AddTask, WakeManager
  <2>2. /\ mgr'.pc \in {"next", "post"}
        /\ mgr'.pc = "post" => mgr.pc = "lock" /\ mgr'.obj = mgr.obj
    BY <1>8 DEF LockMessage, AddTask, WakeManager, Manager
  <2>3. \A n \in Msgs : KeepsRow(n)
    BY <1>1, <2>1, RowsKept, Zenon
  <2> QED BY <1>2, <2>1, <2>2, <2>3, ManagingLedger, Zenon
<1> QED BY <1>4, <1>5, <1>6, <1>7, <1>8, Zenon DEF DoWork

\* A row or its recipients are deleted, or every row keeps its place.
LEMMA OutsideLedger ==
  ASSUME IInv, LedgerInv, SameObjects, Works \/ Fails,
         UNCHANGED <<reached, twice, signed, resigned, recv, envelope, cache, taken, stale, crashes>>,
         \A n \in Msgs : KeepsRow(n) \/ row'[n] = NoRow,
         \A n \in Msgs : rcpt'[n] \subseteq rcpt[n]
  PROVE  LedgerInv'
<1> SUFFICES ASSUME NEW m \in Msgs PROVE Ledger(m)'
  BY Zenon DEF LedgerInv
<1>1. Counts
  BY CountsFaults, Zenon DEF IInv, TypeOK, DelivererTypeOK
<1>2. Eases(m)
  <2>1. CASE KeepsRow(m)
    BY <2>1, KeepsEases, Zenon
  <2>2. CASE row'[m] = NoRow
    <3>1. row'[m].tries = 0 /\ row'[m].type = "none"
      BY <2>2, Deleted1, Zenon
    <3> QED BY <3>1, Zenon DEF Eases, Recorded, Queued, LockedOrGone
  <2> QED BY <2>1, <2>2, Zenon
<1> QED BY <1>1, <1>2, ObjectsLedger, Zenon

\* The administrator keeps the ledger.
LEMMA AdminLedger ==
  ASSUME IInv, LedgerInv, Administer
  PROVE  LedgerInv'
<1> USE DEF restOfAdmin, sessionVars, history, adminVars
<1>1. /\ row \in [Msgs -> Rows] /\ rcpt \in [Msgs -> SUBSET Rcpts]
  BY Zenon DEF IInv, TypeOK, DelivererTypeOK, StoreTypeOK
<1>2. /\ UNCHANGED <<reached, twice, signed, resigned, recv, envelope, cache, taken, stale, crashes>>
      /\ UNCHANGED <<mgr, pending, posted>>
      /\ Works \/ Fails
  BY Zenon DEF Administer, Clearer, Clear, ClearerStop, ClearerRefresh, ClearerNext, ClearerUncache,
     ClearerStart, Remove, RemoveLock, AdminDeleteRow, AdminDeleteRecipients, AdminDeleteFile,
     ResetDeliveryTime, ETRN, Works
<1>3. SameObjects
  <2>1. CASE ClearerStop
    <3>1. \A w \in Workers : worker'[w].pc = worker[w].pc /\ Same(worker[w], worker'[w])
      BY <2>1, Stops, Zenon DEF ClearerStop, IInv, TypeOK
    <3>2. \A w \in Workers : SameAttempt(worker[w], worker'[w])
      BY <3>1, Zenon DEF SameAttempt, Same, SameLocal, SameTask, SameRcpts
    <3>3. \A w \in Workers, m \in Msgs : Delivering(w, m)' <=> Delivering(w, m)
      BY <3>1, Zenon DEF Delivering, At, Same, SameLocal, SameTask
    <3> QED BY <1>2, <3>2, <3>3, Zenon DEF SameObjects
  <2>2. CASE worker' = worker
    BY <1>2, <2>2, Zenon DEF SameObjects, SameAttempt, Delivering, At
  <2> QED BY <2>1, <2>2, Zenon DEF Administer, Clearer, Clear, ClearerRefresh, ClearerNext, ClearerUncache,
       ClearerStart, Remove, RemoveLock, AdminDeleteRow, AdminDeleteRecipients, AdminDeleteFile,
       ResetDeliveryTime, ETRN
<1>4. ASSUME rcpt' = rcpt,
             \/ row' = row
             \/ \E m \in Msgs : row' = LockObject(m)
             \/ row' = ReleaseRoute
             \/ \E m \in Msgs : Queued(m) /\ row' = SetNextTryTime(m, FALSE, TRUE)
      PROVE  LedgerInv'
  <2>1. \A n \in Msgs : KeepsRow(n)
    BY <1>1, <1>4, RowsKept, Zenon
  <2> QED BY <1>2, <1>3, <1>4, <2>1, OutsideLedger, Zenon
<1>5. CASE \/ Clear \/ ClearerStop \/ ClearerRefresh \/ ClearerNext \/ ClearerUncache \/ ClearerStart
           \/ \E m \in Msgs : Remove(m)
           \/ AdminDeleteFile("clear") \/ AdminDeleteFile("remove")
  <2>1. row' = row /\ rcpt' = rcpt
    BY <1>5, Zenon DEF Clear, ClearerStop, ClearerRefresh, ClearerNext, ClearerUncache, ClearerStart,
       Remove, AdminDeleteFile
  <2> QED BY <1>4, <2>1, Zenon
<1>6. CASE RemoveLock
  <2>1. deleter["remove"].id \in Msgs
    BY <1>6, DeleterId, Zenon DEF RemoveLock, IInv
  <2>2. rcpt' = rcpt /\ (row' = row \/ row' = LockObject(deleter["remove"].id))
    BY <1>6, Zenon DEF RemoveLock
  <2> QED BY <1>4, <2>1, <2>2, Zenon
<1>7. ASSUME NEW d \in {"clear", "remove"}, AdminDeleteRow(d) \/ AdminDeleteRecipients(d)
      PROVE  LedgerInv'
  <2>1. /\ row' = row \/ row' = DeleteRow(deleter[d].id)
        /\ rcpt' = rcpt \/ rcpt' = DeleteRecipients(deleter[d].id)
    BY <1>7, Zenon DEF AdminDeleteRow, AdminDeleteRecipients
  <2>2. \A n \in Msgs : row'[n] = row[n] \/ row'[n] = NoRow
    BY <1>1, <2>1, Zenon DEF DeleteRow
  <2>3. \A n \in Msgs : KeepsRow(n) \/ row'[n] = NoRow
    BY <2>2, Zenon DEF KeepsRow, LockedOrGone
  <2>4. \A n \in Msgs : rcpt'[n] \subseteq rcpt[n]
    BY <1>1, <2>1, Zenon DEF DeleteRecipients
  <2> QED BY <1>2, <1>3, <2>3, <2>4, OutsideLedger, Zenon
<1>8. CASE ETRN \/ \E m \in Msgs : ResetDeliveryTime(m)
  BY <1>4, <1>8, Zenon DEF ETRN, ResetDeliveryTime
<1> QED BY <1>5, <1>6, <1>7, <1>8, Zenon DEF Administer, Clearer

\* A restart leaves the tables, and nothing else.
LEMMA CrashLedger ==
  ASSUME IInv, LedgerInv, Crash
  PROVE  LedgerInv'
<1> SUFFICES ASSUME NEW m \in Msgs PROVE Ledger(m)'
  BY Zenon DEF LedgerInv
<1>1. crashes' # 0
  BY DEF Crash, IInv, TypeOK
<1>2. /\ posted' = {} /\ pending' = {} /\ mgr'.pc = "start" /\ cache' = {}
      /\ \A w \in Workers : worker'[w] = Idle
      /\ UNCHANGED <<row, rcpt, reached, twice, signed, resigned, envelope, taken, stale, faults>>
  BY Zenon DEF Crash, Manager
<1>3. Counts
  BY <1>1, <1>2, Zenon DEF Counts
<1>4. recv'[m] = recv[m] \/ (recv'[m] = "refused" /\ recv[m] # "accepted")
  BY Zenon DEF Crash
<1>5. Eases(m) /\ Ledger(m)
  BY <1>2, <1>4, Zenon DEF Eases, Recorded, Queued, LockedOrGone, LedgerInv
<1>6. ~Smooth(m)' /\ ~InManager(m)'
  BY <1>1, <1>2, Zenon DEF Smooth, InManager
<1>7. \A w \in Workers : ~Delivering(w, m)'
  BY <1>2, NoId, Zenon DEF Delivering
<1> QED BY <1>2, <1>3, <1>5, <1>6, <1>7, EaseLedger, Zenon

LEMMA LedgerStep ==
  ASSUME IInv, LedgerInv, [Next]_vars
  PROVE  LedgerInv'
<1>1. row \in [Msgs -> Rows]
  BY Zenon DEF IInv, TypeOK, DelivererTypeOK, StoreTypeOK
<1>2. ASSUME NEW m \in Msgs, TimePasses(m)
      PROVE  LedgerInv'
  <2>1. /\ UNCHANGED <<reached, twice, signed, resigned, recv, envelope, cache, taken, stale, crashes>>
        /\ UNCHANGED <<mgr, pending, posted, worker, rcpt>> /\ Works
        /\ row' = [row EXCEPT ![m] = [row[m] EXCEPT !.due = TRUE]]
    BY <1>2, Zenon DEF TimePasses, restOfAdmin, sessionVars, history, Works
  <2>2. SameObjects
    BY <2>1, Zenon DEF SameObjects, SameAttempt, Delivering, At
  <2>3. \A n \in Msgs : KeepsRow(n)
    BY <1>1, <2>1, RowsKept, Zenon
  <2> QED BY <2>1, <2>2, <2>3, OutsideLedger, Zenon
<1>3. CASE UNCHANGED vars
  <2>1. /\ UNCHANGED <<reached, twice, signed, resigned, recv, envelope, cache, taken, stale, crashes>>
        /\ UNCHANGED <<mgr, pending, posted, worker, rcpt, row>> /\ Works
    BY <1>3, Zenon DEF vars, delivererVars, sessionVars, managerVars, Works
  <2>2. SameObjects
    BY <2>1, Zenon DEF SameObjects, SameAttempt, Delivering, At
  <2>3. \A n \in Msgs : KeepsRow(n)
    BY <1>1, <2>1, RowsKept, Zenon
  <2> QED BY <2>1, <2>2, <2>3, OutsideLedger, Zenon
<1> QED BY <1>2, <1>3, ReceiveLedger, ManagerLedger, WorkLedger, AdminLedger, CrashLedger, Zenon DEF Next

LEMMA LedgerInit ==
  ASSUME Init
  PROVE  LedgerInv
<1> SUFFICES ASSUME NEW m \in Msgs PROVE Ledger(m)
  BY Zenon DEF LedgerInv
<1>1. /\ posted = {} /\ pending = {} /\ cache = {} /\ taken = {} /\ stale = {}
      /\ signed = {} /\ resigned = {} /\ recv[m] = "new" /\ row[m] = NoRow
      /\ rcpt[m] = {} /\ reached[m] = {} /\ twice[m] = {} /\ mgr.pc = "start"
      /\ \A w \in Workers : worker[w] = Idle
  BY Zenon DEF Init, DelivererInit
<1>2. row[m].tries = 0 /\ row[m].type = "none"
  BY <1>1, Deleted1, Zenon
<1>3. MessageInv(m)
  BY <1>1, <1>2, Zenon DEF MessageInv, Untouched, Within, RouteOnly, Queued, LockedOrGone
<1>4. ~InManager(m) /\ \A w \in Workers : ~Delivering(w, m)
  BY <1>1, NoId, Zenon DEF InManager, Delivering
<1> QED BY <1>1, <1>3, <1>4, Zenon DEF Ledger

-----------------------------------------------------------------------------
(* The theorems *)

\* The tables, the listed rows, the manager's object, the posted tasks and the
\* threads agree with each other, and with what the world has seen, about each
\* message: the lock column keeps them from being wrong about it together.
THEOREM LedgerIsKept ==
  ASSUME EarlySessions = FALSE
  PROVE  Spec => [](IInv /\ LedgerInv)
<1>1. Init => IInv /\ LedgerInv
  BY LockInit, LedgerInit, Zenon
<1>2. IInv /\ LedgerInv /\ [Next]_vars => (IInv /\ LedgerInv)'
  BY LockStep, LedgerStep, Zenon
<1> QED BY <1>1, <1>2, PTL DEF Spec

\* Nobody is sent a message twice while every statement works and the server
\* stays up, unless the manager took the message from the cache after it had
\* delivered it from the database: recipient rows are deleted before the row is
\* unlocked, and the next attempt reads what is left.
THEOREM NobodyTwice ==
  ASSUME EarlySessions = FALSE
  PROVE  Spec => []AtMostOnce
<1>1. LedgerInv => AtMostOnce
  BY Zenon DEF LedgerInv, Ledger, MessageInv, Smooth, AtMostOnce
<1> QED BY <1>1, LedgerIsKept, PTL

\* Under the same conditions PreprocessMessage_ signs and mirrors a message
\* once: holds for the scanner come before that and every later way back into
\* the queue counts a try.
THEOREM SignedAtMostOnce ==
  ASSUME EarlySessions = FALSE
  PROVE  Spec => []SignedOnce
<1>1. IInv /\ LedgerInv => SignedOnce
  <2>1. IInv => resigned \subseteq Msgs
    BY Zenon DEF IInv, TypeOK, DelivererTypeOK
  <2> QED BY <2>1, Zenon DEF LedgerInv, Ledger, MessageInv, Smooth, SignedOnce
<1> QED BY <1>1, LedgerIsKept, PTL

\* RescheduleDelivery_ keeps to the retry limit, whatever fails and whatever an
\* administrator resets: only a stale cached object can buy one more try, and
\* an ETRN hold counts as one.
THEOREM RetriesAreBounded ==
  ASSUME EarlySessions = FALSE
  PROVE  Spec => []RetryBound
<1>1. LedgerInv => RetryBound
  BY Zenon DEF LedgerInv, Ledger, MessageInv, Within, Allowed, RetryBound
<1> QED BY <1>1, LedgerIsKept, PTL

\* As long as no statement fails, a message that is held for an ETRN has
\* recipient rows of the route only, through restarts as well: the rows of
\* those who were served go before RescheduleDelivery_ decides on the hold.
THEOREM HeldOnlyForRoute ==
  ASSUME EarlySessions = FALSE
  PROVE  Spec => []HeldForRouteOnly
<1>1. LedgerInv => HeldForRouteOnly
  BY Zenon DEF LedgerInv, Ledger, MessageInv, RouteOnly, HeldForRouteOnly
<1> QED BY <1>1, LedgerIsKept, PTL
=============================================================================
