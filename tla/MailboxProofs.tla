---------------------------- MODULE MailboxProofs ----------------------------
(***************************************************************************)
(* UidsAscend holds of Mailbox for any number of sessions and deliveries.  *)
(*                                                                         *)
(* A thread takes the UID in one step and inserts the row in another.  In  *)
(* between it has the folder's lock, so that the UID it took is still the  *)
(* highest given out, and no row has it.                                   *)
(***************************************************************************)
EXTENDS Mailbox, TLAPS

\* Thread a has taken a UID and not used it yet.
Saving(a) == pc[a] = "insert"

UidInv ==
    /\ DOMAIN pc = Actors /\ DOMAIN job = Actors
    /\ \A a \in Actors : "n" \in DOMAIN job[a]
    /\ currentUid \in Nat /\ rows \subseteq Nat
    /\ \A u \in rows : u <= currentUid
    /\ \A a \in Actors : Saving(a) => /\ folderLock = a /\ job[a].n = currentUid
                                      /\ currentUid \notin rows

\* A step outside GetUniqueMessageID and InsertRow: nobody starts or stops
\* saving, and no row is new.
Quiet ==
    /\ rows' \subseteq rows /\ UNCHANGED <<currentUid, folderLock>>
    /\ DOMAIN pc' = Actors /\ DOMAIN job' = Actors
    /\ \A a \in Actors : "n" \in DOMAIN job'[a]
    /\ \A a \in Actors : Saving(a)' => Saving(a) /\ job'[a] = job[a]

LEMMA QuietKeeps ==
    ASSUME UidInv, Quiet
    PROVE  UidInv'
BY Zenon DEF UidInv, Quiet, Saving

\* Only the thread a moves, and it does not save before or after.
LEMMA MovesQuiet ==
    ASSUME UidInv, NEW a \in Actors, NEW next, next # "insert",
           rows' \subseteq rows, UNCHANGED <<currentUid, folderLock>>,
           pc' = [pc EXCEPT ![a] = next],
           \/ job' = job
           \/ \E j : job' = [job EXCEPT ![a] = j] /\ "n" \in DOMAIN j
    PROVE  Quiet
<1>1. DOMAIN pc' = Actors /\ \A b \in Actors : pc'[b] = IF b = a THEN next ELSE pc[b]
  BY Zenon DEF UidInv
<1>2. CASE job' = job
  BY <1>1, <1>2, Zenon DEF Quiet, UidInv, Saving
<1>3. ASSUME NEW j, job' = [job EXCEPT ![a] = j], "n" \in DOMAIN j
      PROVE  Quiet
  <2>1. DOMAIN job' = Actors /\ \A b \in Actors : job'[b] = IF b = a THEN j ELSE job[b]
    BY <1>3, Zenon DEF UidInv
  <2> QED BY <1>1, <1>3, <2>1, Zenon DEF Quiet, UidInv, Saving
<1> QED BY <1>2, <1>3, Zenon

LEMMA StillQuiet ==
    ASSUME UidInv, rows' \subseteq rows, UNCHANGED <<currentUid, folderLock, pc, job>>
    PROVE  Quiet
BY Zenon DEF Quiet, UidInv, Saving

\* The jobs that are begun and ended have a number.
LEMMA JobNumbers ==
    /\ "n" \in DOMAIN NoJob
    /\ \A a, b, c, d : "n" \in DOMAIN [op |-> a, n |-> b, meant |-> c, ids |-> d]
    /\ \A a, b, c, d : "n" \in DOMAIN [op |-> a, n |-> b, ids |-> d, meant |-> c]
BY DEF NoJob

LEMMA NotifyQuiet ==
    ASSUME UidInv, NEW a \in Actors, NEW type, NEW ids, Notify(a, type, ids),
           rows' \subseteq rows, UNCHANGED <<currentUid, folderLock>>
    PROVE  Quiet
<1>1. AfterTelling(a) # "insert"
  BY DEF AfterTelling
<1>2. CASE pc' = [pc EXCEPT ![a] = AfterTelling(a)] /\ (job' = job \/ job' = [job EXCEPT ![a] = NoJob])
  BY <1>1, <1>2, JobNumbers, MovesQuiet, Zenon
<1>3. CASE pc' = [pc EXCEPT ![a] = "tell"] /\ job' = job
  BY <1>3, MovesQuiet, Zenon
<1> QED BY <1>2, <1>3, Zenon DEF Notify

LEMMA DeleteQuiet ==
    ASSUME UidInv, NEW a \in Actors, NEW load, NEW doomed, NEW tell, NEW sweep,
           Delete(a, load, doomed, tell, sweep), UNCHANGED <<currentUid, folderLock>>
    PROVE  Quiet
<1>1. PICK o : \E gone, ids : DeleteMessages(load.box, o.kept, o.ghosts, gone) /\ Notify(a, "Deleted", ids)
  BY Zenon DEF Delete
<1>2. rows' \subseteq rows
  BY <1>1, Zenon DEF DeleteMessages
<1> QED BY <1>1, <1>2, NotifyQuiet, Zenon

\* A command starts with one of its own steps.
LEMMA CommandQuiet ==
    ASSUME UidInv, NEW s \in Sessions, NEW op \in Ops[s] \ {"DROP"}, NEW n, NEW ids, Command(s, op, n, ids)
    PROVE  Quiet
<1>1. s \in Actors /\ op \in AllOps \ {"DROP"}
  BY MailboxAssumption, Zenon DEF Actors
<1>2. FirstStep(op, sess[s].selected) # "insert"
  BY <1>1 DEF FirstStep, NumberOps, AllOps
<1>3. PICK j : job' = [job EXCEPT ![s] = j] /\ "n" \in DOMAIN j
  BY JobNumbers, Zenon DEF Command
<1> QED BY <1>1, <1>2, <1>3, MovesQuiet, Zenon DEF Command

\* What a session's handlers do next, each of which ends at a step it names.
LEMMA SessionQuiet ==
    ASSUME UidInv, NEW s \in Sessions,
           \/ Noop(s) \/ Act(s) \/ FindDeleted(s) \/ CloseCurrentFolder(s) \/ UnsubscribeMessageChanges(s)
           \/ SetCurrentFolder(s) \/ SubscribeMessageChanges(s) \/ SetIsIdling(s) \/ Disconnect(s)
    PROVE  Quiet
<1>1. s \in Actors
  BY Zenon DEF Actors
<1>2. rows' \subseteq rows /\ UNCHANGED <<currentUid, folderLock>>
  BY Zenon DEF Noop, Act, FindDeleted, CloseCurrentFolder, UnsubscribeMessageChanges, SetCurrentFolder,
     SubscribeMessageChanges, SetIsIdling, Disconnect
<1>3. \A v : /\ [job EXCEPT ![s].ids = v] = [job EXCEPT ![s] = [job[s] EXCEPT !.ids = v]]
             /\ "n" \in DOMAIN [job[s] EXCEPT !.ids = v]
  BY <1>1, Zenon DEF UidInv
<1>4. CASE Disconnect(s)
  BY <1>2, <1>4, StillQuiet, Zenon DEF Disconnect
<1>5. CASE ~Disconnect(s)
  <2>1. PICK next \in {"ready", "save", "moved", "expunge", "unsubscribe", "open", "subscribe"} :
            pc' = [pc EXCEPT ![s] = next]
    BY <1>5, Zenon DEF Noop, Act, FindDeleted, CloseCurrentFolder, UnsubscribeMessageChanges,
       SetCurrentFolder, SubscribeMessageChanges, SetIsIdling
  <2>2. next # "insert"
    BY <2>1
  <2>3. \/ job' = job
        \/ job' = [job EXCEPT ![s] = NoJob]
        \/ \E v : job' = [job EXCEPT ![s].ids = v]
    BY <1>5, Zenon DEF Noop, Act, FindDeleted, CloseCurrentFolder, UnsubscribeMessageChanges,
       SetCurrentFolder, SubscribeMessageChanges, SetIsIdling
  <2>4. job' = job \/ \E j : job' = [job EXCEPT ![s] = j] /\ "n" \in DOMAIN j
    BY <1>3, <2>3, JobNumbers, Zenon
  <2> QED BY <1>1, <1>2, <2>1, <2>2, <2>4, MovesQuiet, Zenon
<1> QED BY <1>4, <1>5, Zenon

\* The four ways to delete.
LEMMA DeletersQuiet ==
    ASSUME UidInv, NEW a \in Actors,
           Expunge(a) \/ ExpungeMovedMessages(a) \/ CloseExpunge(a) \/ DeleteInboxMessages(a)
    PROVE  Quiet
<1>1. UNCHANGED <<currentUid, folderLock>>
  BY Zenon DEF Expunge, ExpungeMovedMessages, CloseExpunge, DeleteInboxMessages
<1>2. \E load, doomed, tell, sweep : Delete(a, load, doomed, tell, sweep)
  BY Zenon DEF Expunge, ExpungeMovedMessages, CloseExpunge, DeleteInboxMessages
<1> QED BY <1>1, <1>2, DeleteQuiet, Zenon

\* Announcing, telling and expiring.
LEMMA TellingQuiet ==
    ASSUME UidInv,
           \/ Expire
           \/ \E a \in Actors : Announce(a) \/ NotificationSent(a) \/ \E s \in Sessions : OnNotification(a, s)
    PROVE  Quiet
<1>1. CASE Expire
  BY <1>1, StillQuiet, Zenon DEF Expire
<1>2. ASSUME NEW a \in Actors, NEW s \in Sessions, OnNotification(a, s)
      PROVE  Quiet
  BY <1>2, StillQuiet, Zenon DEF OnNotification
<1>3. ASSUME NEW a \in Actors, Announce(a)
      PROVE  Quiet
  BY <1>3, NotifyQuiet, Zenon DEF Announce
<1>4. ASSUME NEW a \in Actors, NotificationSent(a)
      PROVE  Quiet
  <2>1. AfterTelling(a) # "insert"
    BY DEF AfterTelling
  <2> QED BY <1>4, <2>1, JobNumbers, MovesQuiet, Zenon DEF NotificationSent
<1> QED BY <1>1, <1>2, <1>3, <1>4, Zenon

-----------------------------------------------------------------------------
\* The UID taken under the lock is above all that were given out.
LEMMA TakesUid ==
    ASSUME UidInv, NEW a \in Sessions \cup Deliveries, GetUniqueMessageID(a)
    PROVE  UidInv' /\ rows' = rows
<1>1. a \in Actors /\ a # None /\ rows' = rows
  BY MailboxAssumption, Zenon DEF Actors, GetUniqueMessageID
<1>2. \A b \in Actors : ~Saving(b)
  BY MailboxAssumption, Zenon DEF UidInv, GetUniqueMessageID, Actors
<1>3. CASE SaveFails(a) /\ UNCHANGED <<currentUid, folderLock>>
  BY <1>1, <1>3, JobNumbers, MovesQuiet, QuietKeeps, Zenon DEF SaveFails
<1>4. CASE /\ currentUid' = currentUid + 1 /\ folderLock' = a
           /\ pc' = [pc EXCEPT ![a] = "insert"] /\ job' = [job EXCEPT ![a].n = currentUid + 1]
  <2>1. currentUid \in Nat /\ currentUid' \in Nat /\ (\A u \in rows : u <= currentUid' /\ u # currentUid')
    BY <1>4 DEF UidInv
  <2>2. DOMAIN pc' = Actors /\ \A b \in Actors : Saving(b)' <=> b = a
    BY <1>1, <1>2, <1>4, Zenon DEF UidInv, Saving
  <2>3. /\ DOMAIN job' = Actors /\ job'[a] = [job[a] EXCEPT !.n = currentUid + 1]
        /\ \A b \in Actors : b # a => job'[b] = job[b]
    BY <1>1, <1>4, Zenon DEF UidInv
  <2>4. "n" \in DOMAIN job'[a] /\ job'[a].n = currentUid'
    BY <1>1, <1>4, <2>3, Zenon DEF UidInv
  <2> QED BY <1>1, <1>4, <2>1, <2>2, <2>3, <2>4, Zenon DEF UidInv
<1> QED BY <1>1, <1>3, <1>4, Zenon DEF GetUniqueMessageID

\* The row inserted is above all that are there.
LEMMA InsertsUid ==
    ASSUME UidInv, NEW a \in Actors, InsertRow(a)
    PROVE  /\ UidInv'
           /\ \A u \in rows' \ rows : \A v \in rows : v < u
<1>1. /\ folderLock = a /\ job[a].n = currentUid /\ currentUid \notin rows /\ currentUid' = currentUid
      /\ \A b \in Actors : Saving(b) => b = a
  BY Zenon DEF InsertRow, UidInv, Saving
<1>2. PICK next \in {"announce", "ready"} : pc' = [pc EXCEPT ![a] = next]
  BY Zenon DEF InsertRow, SaveFails
<1>3. next # "insert"
  BY <1>2
<1>4. DOMAIN pc' = Actors /\ \A b \in Actors : ~Saving(b)'
  BY <1>1, <1>2, <1>3, Zenon DEF UidInv, Saving
<1>5. DOMAIN job' = Actors /\ \A b \in Actors : "n" \in DOMAIN job'[b]
  <2>1. job' = job \/ job' = [job EXCEPT ![a] = NoJob]
    BY Zenon DEF InsertRow, SaveFails
  <2> QED BY <2>1, JobNumbers, Zenon DEF UidInv
<1>6. rows' \subseteq rows \cup {currentUid}
  BY <1>1, Zenon DEF InsertRow
<1>7. currentUid \in Nat /\ rows \subseteq Nat /\ \A u \in rows : u <= currentUid
  BY Zenon DEF UidInv
<1>8. (\A u \in rows' : u <= currentUid) /\ rows' \subseteq Nat
  BY <1>6, <1>7
<1>9. \A v \in rows : v < currentUid
  BY <1>1, <1>7
<1>10. UidInv'
  BY <1>1, <1>4, <1>5, <1>7, <1>8, Zenon DEF UidInv
<1> QED BY <1>6, <1>9, <1>10, Zenon

LEMMA UidInit ==
    ASSUME Init
    PROVE  UidInv
<1>1. currentUid = InitialMail /\ rows = 1..InitialMail /\ InitialMail \in Nat
  BY MailboxAssumption DEF Init
<1>2. /\ DOMAIN pc = Actors /\ DOMAIN job = Actors
      /\ \A a \in Actors : pc[a] = "ready" /\ job[a] = NoJob
  BY Zenon DEF Init
<1>3. rows \subseteq Nat /\ \A u \in rows : u <= currentUid
  BY <1>1
<1>4. \A a \in Actors : ~Saving(a)
  BY <1>2 DEF Saving
<1> QED BY <1>1, <1>2, <1>3, <1>4, JobNumbers, Zenon DEF UidInv

LEMMA UidStep ==
    ASSUME UidInv, [Next]_vars
    PROVE  /\ UidInv'
           /\ \A u \in rows' \ rows : \A v \in rows : v < u
<1>1. ASSUME Quiet PROVE UidInv' /\ rows' \subseteq rows
  BY <1>1, QuietKeeps, Zenon DEF Quiet
<1>2. ASSUME UNCHANGED vars PROVE Quiet
  BY <1>2, StillQuiet, Zenon DEF vars
<1>3. Sessions \subseteq Actors /\ Deliveries \subseteq Actors /\ Pop3Sessions \subseteq Actors
  BY Zenon DEF Actors
<1>4. \/ Quiet
      \/ \E a \in Sessions \cup Deliveries : GetUniqueMessageID(a) \/ InsertRow(a)
  BY <1>2, <1>3, CommandQuiet, SessionQuiet, DeletersQuiet, TellingQuiet, Zenon DEF Next
<1> QED BY <1>1, <1>3, <1>4, TakesUid, InsertsUid, Zenon

-----------------------------------------------------------------------------
\* FolderManipulationLock makes taking a UID and inserting the row one step for
\* the folder: with any number of sessions and deliveries saving at the same
\* time, rows appear in the order of their UIDs.
THEOREM RowsAscend == Spec => UidsAscend
<1>1. Init => UidInv
  BY UidInit, Zenon
<1>2. UidInv /\ [Next]_vars => UidInv'
  BY UidStep, Zenon
<1>3. UidInv /\ [Next]_vars => [\A u \in rows' \ rows : \A v \in rows : v < u]_vars
  BY UidStep, Zenon
<1> QED BY <1>1, <1>2, <1>3, PTL DEF Spec, UidsAscend
=============================================================================
