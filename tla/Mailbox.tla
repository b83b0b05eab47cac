------------------------------- MODULE Mailbox -------------------------------
(***************************************************************************)
(* One IMAP folder, shared by IMAP sessions, local deliveries and POP3     *)
(* sessions.  Every session numbers the messages by a view of its own      *)
(* (IMAPFolderView); the messages themselves are in one collection that    *)
(* all sessions share (CachedMessages / Messages), filled from hm_messages *)
(* by UID; and the sessions hear of each other's changes through           *)
(* NotificationServer, which queues a change in the session's              *)
(* cached_changes_ or, while the session idles, sends it at once.          *)
(*                                                                         *)
(* A message is its UID; its database id is the same number, except that   *)
(* a message whose row was deleted but whose file was not has the id 0.    *)
(* sess[s].client is the list that a client keeps from the responses it    *)
(* gets: EXISTS makes it longer, EXPUNGE n drops the n-th element.         *)
(***************************************************************************)
EXTENDS Naturals, FiniteSets, Sequences, SequencesExt

CONSTANTS
    Sessions,       \* IMAP connections
    Deliveries,     \* threads in LocalDelivery, delivering to this folder
    Pop3Sessions,   \* POP3 connections, deleting from this folder at QUIT
    Ops,            \* for every session the commands its client uses
    None,           \* nobody holds the folder's lock
    InitialMail,    \* messages in the folder at the start
    MaxUid,         \* bound: UIDs the folder can give out
    MaxCommands,    \* bound: commands the clients send, POP3 deletions, connections lost
    MaxCached,      \* bound: changes cached in one session
    MaxFaults,      \* bound: database and file operations that fail
    FaultKinds,     \* which of "refresh", "row", "file", "save" may fail
    MaxExpiries     \* bound: times the cache drops the collection

AllOps == {"NOOP", "FETCH", "STORE", "UNSTORE", "SEARCH", "COPY", "MOVE",
           "APPEND", "EXPUNGE", "UIDEXPUNGE", "CLOSE", "UNSELECT", "SELECT",
           "IDLE", "DROP"}

ASSUME MailboxAssumption ==
    /\ Ops \in [Sessions -> SUBSET AllOps]
    /\ MaxUid \in Nat /\ InitialMail \in 0..MaxUid
    /\ {MaxCommands, MaxCached, MaxFaults, MaxExpiries} \subseteq Nat
    /\ FaultKinds \subseteq {"refresh", "row", "file", "save"}
    /\ None \notin Sessions \cup Deliveries \cup Pop3Sessions

VARIABLES
    rows,        \* hm_messages: the UIDs with a row in this folder
    currentUid,  \* foldercurrentuid
    folderLock,  \* FolderManipulationLock::folders_: who has this folder
    flagged,     \* the messages that carry \Deleted
    box,         \* the cached collection: coll, last_refreshed_uid_, refresh_needed_
    sess,        \* the sessions: view, cached changes, state
    pc,          \* what each thread does next
    job,         \* the command it is at, and what that command has read
    note,        \* the notification it is sending, and to whom it still must
    commands,    \* commands sent so far
    faults,      \* operations that have failed
    expiries     \* times the collection was dropped

vars == <<rows, currentUid, folderLock, flagged, box, sess, pc, job, note,
          commands, faults, expiries>>

Actors == Sessions \cup Deliveries \cup Pop3Sessions
Uids == 1..MaxUid
Entry == [id : 0..MaxUid, uid : Uids]

NumberOps == {"FETCH", "STORE", "UNSTORE", "COPY", "MOVE"}

Numbered(entries) == [i \in DOMAIN entries |-> entries[i].uid]
IdsOf(entries) == {entries[i].id : i \in DOMAIN entries}
UidsOf(entries) == {entries[i].uid : i \in DOMAIN entries}

NotSelected == [selected |-> FALSE, subscribed |-> FALSE, idling |-> FALSE,
                view |-> <<>>, highest |-> 0, vanished |-> {}, cached |-> <<>>,
                client |-> <<>>, missed |-> {}]
NoJob == [op |-> "NONE", n |-> 0, meant |-> 0, ids |-> {}]
NoNote == [type |-> "None", ids |-> {}, to |-> {}]
EmptyBox == [coll |-> <<>>, last |-> 0, stale |-> TRUE]

-----------------------------------------------------------------------------
(* The session's view.                                                      *)

\* Whatever has a UID above the highest one seen goes at the end.
AppendNewMessages(x, coll) ==
    LET Take(y, m) == IF m.uid <= y.highest THEN y
                      ELSE [y EXCEPT !.view = Append(@, m), !.highest = m.uid]
    IN  FoldLeft(Take, x, coll)

\* Mutant: the numbers as they stand before the first removal.
ExpungeNumbersAtFirst(x, ids) ==
    SetToSortSeq({i \in DOMAIN x.view : x.view[i].id \in ids}, <)

\* The numbers of the messages, each one less for every removal told before it.
ExpungeNumbers(x, ids) ==
    LET at == SetToSortSeq({i \in DOMAIN x.view : x.view[i].id \in ids}, <)
    IN  [k \in DOMAIN at |-> at[k] - (k - 1)]

\* Mutant: what was marked as vanished stays marked.
RemoveFromView(x, ids) == [x EXCEPT !.view = SelectSeq(@, LAMBDA e : e.id \notin ids)]

RemoveMessages(x, ids) ==
    [x EXCEPT !.view = SelectSeq(@, LAMBDA e : e.id \notin ids),
              !.vanished = @ \ ids]

MarkVanished(x, ids) == [x EXCEPT !.vanished = @ \cup (ids \cap IdsOf(x.view))]

\* What a client makes of "* n EXPUNGE": a number it does not know it ignores.
ClientExpunge(list, numbers) ==
    FoldLeft(LAMBDA l, n : IF n \in DOMAIN l THEN RemoveAt(l, n) ELSE l, list, numbers)

\* Mutant: the client is not told.
RemoveInSilence(x, ids) == RemoveMessages(x, ids)

SendEXPUNGE(x, ids) ==
    [RemoveMessages(x, ids) EXCEPT !.client = ClientExpunge(@, ExpungeNumbers(x, ids))]

\* "* n EXISTS" with n the length of the view: the client's list grows to it.
SendEXISTS(x) ==
    [x EXCEPT !.client = @ \o Numbered(SubSeq(x.view, Len(@) + 1, Len(x.view)))]

-----------------------------------------------------------------------------
(* The shared collection.                                                   *)

\* The rows above the last UID read, in the order of their UIDs.
Refresh(b) ==
    LET new == SetToSortSeq({u \in rows : u > b.last}, <)
    IN  [b EXCEPT !.coll = @ \o [i \in DOMAIN new |-> [id |-> new[i], uid |-> new[i]]],
                  !.last = IF new = <<>> THEN @ ELSE new[Len(new)]]

MayFail(kind) == kind \in FaultKinds /\ faults < MaxFaults

\* MessagesContainer::GetMessages.  A refresh that fails leaves the collection
\* as it is, to be tried again; the caller gets the collection all the same.
LoadsOf(b) ==
    {[box |-> IF b.stale THEN [Refresh(b) EXCEPT !.stale = FALSE] ELSE b, cost |-> 0]}
    \cup {c \in {[box |-> b, cost |-> 1]} : b.stale /\ MayFail("refresh")}

GetMessages == LoadsOf(box)

\* GetMessages and then Refresh, as a cached Added makes a session do.
GetMessagesAndRefresh ==
    {[box |-> [Refresh(box) EXCEPT !.stale = FALSE], cost |-> 0]}
    \cup {b \in {[box |-> box, cost |-> 1], [box |-> Refresh(box), cost |-> 1]} :
              MayFail("refresh")}

\* What a query for the rows finds is taken into the view; mail that a query
\* did not bring because it failed is noted, for the properties only.
TakeNew(x, load) ==
    LET y == AppendNewMessages(x, load.box.coll)
    IN  [y EXCEPT !.missed = @ \cup {u \in rows : load.cost > 0 /\ u > y.highest}]

-----------------------------------------------------------------------------
(* What a session is told before each command, and while it idles.         *)

\* Mutant: deletions that may not be sent are dropped.
SendCachedAndClear(x, send_expunge, load) ==
    LET Process(y, change) ==
            CASE change.type = "Added" -> TakeNew(y, load)
              [] change.type = "Deleted" /\ send_expunge -> SendEXPUNGE(y, change.ids)
              [] OTHER -> y
        read == FoldLeft(Process, x, x.cached)
    IN  [SendEXISTS(IF send_expunge THEN SendEXPUNGE(read, read.vanished) ELSE read)
            EXCEPT !.cached = <<>>]

SendCachedNotifications(x, send_expunge, load) ==
    LET Process(y, change) ==
            CASE change.type = "Added" -> TakeNew(y, load)
              [] change.type = "Deleted" /\ send_expunge -> SendEXPUNGE(y, change.ids)
              [] OTHER -> y
        read  == FoldLeft(Process, x, x.cached)
        swept == IF send_expunge THEN SendEXPUNGE(read, read.vanished) ELSE read
        said  == \/ \E i \in DOMAIN x.cached : send_expunge \/ x.cached[i].type = "Added"
                 \/ send_expunge /\ read.vanished # {}
        told  == IF said THEN SendEXISTS(swept) ELSE swept
    IN  [told EXCEPT !.cached =
            IF send_expunge THEN <<>> ELSE SelectSeq(@, LAMBDA c : c.type = "Deleted")]

\* Mutant: STORE is forgotten.
MaySendExpungeToStore(op) == op \notin {"FETCH", "SEARCH"}

\* EXPUNGE is not sent in answer to a command that uses numbers of its own
\* (SORT and THREAD are as SEARCH).
MaySendExpunge(op) == op \notin {"FETCH", "STORE", "UNSTORE", "SEARCH"}

\* Mutant: only new mail is reported to a session that idles.
SendAddedOnly(x, change, load) ==
    IF x.selected /\ change.type = "Added" THEN SendEXISTS(TakeNew(x, load)) ELSE x

SendChangeNotification(x, change, load) ==
    CASE ~x.selected -> x
      [] x.selected /\ change.type = "Added"   -> SendEXISTS(TakeNew(x, load))
      [] x.selected /\ change.type = "Deleted" -> SendEXISTS(SendEXPUNGE(x, change.ids))

\* NotificationServer::GetClientsToNotify_: the subscribers but the source.
ClientsToNotify(a) == {s \in Sessions \ {a} : sess[s].subscribed}

\* Changes that a session can see and will not be told of: it has the folder
\* open and is not a subscriber yet; or the message has lost its id, by which
\* the session knows it.  Kept for the properties only.
Unheard(x, us, ghosts) ==
    IF ~x.selected THEN x
    ELSE [x EXCEPT !.missed = @ \cup ghosts \cup (IF x.subscribed THEN {} ELSE us)]

\* Where a thread goes on after its notification has been delivered.
AfterTelling(a) ==
    IF a \notin Sessions THEN "ready" ELSE IF job[a].op = "CLOSE" THEN "close" ELSE "ready"

\* The thread a has made the change; it will deliver the notification next.
Notify(a, type, ids) ==
    IF ClientsToNotify(a) = {} \/ (type = "Deleted" /\ ids = {})
    THEN /\ note' = note
         /\ pc' = [pc EXCEPT ![a] = AfterTelling(a)]
         /\ job' = IF AfterTelling(a) = "ready" THEN [job EXCEPT ![a] = NoJob] ELSE job
    ELSE /\ note' = [note EXCEPT ![a] = [type |-> type, ids |-> ids, to |-> ClientsToNotify(a)]]
         /\ pc' = [pc EXCEPT ![a] = "tell"]
         /\ job' = job

-----------------------------------------------------------------------------
\* The folder holds some mail, some of it flagged, and each session has it open
\* or has nothing open.
Init ==
    LET full == Refresh([EmptyBox EXCEPT !.stale = FALSE])
        open == SendEXISTS(AppendNewMessages(
                    [NotSelected EXCEPT !.selected = TRUE, !.subscribed = TRUE], full.coll))
    IN  /\ rows = 1..InitialMail /\ currentUid = InitialMail /\ folderLock = None
        /\ flagged \in SUBSET rows
        /\ sess \in [Sessions -> {NotSelected, open}]
        /\ box = IF \E s \in Sessions : sess[s].selected THEN full ELSE EmptyBox
        /\ pc = [a \in Actors |-> "ready"]
        /\ job = [a \in Actors |-> NoJob]
        /\ note = [a \in Actors |-> NoNote]
        /\ commands = 0 /\ faults = 0 /\ expiries = 0

FirstStep(op, selected) ==
    CASE op \in NumberOps \cup {"SEARCH"}   -> "act"
      [] op \in {"EXPUNGE", "UIDEXPUNGE"}   -> "find"
      [] op = "CLOSE"                       -> "purge"
      [] op = "APPEND"                      -> "save"
      [] op = "IDLE"                        -> "idle"
      [] op = "NOOP"                        -> "noop"
      [] op \in {"SELECT", "UNSELECT"}      -> IF selected THEN "close" ELSE "open"

NumbersFor(s, op) == IF op \in NumberOps THEN DOMAIN sess[s].client ELSE {0}
SetsFor(s, op) == IF op = "UIDEXPUNGE" THEN {{u} : u \in ToSet(sess[s].client)} ELSE {{}}

\* IMAPConnection::AnswerCommand up to ExecuteCommand.  The client has sent a
\* command with a number n that it knows, or for UID EXPUNGE with a UID;
\* NotifyFolderChange reports the changes, and only then is the command run.
Command(s, op, n, ids) ==
    LET x == sess[s]
        refresh == \E i \in DOMAIN x.cached : x.cached[i].type = "Added"
    IN  /\ pc[s] = "ready" /\ ~x.idling
        /\ commands < MaxCommands /\ commands' = commands + 1
        /\ x.selected \/ op \in {"NOOP", "SELECT", "APPEND", "IDLE"}
        /\ \E load \in IF x.selected /\ refresh THEN GetMessagesAndRefresh
                       ELSE {[box |-> box, cost |-> 0]} :
              /\ box' = load.box
              /\ faults' = faults + load.cost
              /\ sess' = IF x.selected
                         THEN [sess EXCEPT ![s] =
                                  SendCachedNotifications(x, MaySendExpunge(op), load)]
                         ELSE sess
        /\ pc' = [pc EXCEPT ![s] = FirstStep(op, x.selected)]
        /\ job' = [job EXCEPT ![s] = [op |-> op, n |-> n, ids |-> ids,
                      meant |-> IF n = 0 THEN 0 ELSE x.client[n]]]
        /\ UNCHANGED <<rows, currentUid, folderLock, flagged, note, expiries>>

\* NOOP itself does nothing but answer.
Noop(s) ==
    /\ pc[s] = "noop"
    /\ pc' = [pc EXCEPT ![s] = "ready"]
    /\ job' = [job EXCEPT ![s] = NoJob]
    /\ UNCHANGED <<rows, currentUid, folderLock, flagged, box, sess, note, commands, faults, expiries>>

\* IMAPCommandRangeAction::DoForMails for one number, and SEARCH.  A message
\* that is not in the collection any more is marked; COPY and MOVE then fail.
Act(s) ==
    /\ pc[s] = "act"
    /\ \E load \in GetMessages :
        LET x == sess[s]
            op == job[s].op
            targets == IF op = "SEARCH" THEN ToSet(x.view)
                       ELSE {x.view[i] : i \in DOMAIN x.view \cap {job[s].n}}
            here == IdsOf(load.box.coll)
            found == {e.uid : e \in {t \in targets : t.id \in here}}
        IN  /\ box' = load.box
            /\ faults' = faults + load.cost
            /\ sess' = [sess EXCEPT ![s] = MarkVanished(@, {e.id : e \in targets} \ here)]
            /\ flagged' = CASE op = "STORE"   -> flagged \cup found
                            [] op = "UNSTORE" -> flagged \ found
                            [] OTHER          -> flagged
            /\ IF op \in {"COPY", "MOVE"} /\ found # {}
               THEN /\ pc' = [pc EXCEPT ![s] = IF op = "COPY" THEN "save" ELSE "moved"]
                    /\ job' = [job EXCEPT ![s].ids =
                                  IF op = "COPY" THEN found \cap flagged ELSE found]
               ELSE /\ pc' = [pc EXCEPT ![s] = "ready"]
                    /\ job' = [job EXCEPT ![s] = NoJob]
    /\ UNCHANGED <<rows, currentUid, folderLock, note, commands, expiries>>

-----------------------------------------------------------------------------
(* Deleting.                                                                *)

\* Messages::DeleteMessages: of the doomed UIDs those in kept stay because
\* their row could not be deleted; those in ghosts have lost their row and
\* their id, but stay in the collection because their file is still there.
\* One whose id is 0 already is dropped without a word to the database.
DeleteMessages(b, kept, ghosts, gone) ==
    LET left == SelectSeq(b.coll, LAMBDA m : m.uid \notin gone)
    IN  /\ rows' = rows \ (gone \cup ghosts)
        /\ flagged' = flagged \ gone
        /\ box' = [b EXCEPT !.coll = [i \in DOMAIN left |->
                      IF left[i].uid \in ghosts THEN [left[i] EXCEPT !.id = 0] ELSE left[i]]]

\* The ways a deletion of the doomed messages can end.
DeleteOutcomes(b, doomed) ==
    LET real == {u \in doomed : u \in IdsOf(b.coll)}
        Allowed(k, g) == /\ k \cap g = {}
                         /\ k = {} \/ "row" \in FaultKinds
                         /\ g = {} \/ "file" \in FaultKinds
                         /\ faults + Cardinality(k \cup g) <= MaxFaults
    IN  {o \in [kept : SUBSET real, ghosts : SUBSET real] : Allowed(o.kept, o.ghosts)}

\* The thread a deletes, and if it is a session tells its own client: of the
\* messages it deleted and, where sweep holds, of those found gone earlier.
Delete(a, load, doomed, tell, sweep) ==
    \E o \in DeleteOutcomes(load.box, doomed) :
        LET gone == doomed \ (o.kept \cup o.ghosts)
            ids == {m.id : m \in {e \in ToSet(load.box.coll) : e.uid \in gone}}
            swept == IF sweep THEN sess[a].vanished ELSE {}
        IN  /\ DeleteMessages(load.box, o.kept, o.ghosts, gone)
            /\ faults' = faults + load.cost + Cardinality(o.kept \cup o.ghosts)
            /\ sess' = [t \in Sessions |->
                          LET x == Unheard(sess[t], gone, o.ghosts)
                          IN  IF t = a /\ tell THEN SendEXPUNGE(x, ids \cup swept) ELSE x]
            /\ Notify(a, "Deleted", ids)

\* EXPUNGE and UID EXPUNGE, first part: new messages join the view, and the
\* flags are read from copies of the messages.
FindDeleted(s) ==
    /\ pc[s] = "find"
    /\ \E load \in GetMessages :
        LET x == TakeNew(sess[s], load)
            here == IdsOf(load.box.coll)
            asked == {e \in ToSet(x.view) : job[s].op = "EXPUNGE" \/ e.uid \in job[s].ids}
        IN  /\ box' = load.box
            /\ faults' = faults + load.cost
            /\ sess' = [sess EXCEPT ![s] = MarkVanished(x, {e.id : e \in asked} \ here)]
            /\ job' = [job EXCEPT ![s].ids =
                          {e.id : e \in {f \in asked : f.id \in here /\ f.uid \in flagged}}]
    /\ pc' = [pc EXCEPT ![s] = "expunge"]
    /\ UNCHANGED <<rows, currentUid, folderLock, flagged, note, commands, expiries>>

\* Second part: DeleteMessagesById, TakeVanished, RemoveMessages, the notification.
Expunge(s) ==
    /\ pc[s] = "expunge"
    /\ Delete(s, [box |-> box, cost |-> 0],
              {m.uid : m \in {e \in ToSet(box.coll) : e.id \in job[s].ids}}, TRUE, TRUE)
    /\ UNCHANGED <<currentUid, folderLock, commands, expiries>>

\* IMAPMove::ExpungeMovedMessages, by UID; the copy is in another folder.
ExpungeMovedMessages(s) ==
    /\ pc[s] = "moved"
    /\ \E load \in GetMessages :
          Delete(s, load, job[s].ids \cap UidsOf(load.box.coll), TRUE, FALSE)
    /\ UNCHANGED <<currentUid, folderLock, commands, expiries>>

\* CLOSE deletes whatever carries the flag, in silence, and then closes.
CloseExpunge(s) ==
    /\ pc[s] = "purge"
    /\ \E load \in GetMessages :
          Delete(s, load, flagged \cap UidsOf(load.box.coll), FALSE, FALSE)
    /\ UNCHANGED <<currentUid, folderLock, commands, expiries>>

\* FolderManager::DeleteInboxMessages, at a POP3 session's QUIT.
DeleteInboxMessages(p) ==
    /\ pc[p] = "ready"
    /\ commands < MaxCommands /\ commands' = commands + 1
    /\ \E load \in GetMessages : \E u \in UidsOf(load.box.coll) :
          Delete(p, load, {u}, FALSE, FALSE)
    /\ UNCHANGED <<currentUid, folderLock, expiries>>

-----------------------------------------------------------------------------
(* Opening and closing the folder, idling.                                  *)

\* CloseCurrentFolder: first the folder and its view go, under the state lock.
CloseCurrentFolder(s) ==
    /\ pc[s] = "close"
    /\ sess' = [sess EXCEPT ![s] =
                  [NotSelected EXCEPT !.subscribed = sess[s].subscribed,
                                      !.cached = sess[s].cached]]
    /\ pc' = [pc EXCEPT ![s] = "unsubscribe"]
    /\ UNCHANGED <<rows, currentUid, folderLock, flagged, box, job, note, faults, commands, expiries>>

\* Then the subscription and the cached changes; and \Recent is cleared on the
\* folder's messages, which are loaded for it.
UnsubscribeMessageChanges(s) ==
    /\ pc[s] = "unsubscribe"
    /\ sess' = [sess EXCEPT ![s].subscribed = FALSE, ![s].cached = <<>>]
    /\ \E load \in GetMessages : box' = load.box /\ faults' = faults + load.cost
    /\ IF job[s].op = "SELECT"
       THEN pc' = [pc EXCEPT ![s] = "open"] /\ job' = job
       ELSE pc' = [pc EXCEPT ![s] = "ready"] /\ job' = [job EXCEPT ![s] = NoJob]
    /\ UNCHANGED <<rows, currentUid, folderLock, flagged, note, commands, expiries>>

\* SELECT: load the messages, build the view, make the folder visible.
SetCurrentFolder(s) ==
    /\ pc[s] = "open"
    /\ \E load \in GetMessages :
          /\ box' = load.box
          /\ faults' = faults + load.cost
          /\ sess' = [sess EXCEPT ![s] =
                        TakeNew([NotSelected EXCEPT !.selected = TRUE, !.cached = sess[s].cached],
                                load)]
    /\ pc' = [pc EXCEPT ![s] = "subscribe"]
    /\ UNCHANGED <<rows, currentUid, folderLock, flagged, job, note, commands, expiries>>

\* Only then is the session a subscriber; its client is told the count.
SubscribeMessageChanges(s) ==
    /\ pc[s] = "subscribe"
    /\ sess' = [sess EXCEPT ![s] = SendEXISTS([@ EXCEPT !.subscribed = TRUE])]
    /\ pc' = [pc EXCEPT ![s] = "ready"]
    /\ job' = [job EXCEPT ![s] = NoJob]
    /\ UNCHANGED <<rows, currentUid, folderLock, flagged, box, note, faults, commands, expiries>>

\* IMAPCommandIdle::ExecuteCommand, and Finish at the client's DONE.
SetIsIdling(s) ==
    /\ \/ pc[s] = "idle" /\ sess' = [sess EXCEPT ![s].idling = TRUE]
       \/ pc[s] = "ready" /\ sess[s].idling /\ sess' = [sess EXCEPT ![s].idling = FALSE]
    /\ pc' = [pc EXCEPT ![s] = "ready"]
    /\ job' = [job EXCEPT ![s] = NoJob]
    /\ UNCHANGED <<rows, currentUid, folderLock, flagged, box, note, faults, commands, expiries>>

\* The connection is lost.  Its handlers hold the connection, so it is closed
\* between two commands; what is still to be sent to it reaches nobody.
Disconnect(s) ==
    /\ "DROP" \in Ops[s] /\ pc[s] = "ready" /\ sess[s] # NotSelected
    /\ commands < MaxCommands /\ commands' = commands + 1
    /\ sess' = [sess EXCEPT ![s] = NotSelected]
    /\ note' = [a \in Actors |-> [note[a] EXCEPT !.to = @ \ {s}]]
    /\ \E load \in IF sess[s].selected THEN GetMessages ELSE {[box |-> box, cost |-> 0]} :
          box' = load.box /\ faults' = faults + load.cost
    /\ UNCHANGED <<rows, currentUid, folderLock, flagged, pc, job, expiries>>

-----------------------------------------------------------------------------
(* Adding: local delivery, APPEND, and COPY into the folder itself.         *)

SaveFails(a) ==
    /\ pc' = [pc EXCEPT ![a] = "ready"]
    /\ job' = [job EXCEPT ![a] = NoJob]

\* Mutant: the UID is taken without the folder's lock.
GetUniqueMessageIDUnlocked(a) ==
    /\ pc[a] = IF a \in Sessions THEN "save" ELSE "ready"
    /\ currentUid < MaxUid
    /\ currentUid' = currentUid + 1
    /\ pc' = [pc EXCEPT ![a] = "insert"]
    /\ job' = [job EXCEPT ![a].n = currentUid + 1]
    /\ UNCHANGED <<rows, folderLock, flagged, box, sess, note, commands, faults, expiries>>

\* PersistentMessage::AddObject: the folder's lock, then the next UID.  At
\* MaxUid, the bound, the counter cannot be raised.
GetUniqueMessageID(a) ==
    /\ pc[a] = IF a \in Sessions THEN "save" ELSE "ready"
    /\ folderLock = None
    /\ \/ /\ currentUid < MaxUid
          /\ currentUid' = currentUid + 1
          /\ folderLock' = a
          /\ pc' = [pc EXCEPT ![a] = "insert"]
          /\ job' = [job EXCEPT ![a].n = currentUid + 1]
          /\ UNCHANGED faults
       \/ /\ \/ currentUid = MaxUid /\ a \in Sessions /\ UNCHANGED faults
             \/ MayFail("save") /\ faults' = faults + 1
          /\ SaveFails(a)
          /\ UNCHANGED <<currentUid, folderLock>>
    /\ UNCHANGED <<rows, flagged, box, sess, note, commands, expiries>>

\* The INSERT, and the lock is released.  A copy has the flags of its original.
InsertRow(a) ==
    /\ pc[a] = "insert"
    /\ folderLock' = None
    /\ \/ /\ rows' = rows \cup {job[a].n}
          /\ flagged' = IF job[a].op = "COPY" /\ job[a].ids # {}
                        THEN flagged \cup {job[a].n} ELSE flagged
          /\ pc' = [pc EXCEPT ![a] = "announce"]
          /\ UNCHANGED <<job, faults>>
       \/ /\ MayFail("save") /\ faults' = faults + 1
          /\ SaveFails(a)
          /\ UNCHANGED <<rows, flagged>>
    /\ UNCHANGED <<currentUid, box, sess, note, commands, expiries>>

\* Mutant: the cached collection is not told to refresh.
AnnounceOnly(a) ==
    /\ pc[a] = "announce"
    /\ sess' = [t \in Sessions |-> Unheard(sess[t], {job[a].n}, {})]
    /\ Notify(a, "Added", {})
    /\ UNCHANGED <<rows, currentUid, folderLock, flagged, box, faults, commands, expiries>>

\* SetFolderNeedsRefresh, and the notification to all but the session itself.
\* APPEND takes the message into its own view and tells its client; COPY does not.
Announce(a) ==
    /\ pc[a] = "announce"
    /\ LET stale == [box EXCEPT !.stale = TRUE]
           own == job[a].op = "APPEND" /\ sess[a].selected
           heard == [t \in Sessions |->
                        IF t = a /\ sess[a].selected
                        THEN [sess[a] EXCEPT !.missed = @ \cup {job[a].n}]
                        ELSE Unheard(sess[t], {job[a].n}, {})]
       IN  IF own
           THEN \E load \in LoadsOf(stale) :
                   /\ box' = load.box
                   /\ faults' = faults + load.cost
                   /\ sess' = [heard EXCEPT ![a] = SendEXISTS(TakeNew(sess[a], load))]
           ELSE /\ box' = stale
                /\ sess' = heard
                /\ UNCHANGED faults
    /\ Notify(a, "Added", {})
    /\ UNCHANGED <<rows, currentUid, folderLock, flagged, commands, expiries>>

-----------------------------------------------------------------------------
(* Notifications under way, and the cache.                                  *)

\* Mutant: the session is told at once, idling or not.
OnNotificationAtOnce(a, s) ==
    /\ pc[a] = "tell" /\ s \in note[a].to
    /\ note' = [note EXCEPT ![a].to = @ \ {s}]
    /\ \E load \in GetMessages :
          /\ box' = load.box
          /\ faults' = faults + load.cost
          /\ sess' = [sess EXCEPT ![s] =
                SendChangeNotification(@, [type |-> note[a].type, ids |-> note[a].ids], load)]
    /\ UNCHANGED <<rows, currentUid, folderLock, flagged, pc, job, commands, expiries>>

\* IMAPNotificationClient::OnNotification, under the receiver's state lock.
OnNotification(a, s) ==
    /\ pc[a] = "tell" /\ s \in note[a].to
    /\ note' = [note EXCEPT ![a].to = @ \ {s}]
    /\ LET change == [type |-> note[a].type, ids |-> note[a].ids]
       IN  IF sess[s].idling
           THEN \E load \in IF change.type = "Added" THEN GetMessages
                            ELSE {[box |-> box, cost |-> 0]} :
                   /\ box' = load.box
                   /\ faults' = faults + load.cost
                   /\ sess' = [sess EXCEPT ![s] = SendChangeNotification(@, change, load)]
           ELSE /\ Len(sess[s].cached) < MaxCached
                /\ sess' = [sess EXCEPT ![s].cached = Append(@, change)]
                /\ UNCHANGED <<box, faults>>
    /\ UNCHANGED <<rows, currentUid, folderLock, flagged, pc, job, commands, expiries>>

NotificationSent(a) ==
    /\ pc[a] = "tell" /\ note[a].to = {}
    /\ note' = [note EXCEPT ![a] = NoNote]
    /\ pc' = [pc EXCEPT ![a] = AfterTelling(a)]
    /\ job' = IF AfterTelling(a) = "ready" THEN [job EXCEPT ![a] = NoJob] ELSE job
    /\ UNCHANGED <<rows, currentUid, folderLock, flagged, box, sess, faults, commands, expiries>>

\* The cached collection passes its time to live and the next caller starts a
\* new one.  A handler that still holds the old one is not modelled.
Expire ==
    /\ expiries < MaxExpiries
    /\ \A s \in Sessions : pc[s] # "expunge"
    /\ box # EmptyBox
    /\ box' = EmptyBox
    /\ expiries' = expiries + 1
    /\ UNCHANGED <<rows, currentUid, folderLock, flagged, sess, pc, job, note, commands, faults>>

Next ==
    \/ \E s \in Sessions :
          \/ \E op \in Ops[s] \ {"DROP"} : \E n \in NumbersFor(s, op), ids \in SetsFor(s, op) :
                Command(s, op, n, ids)
          \/ Noop(s) \/ Act(s) \/ FindDeleted(s) \/ Expunge(s) \/ ExpungeMovedMessages(s)
          \/ CloseExpunge(s) \/ CloseCurrentFolder(s) \/ UnsubscribeMessageChanges(s)
          \/ SetCurrentFolder(s) \/ SubscribeMessageChanges(s)
          \/ SetIsIdling(s) \/ Disconnect(s)
    \/ \E p \in Pop3Sessions : DeleteInboxMessages(p)
    \/ \E a \in Sessions \cup Deliveries :
          GetUniqueMessageID(a) \/ InsertRow(a) \/ Announce(a)
    \/ \E a \in Actors : NotificationSent(a) \/ \E s \in Sessions : OnNotification(a, s)
    \/ Expire

Spec == Init /\ [][Next]_vars

-----------------------------------------------------------------------------
(* Properties.                                                              *)

Change == [type : {"Added", "Deleted"}, ids : SUBSET (0..MaxUid)]

\* Every variable has its type: views hold entries of this folder, at most
\* MaxCached changes wait in a session, and only a session that has the folder
\* open or is just closing it is a subscriber.
MailboxTypeOK ==
    /\ rows \subseteq Uids /\ flagged \subseteq Uids /\ currentUid \in 0..MaxUid
    /\ folderLock \in Actors \cup {None}
    /\ box.coll \in Seq(Entry) /\ box.last \in 0..MaxUid /\ box.stale \in BOOLEAN
    /\ \A s \in Sessions :
          /\ sess[s].view \in Seq(Entry) /\ sess[s].client \in Seq(Uids)
          /\ sess[s].cached \in Seq(Change) /\ Len(sess[s].cached) <= MaxCached
          /\ sess[s].vanished \subseteq IdsOf(sess[s].view)
          /\ sess[s].subscribed => sess[s].selected \/ pc[s] = "unsubscribe"
    /\ faults \in 0..MaxFaults /\ expiries \in 0..MaxExpiries

\* The numbers a client knows are the session's own: what the client has made
\* of the EXISTS and EXPUNGE responses, in the order they were sent, is the
\* view or its beginning (IMAPFolderView::RemoveMessages, SendCachedNotifications).
ClientAgrees ==
    \A s \in Sessions : IsPrefix(sess[s].client, Numbered(sess[s].view))

\* FETCH n and STORE n, once they get to run, act on the message that the
\* client's n-th was when it sent the command, whatever other sessions deleted
\* in between and whatever was reported on the way (NotifyFolderChange).
ActsOnWhatWasMeant ==
    \A s \in Sessions :
        pc[s] = "act" /\ job[s].op \in {"FETCH", "STORE", "UNSTORE"} =>
            Numbered(sess[s].view)[job[s].n] = job[s].meant

\* A message that is gone and is still in a session's view is on its way out:
\* found missing by a command, or named in a cached or travelling notification.
\* The exceptions are kept in missed: it was deleted while the session was
\* between opening and subscribing, or its file could not be deleted at first,
\* and with that it lost its id; and a session at CLOSE is not told.
DeletionPending ==
    \A s \in Sessions : \A e \in ToSet(sess[s].view) :
        e.id # 0 /\ e.uid \notin UidsOf(box.coll) \cup rows =>
            \/ e.id \in sess[s].vanished
            \/ e.uid \in sess[s].missed
            \/ job[s].op = "CLOSE"
            \/ \E c \in ToSet(sess[s].cached) : c.type = "Deleted" /\ e.id \in c.ids
            \/ \E a \in Actors : s \in note[a].to /\ note[a].type = "Deleted" /\ e.id \in note[a].ids

\* A message that has its row is in every open view, or on its way there: above
\* the highest UID the session has seen, and about to be announced to it.  The
\* exceptions are kept in missed: it came between opening and subscribing, the
\* session copied it there itself, or the query for new rows failed.
NewMailPending ==
    \A s \in Sessions : \A u \in rows :
        sess[s].selected =>
            \/ u \in UidsOf(sess[s].view)
            \/ u \in sess[s].missed
            \/ /\ u > sess[s].highest
               /\ \/ \E c \in ToSet(sess[s].cached) : c.type = "Added"
                  \/ \E a \in Actors : \/ pc[a] = "announce" /\ job[a].n = u
                                       \/ s \in note[a].to /\ note[a].type = "Added"

\* Rows are inserted in the order of their UIDs, whoever saves at the same time:
\* no row ever appears below one that is there, where Messages::Refresh, which
\* asks only for UIDs above the last one it read, would never look for it.
UidsAscend == [][\A u \in rows' \ rows : \A v \in rows : v < u]_vars

Mode(s) ==
    CASE ~sess[s].selected \/ pc[s] = "subscribe"    -> "closed"
      [] pc[s] = "ready" /\ ~sess[s].idling /\ sess[s].selected -> "quiet"
      [] pc[s] = "act" /\ ~MaySendExpunge(job[s].op) -> "numbers"
      [] OTHER                                       -> "free"

Promise == INSTANCE FolderPromise WITH
    mail <- rows,
    known <- [s \in Sessions |-> sess[s].client],
    mode <- [s \in Sessions |-> Mode(s)]

\* The folder keeps what FolderPromise promises its clients: this specification
\* implements that one, with the rows as the mail and the client's list as what
\* it knows (NotifyFolderChange, RemoveMessages, AppendNewMessages, AddObject).
KeepsPromise == Promise!Spec

=============================================================================
