---------------------------- MODULE MessageStore ----------------------------
(***************************************************************************)
(* What of a queued message outlives the process: its row in hm_messages,  *)
(* its rows in hm_messagerecipients and its data file.  Every operator     *)
(* below is one SQL statement, or one file operation, of PersistentMessage *)
(* and gives the new value of the table (or of the files) it writes; a     *)
(* caller uses it as row' = LockObject(m).  A statement that fails leaves  *)
(* its table as it was.                                                    *)
(*                                                                         *)
(* A row keeps the columns that decide deliveries: messagetype,            *)
(* messagelocked, messagecurnooftries, messageaccountid and whether        *)
(* messagenexttrytime has been reached.                                    *)
(***************************************************************************)
EXTENDS Naturals, FiniteSets

CONSTANTS
  Msgs,            \* the messages that may be received
  LocalRcpts,      \* recipients with an account on this server
  ExternalRcpts    \* recipients reached over SMTP

ASSUME StoreAssumption == LocalRcpts \cap ExternalRcpts = {}

VARIABLES
  row,    \* row[m]  : the hm_messages row of m
  rcpt,   \* rcpt[m] : the recipients of m that have an hm_messagerecipients row
  file    \* file[m] : the folder the data file of m is in

Rcpts == LocalRcpts \cup ExternalRcpts

\* Message::State as stored in messagetype; "held" is the type 3 that only
\* the ETRN code writes, "none" that there is no row.
Types == {"none", "delivering", "delivered", "held"}

\* What messageaccountid holds: 0, the id of a route, or the id of an account.
Owners == {"none", "route", "user"}

Rows == [type : Types, locked : BOOLEAN, due : BOOLEAN, tries : Nat, owner : Owners]

Folders == {"none", "queue", "account"}

NoRow ==
  [type |-> "none", locked |-> FALSE, due |-> FALSE, tries |-> 0, owner |-> "none"]

StoreTypeOK ==
  /\ row \in [Msgs -> Rows]
  /\ rcpt \in [Msgs -> SUBSET Rcpts]
  /\ file \in [Msgs -> Folders]

Exists(m) == row[m].type # "none"

Queued(m) == row[m].type \in {"delivering", "held"}

\* A later delivery attempt finds r: the message's row, its recipient row and
\* the data file in the queue's folder are all there.
Stored(m, r) == r \in rcpt[m] /\ Queued(m) /\ file[m] = "queue"

\* update hm_messages set ... where messageid = m: no row, no effect.
Update(m, r) == IF Exists(m) THEN [row EXCEPT ![m] = r] ELSE row

\* Mutant: the row is visible before its recipients are.
InsertRowUnlocked(m) ==
  [row EXCEPT ![m] = [type |-> "delivering", locked |-> FALSE, due |-> TRUE,
                      tries |-> 0, owner |-> "none"]]

\* The insert of a new message with recipients: locked until they are saved.
InsertRow(m) ==
  [row EXCEPT ![m] = [type |-> "delivering", locked |-> TRUE, due |-> TRUE,
                      tries |-> 0, owner |-> "none"]]

\* The update of a message that was queued and now belongs to a mailbox.
SaveDelivered(m) ==
  Update(m, [row[m] EXCEPT !.type = "delivered", !.owner = "user"])

\* Mutant: the lock is never written.
LockObjectNot(m) == row

LockObject(m) == Update(m, [row[m] EXCEPT !.locked = TRUE])

UnlockObject(m) == Update(m, [row[m] EXCEPT !.locked = FALSE])

\* Only type 1 rows: a held row keeps its lock.
UnlockAll ==
  [m \in Msgs |-> IF row[m].type = "delivering"
                  THEN [row[m] EXCEPT !.locked = FALSE] ELSE row[m]]

\* The type goes back to 1; messageaccountid is left as it is.
SetNextTryTime(m, updateNoOfTries, due) ==
  IF Queued(m)
  THEN [row EXCEPT ![m] = [row[m] EXCEPT !.type = "delivering", !.due = due,
                                         !.tries = IF updateNoOfTries THEN @ + 1 ELSE @]]
  ELSE row

\* GetRetryOptions_: the message waits for its route's ETRN.
HoldForRoute(m) ==
  Update(m, [row[m] EXCEPT !.type = "held", !.owner = "route", !.tries = 1, !.due = TRUE])

\* ProtocolETRN_: every message held for the route goes back to the queue.
ReleaseRoute ==
  [m \in Msgs |-> IF row[m].type = "held" /\ row[m].owner = "route"
                  THEN [row[m] EXCEPT !.type = "delivering", !.owner = "none", !.due = TRUE]
                  ELSE row[m]]

DeleteRow(m) == [row EXCEPT ![m] = NoRow]

DeleteRecipients(m) == [rcpt EXCEPT ![m] = {}]

\* Mutant: a recipient that is done keeps its row.
DeleteRecipientNot(m, r) == rcpt

DeleteRecipient(m, r) == [rcpt EXCEPT ![m] = @ \ {r}]

\* DeleteFile of an object that still belongs to the queue.
DeleteQueueFile(m) == IF file[m] = "queue" THEN [file EXCEPT ![m] = "none"] ELSE file

MoveFileToUserFolder(m) == [file EXCEPT ![m] = "account"]

\* What LoadPendingMessageList_ selects, and the columns of it that the
\* manager goes on to use.
PendingMessageList ==
  {[id |-> m, tries |-> row[m].tries, owner |-> row[m].owner] :
     m \in {n \in Msgs : row[n].type = "delivering" /\ ~row[n].locked /\ row[n].due}}
=============================================================================
