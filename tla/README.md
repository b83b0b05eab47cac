# hMailServer: a TLA+ development

This directory holds TLA+ modules that model four parts of hMailServer: the mail
queue, the thread pools it runs on, an IMAP folder shared by several sessions, and
the operation queue of a network connection. TLC configurations check them on small
instances, and TLAPS proofs cover every instance of the mail queue, of the thread pool
and of the connection, and the order of UIDs in every folder. Paths below are relative to `hmailserver/source/Server/`.

## The system and its parts

hMailServer accepts mail over SMTP (and by external fetch), keeps each accepted
message in the database and its text in a data file, and delivers it from there.

| Part | Where | Here |
|---|---|---|
| Message store of the queue | `Common/Persistence/PersistentMessage*.cpp` | `MessageStore` |
| Reception into the queue, ETRN | `SMTP/SMTPConnection.cpp` | `DeliveryQueue` |
| Delivery manager | `SMTP/SMTPDeliveryManager.cpp` | `DeliveryQueue` |
| Delivery threads | `SMTP/SMTPDeliverer.cpp`, `SMTP/LocalDelivery.cpp` | `Deliverer` |
| External delivery | `SMTP/ExternalDelivery.cpp` | `Deliverer` (hosts and TLS abstracted) |
| Queue administration | `SMTP/DeliveryQueue.cpp` | `DeliveryQueue` |
| Message cache | `Common/Cache/MessageCache.cpp` | `DeliveryQueue` |
| Work queues, stall report | `Common/Threading/`, `Common/Application/WorkQueueHealthTask.cpp` | `WorkQueue` |
| Start, stop, restart | `Common/Application/Application.cpp` | `Crash`, `StartManager` |
| Database layer | `Common/SQL/` | a statement works or fails |
| IMAP folder, as its sessions see it | `IMAP/`, `Common/BO/Messages.cpp`, `Common/Tracking/` | `Mailbox`, promise in `FolderPromise` |
| POP3: the deletions at QUIT | `Common/Application/FolderManager.cpp` | `Mailbox` |
| Connections, their operation queue and timers | `Common/TCPIP/TCPConnection.cpp`, `Common/TCPIP/IOOperationQueue.cpp` | `TCPConnection` |
| External fetch: giving up a session | `ExternalFetcher/ExternalFetch.cpp` | a class of `MCTCPConnection` |
| Database pool, fetch accounts, object caches, greylisting, scheduler, backup | | not modelled, see below |
| MIME, Sieve, rules, scripting, SPF, DKIM, LDAP, diagnostics, COM, webmail, tools | | not modelled, see below |

How the parts interact. A session saves a message (row, recipient rows, unlock),
puts the object in the message cache and answers 250. The delivery manager, one
thread, lists the rows that are unlocked and due, takes each from the cache or
the database, locks its row and posts a task. A delivery thread runs the task:
checks, scanners and rules, local recipients one by one, external recipients in
batches; then it reschedules or deletes the row. An administrator may clear the
queue, remove a message or make it due; ETRN releases held mail. The parts share
the database, the message cache and the work queue, and nothing else.

A delivered message is a row of a folder. Every IMAP session that has the folder
open numbers its messages by a view of its own; the message objects are in one
collection that all sessions share. A change is made in the database and in the
collection, and then told to the other sessions through `NotificationServer`: one
that idles sends it to its client at once, any other keeps it for its next command.

Every session, of any protocol, is a `TCPConnection`. Its owner queues reads,
writes, handshakes, pauses and the disconnect; the connection starts them one after
the other on its strand, and calls its owner when they complete.

## Modules

**`MessageStore`** is what survives the process: `row` (hm_messages: type, lock,
due, tries, owner), `rcpt` (hm_messagerecipients), `file` (which folder the data
file is in). Each operator is one SQL statement or file operation and gives the
new value of the table it writes.

**`Deliverer`** models the delivery threads. `worker[w]` is a program counter into
`SMTPDeliverer::DeliverMessage` and the locals of that call. Each statement and
file operation is a step of its own, so other threads, a crash or an interruption
fit between any two. `posted` is the work queue, `holds` the virus hold table.
`reached`, `twice`, `closed`, `cut`, `signed`, `resigned` are history: what the
outside world has seen. What a scanner, script, rule or remote server answers is
chosen freely.

**`DeliveryQueue`** composes the sessions (`Receive`), the manager (`DoWork`), the
threads (`Work`), the administrator and ETRN (`Administer`), the clock
(`TimePasses`) and a stop or crash with the start that follows (`Crash`). It also
states the properties.

**`WorkQueue`** models one work queue as all its users see it: the wait list of
tasks that may block (`pending`) and their slots (`slots`), the io_context
(`posted`), the threads (`pool`, `pc[w]`, `task[w]`), the counters the code keeps
beside them, `Start`, `Stop` with its ten seconds, a change of the pool size and
the health task. `pc` says where each caller, thread, controller, administrator
and the health task is; `toStart` holds what a process has taken off the wait list
under the lock and has yet to post. `kind` is the queue: `async` gets blocking
tasks and is watched for stalls, `delivery` gets none and is restarted by a clear.
`Deliverer` uses the delivery queue more abstractly, as a set of posted tasks and
a flag.

**`Mailbox`** models one folder. `rows`, `currentUid` and `folderLock` are the
database and the lock of the folder; `box` is the shared collection with the last
UID it has read and its `refresh_needed_`; `sess[s]` is a session: its view, the
messages found vanished, its cached changes, whether it is a subscriber and whether
it idles. `sess[s].client` is the list of messages that an IMAP client keeps from the
EXISTS and EXPUNGE responses it gets. A command is several steps: `Command` is
`AnswerCommand` up to `ExecuteCommand`, with the changes told before the command
runs; then come the handler's own steps (`Act`, `FindDeleted` and `Expunge`,
`CloseCurrentFolder`, ...), and the steps `OnNotification`, which deliver its
notification to one session after the other. Local delivery, APPEND and COPY share
the steps from the UID to the notification.

**`FolderPromise`** is the abstract specification of a folder: what its clients may
rely on. It has the mail, what each client knows, and whether a client is between
two commands, in a command that uses numbers, or in one that allows EXPUNGE. Mail
arrives with ascending UIDs; a client's list grows only at its end; it shrinks only
where EXPUNGE is allowed, and only by mail that is gone. `Mailbox` implements it with
`rows` as the mail and `sess[s].client` as what a client knows (`KeepsPromise`).

**`TCPConnection`** models one connection. `queue` and `ongoing` are the two lists of
`IOOperationQueue`, `io` is what the operating system is really doing, `at` and
`script` are the callback that the strand is in and what it has yet to queue,
`pumping` is `ProcessOperationQueue_`. A deriving class is a record in `Profiles`: for
each callback, and for each other thread, the sequences of operations it may queue.
The thread `Finisher` has nothing to do until a callback posts the task that finishes a
received message (`AddTask`); it then answers and reads on, beside the strand.
The peer may answer, fail or be silent; any exception may leave `ParseData`.

**`MCDeliveryQueue`**, **`MCWorkQueue`**, **`MCMailbox`** and **`MCTCPConnection`**
give the model values for TLC. `MCDeliveryQueue` also has `RouteOrClear`, the action
constraint of the run `admin`: while the queue is cleared, or after a statement failed,
no mail is for the ETRN route, no single message is being removed and the server has
not been restarted. Those combinations are not checked; each part is.
`MCTCPConnection` has the deriving
classes: what SMTP sessions (`Receiver`), IMAP and POP3 sessions (`Server`), the SMTP
client (`Sender`), the fetching clients (`Fetcher`) and the SpamAssassin client
(`Scanner`) queue from each callback, and from the task that saves a message.

The proofs are in modules of their own:

| Module | Proves |
|---|---|
| **`DeliveryQueueProofs`** | types of the queue; the lock (`OneDeliverer`, `LockInv`, `CompleteWhenTaken`) |
| **`MailSteps`** | no theorem: lemmas on what each step of a thread does to its locals and to the tables |
| **`NoMailLostProofs`** | `NoMailLost` |
| **`DeliveryOnceProofs`** | `AtMostOnce`, `SignedOnce`, `RetryBound`, `HeldForRouteOnly` |
| **`LeftBehindProofs`** | `HoldTableBound`, `NoStranding` |
| **`WorkQueueProofs`** | the safety properties of `WorkQueue` |
| **`MailboxProofs`** | `UidsAscend` |
| **`TCPConnectionProofs`** | the safety properties of `TCPConnection` but `ReadRetired` |

Operators whose comment starts with "Mutant" are wrong variants of the definition
that follows. They show that a property can fail; nothing else uses them.

### Abstractions

- A message is a model value; its text, size and headers do not matter here.
- Time is one bit per row: whether `messagenexttrytime` has come. `TimePasses` sets it.
- All routes and defaults share one number of retries, `MaxNoOfRetries`.
- At most one route has an ETRN description (`EtrnRcpts`).
- The envelope is delivered in any batches, with any verdicts. That covers what
  the loops over domains and hosts can produce; their order is not modelled.
- These are one step each although the code has several: `SaveReused`, which also
  writes caches of the mailbox; `HoldUnscannable`, the entry in the hold table and the
  new time of the row; `CopyToAccount`, the copy of the file and the insertion of its
  row. A crash between the parts of the last two is not in the runs.
- The template for hard links is made when the first copy is (`Template`), also when
  that copy is then dropped or cannot be written.
- `Clear` without a work queue, which leaves `is_clearing_` set
  (`SMTP/DeliveryQueue.cpp:49`), is not modelled.
- The error report is one statement that works or fails.
- In `WorkQueue` four groups of neighbouring steps are one action: the test of
  `stopping_` and the increment of the depth; taking a task off the io_context and the
  decrement of the depth (`WorkQueue.cpp:290`); the stores at the head of `Stop`; the
  loads of the thread count and of the depth in the stall report. In the last the
  count may be older than the depth in the code, and so only larger, which makes a
  report less likely. A task ends by returning, throwing or being interrupted
  alike: `Task::Run` and `ExceptionHandler::Run` let none of them reach the thread.
  Time is one bit per running task, whether it is past the threshold. The number of
  reserved threads is a constant; the code reads the setting at every dispatch.
- The order of the pending list is free; the code sorts it by size.
- `EarlySessions = FALSE` says that no session saves a message before the
  manager has run `UnlockAll`. The code does not enforce it: `StartServers`
  starts both together. The passing runs and all theorems about the queue but
  `TypeCorrect` assume it; the run `startup_race` drops it.

- In `Mailbox` there is one folder, and a message is its UID. `flagged` is the flag
  `\Deleted`; other flags, `\Recent`, mod-sequences, QRESYNC, REPLACE, and the UID forms
  of FETCH, STORE and COPY are left out, as is the notification of changed flags. SORT
  and THREAD are as SEARCH. The copy that MOVE makes is in another folder. A command
  names one number. A client ignores an EXPUNGE with a number that it does not know.
  `Delete` takes a message out of the collection, sends the session's own EXPUNGE and
  chooses whom to tell, and `SetCurrentFolder` loads the collection and builds the view,
  in one step each. `ExpungeNumbers` has one number per id: two messages that both lost
  their id, which takes two failures, get one EXPUNGE.
- A handler that still works on a collection which has just expired from the cache
  is not modelled: `Expire` waits for a session between `FindDeleted` and `Expunge`.
- `missed` is bookkeeping for the properties: messages of whose change the code does
  not tell a session. There are four ways into it: the change came between building
  the view and subscribing; the message lost its id because its file could not be
  deleted; the session itself copied the message there; the query for new rows failed.
- In `TCPConnection` the bytes are left out, and with them exact reads, the
  PROXY header, compression other than a stream that cannot be inflated, and the
  limit of ten on recursion. Behaviours start when the connection has been made.
  `EnqueueDisconnect` by another thread tests the state in one step, and sets it and
  queues the operation in another. A write whose compression fails at once is left
  out. `ThrowOther` is for `ParseData`: `OnDataSent` of the POP3 session and of the SMTP
  client may throw too, when a chunk of the file cannot be read (`File.cpp:385`). That is
  before anything is queued and leaves the write on the list of ongoing operations until
  the idle timer closes the connection.

## Runs

The two `pool` runs use `MCWorkQueue`, the two `mailbox` runs `MCMailbox`,
`connection` uses `MCTCPConnection`, all others `MCDeliveryQueue`. In
`MCDeliveryQueue`, where not said otherwise, are one message, one thread, one local and one external recipient, one retry, and no fault or crash.

| Run | Instance | Shows |
|---|---|---|
| `core` | 2 messages, 2 threads | no two deliverers, no duplicate, no half-saved pick-up, no stranded lock, one signature |
| `recovery` | 2 local recipients (one silent), virus holds, hard links, 1 fault, 1 crash | no mail forgotten, retry budget |
| `holds` | 3 messages, 2 threads, hold table of 1 | the hold table overshoots by at most the threads; a held message is not signed before it is scanned |
| `admin` | 2 external recipients, one on the ETRN route; Remove, ETRN, reset and 1 crash, or without mail for the route Clear, ETRN, reset and 1 fault (`RouteOrClear`) | only what an administrator deleted is gone; nobody else waits for a route's ETRN |
| `liveness` | fair specification, virus holds, 1 crash | every accepted message is settled and leaves the queue |
| `pool` | 2 blocking tasks, 1 other, pool of 2, 1 reserved, 3 thread identities, sizes 0 and 4 asked for, 2 starts | exact counters, no task twice, no idle slot, one thread kept free, no false stall report |
| `pool_liveness` | the same on the async queue, fair, no change of size | other tasks start beside hanging ones; a stuck pool is reported |
| `mailbox_deleting` | 2 messages, 2 sessions and a POP3 session, 4 commands, one row or file that cannot be deleted, 1 expiry | clients and views agree, FETCH and STORE act on the message meant, no deletion is forgotten, `FolderPromise` |
| `mailbox_adding` | 1 message and 2 more, a delivery and 2 sessions, 3 commands, one save or query that fails | no new message is passed over, UIDs ascend (`UidsAscend`), `FolderPromise` |
| `connection` | 5 classes, the strand and 3 other threads, 6 queued operations and tasks | nothing lost or retired twice, handshakes alone, what is being closed gets closed |

The bounds reach the interesting cases. Two messages and two threads let every
pair of steps interleave. One fault and one crash, placed anywhere, show what each
single failure does; two independent failures at once are outside the instances
(the theorems have no such bound). One retry gives a first attempt, a second one
and giving up. A cache limit of 0 or 1 makes the cache overflow. In `pool` the two
sizes asked for meet both clamps; two blocking tasks are one more than the cap, so
one waits; a third thread identity lets a restart add threads beside one that
outlived `Stop`; `Start` may fail to create threads, which gives the pool of one
that can really get stuck.

In the mailbox runs two messages are enough for a removal to renumber the one after
it. Four commands let one client flag and expunge while the other has a number in
flight and a further command to learn of it. Each client has the commands of its
part: in `mailbox_deleting` one deletes and the other looks on, in `mailbox_adding` one
adds and the other comes, idles and goes. Two cached changes let an addition and
a deletion wait in either order. `MaxCached` makes a notifying thread wait, which the
code never does; it cuts behaviours off and adds none. Expiry and failing queries
are in different runs, because with both the promise fails (see below).

In `connection` six operations let a session greet, read a command, answer, and
start TLS or close; every callback of every class is reached.

Some properties name the case in which the code does not promise more.
`AtMostOnce` and `SignedOnce` say nothing after a failed statement or a crash,
where the code accepts a duplicate, and except messages in `stale`: taken from the
cache after they had been delivered from the database. `NoMailLost` excepts `cut`:
who was in the hands of a thread that was cut short, or whose report to the
sender could not be saved. A crash adds only those a later attempt would not find
(`Stored`): whose file had been moved or whose row deleted, with the verdict still in
memory. An interruption by `Clear` adds everybody the thread still had in hand, more
than it loses.

### Runs that end in a violation

Each states what a comment or a document says, and TLC shows a behaviour of the
code that contradicts it. `PROJECT.json` quotes the lines.

| Run | What the code does |
|---|---|
| `startup_race` | `UnlockAll` frees a message a session is still saving, and the manager takes it without its recipients |
| `failover` | a crash between moving the file and saving the row loses the message |

More differences between comments and code are visible in the actions and have no
run of their own. Most are among the hazards in `PROJECT.json`.

In the queue. `DeleteQueueRow`: a row that could not be deleted stays locked, while
`SMTPDeliverer.cpp:70` says that it "is picked up on the next" pass. `AddTask`: a task
posted while the queue is stopped for a clear is dropped and its message stays
locked, while `DeliveryQueue.cpp:72` says that "whatever survived is delivered". `HoldForEtrn` and `UnlockRescheduled`: a crash between
the two leaves a locked type 3 row, which `UnlockAll` passes over.
`SaveRecipients`: the file of a message refused half saved stays, because
`DeleteFile` refuses a message that has an id. `RemoveLock`: `LockObject` does not
look at the lock, so `Remove` deletes a message that is being delivered.
`AdminDeleteRow`: the row goes first, so `Remove` can report as still queued a
message whose row is gone. `PostTask`: tasks are posted after the lock is released,
so two processes can post them in the other order, while `WorkQueue.cpp:189` says
that "tasks start in the order they were accepted". `GetBlockingLimit`: the cap
comes from the threads that exist, so a new pool size does not change it, while
`WorkQueue.cpp:97` says that it does "immediately".

In the folder. `Command` with COPY or MOVE: pending EXPUNGEs are sent first, so the
number may mean another message when it is resolved, while
`IMAPCommandRangeAction.cpp:90` says that "the numbers mean the messages they meant when
the client was told about them". `Expunge`: the flag was read in an earlier step and
another session may have removed it. `SetCurrentFolder`: a change before
`SubscribeMessageChanges` is not told. `Expire` followed by a query that fails: the
new collection is empty, FETCH or SEARCH takes every message for vanished, and the
next command reports mail as expunged that is there.

In the connection. `AsyncWriteCompleted`: a write that fails while the connection is
being closed stays on the list of ongoing operations, and the disconnect waits for the
idle timer. `ThrowDisconnected` in the callback of `Timeout`: the exception leaves the
timer unarmed. If a thread of `ExternalFetch` has just asked for the disconnect, and the
peer does not take what is being written, nothing closes the socket, while
`ExternalFetch.cpp:109` says that "the abandoned connection is disconnected before we
let go of it". `Push`: a disconnect by another thread may set a closed connection back
to one that is being closed.

### Fairness

`FairSpec` assumes weak fairness of the manager, of each delivery thread, of the
clearer task and of the clock. The first three are operating system threads that
block only on waits with a timeout; a delivery thread's waits on remote servers end
by the connection timeouts. Nothing is assumed of sessions, administrators or
crashes. A scanner that never recovers is covered as long as the holds of a message are
counted: the hold budget ends the wait. The run has one message, so its hold always is.
With a full table (`MaxTrackedAvHolds`, 100,000 messages in the code) a hold is not
counted and not charged (`SMTPDeliverer.cpp:926`), and a message may be held for as long
as the scanner is down and the table stays full.

`FairSpec` of `WorkQueue` assumes that the pool's threads run, that tasks which do
not block end, and that the scheduler, a thread of another queue, runs the health
task again and again. It assumes nothing of callers, of the administrator, or of
tasks that may block: they may hang for ever.

`FairSpec` of `TCPConnection` assumes that the strand runs what is handed to it, that
callbacks end, and that pauses and the idle timer end. It assumes nothing of the peer,
of other threads, so a finalization task may never end, or of the session ceiling. `Mailbox` has safety properties only.

## Proofs

### What is proved

Of the mail queue, for any sets of messages, recipients and threads, any settings, and
any number of faults and crashes. All but the first have the hypothesis
`EarlySessions = FALSE`.

| Theorem | Conclusion | Further hypotheses |
|---|---|---|
| `TypeCorrect` | `Spec => []TypeOK` | |
| `LockExcludes` | `Spec => []OneDeliverer` | |
| `LockIsHeld` | `Spec => []LockInv` | |
| `CompleteBeforeTaken` | `Spec => []CompleteWhenTaken` | |
| `NobodyIsLost` | `Spec => []NoMailLost` | |
| `NobodyTwice` | `Spec => []AtMostOnce` | |
| `SignedAtMostOnce` | `Spec => []SignedOnce` | |
| `RetriesAreBounded` | `Spec => []RetryBound` | |
| `HeldOnlyForRoute` | `Spec => []HeldForRouteOnly` | |
| `HoldTableIsBounded` | `Spec => []HoldTableBound` | finitely many threads, at least one |
| `NobodyIsStranded` | `Spec => []NoStranding` | no Clear (`"clear" \notin Ops`), no ETRN route (`EtrnRcpts = {}`) |

Of the thread pool, for any tasks, threads and sizes, started and stopped any number
of times: `PoolTypes` (`QueueTypeOK`), `TasksAreNotDoubled` (`EachTaskOnce`),
`CountersDoNotDrift` (`CountersExact`), `NoTaskIsForgotten` (`NothingParked`),
`ReserveHolds` (`OneThreadFree`) and `StallsAreReal` (`StallIsReal`, an action property).

Of the folder, for any number of sessions and deliveries: `RowsAscend`
(`UidsAscend`, an action property).

Of a connection, for any deriving class, any other threads and any number of
operations: `ConnectionTypes` (`ConnectionTypeOK`), `PopAlwaysFinds` (`PopFinds`),
`HandshakesAreAlone` (`HandshakeAlone`), `NothingIsStranded` (`NothingStranded`) and
`DisconnectsWait` (`DisconnectWaits`, an action property).

The assumptions on constants are those named in the modules: `StoreAssumption`,
`DelivererAssumption`, `QueueAssumption`, `PoolAssumption`, `ProcsDistinct`,
`MailboxAssumption`, `ConnectionAssumption`. They give the constants their types and
keep model values apart.

### The arguments

**The lock.** `OneDeliverer` is not inductive: it says nothing of the lock column, on
which the manager relies when it lists messages. The inductive invariant is `IInv ==
TypeOK /\ LockInv /\ OneDeliverer`, in `DeliveryQueue`. `LockInv` says that a message
handed over is locked or gone; that a listed message is nowhere on its way; that a
message still being saved is locked and unknown to the manager; that nothing is on its
way when the manager starts; and that a thread which has unlocked its message is only
finishing up. The proof treats a step of a worker through two facts: which rows it
may change (`Keeps`) and how the worker's own record moves (`Onward`). All further
proofs about the queue start from `IInv`.

**No mail is lost.** `NoMailLost` speaks of what a later attempt finds in the tables,
and a thread works on copies of them. `MailInv` (in `MailSteps`) relates the two: of
every message that was saved and not deleted by an administrator, each recipient is
done with, or is in the store and among those that whoever has the message in hand
still has to deal with (`Cover`, `Hold`). `Locals` says what the locals of
`DeliverMessage` are at each step.

**Once, and not for ever.** `LedgerInv` is a ledger for each message. It says of the
tables and of each object a delivery goes through (listed row, manager's object,
task, thread) what the object must agree on with the tables and with what the world
has seen: nobody who has the message is among those still to be sent it, except at
the step that deletes their row; a message that was signed has used a try; an object
with a retry left belongs to a row with one left. The four theorems of
`DeliveryOnceProofs` follow from it.

**The hold table.** The check of the table's size and the new entry are two steps.
`RoomInv` counts the entries together with those that threads have been promised and
have not made. A promise stays one entry because of `OneDeliverer`: nobody else
removes the entry of the message a thread has in hand.

**No lock stays behind.** `StrandInv` says which rows may be locked: those on their
way, those that an operation has locked and is still working on, and all of them
before `UnlockAll`; and that every path a thread can take releases its row or
deletes it. Its two hypotheses are needed. `Clear` interrupts a thread before it
unlocks its message. With an ETRN route, a crash between `HoldForEtrn` and
`UnlockRescheduled` leaves a locked held row, which `UnlockAll` passes over and a later
ETRN returns to the queue, locked (see "Runs that end in a violation").

**The pool.** The parts of `PoolInv` about the lists say that a task is in one place
only and that the two counters are the sizes of two sets of places. They depend on a
step only through the list it takes a task from and the list it puts it on; one
lemma per list covers every process that pumps the wait list. The parts about the
threads say that no more tasks have slots than the pool allows, that a waiting task
waits for a slot or for somebody on the way to the list, and that the health task has
seen no fewer threads than are left.

**UIDs.** `UidInv`: a thread that has taken a UID and not used it has the folder's lock,
its UID is the last one given out, and no row has it. So a row that is inserted is
above all others, although taking the UID and inserting the row are two statements.

**The connection.** None of the properties is inductive: that a handshake is alone
depends on the list of ongoing operations being right, and that on every handler
retiring what it handles. The inductive invariant adds three facts to the types and to
`PopFinds`. `Alone`: on the list, operations that exclude each other are not together.
`Exact`: on an open connection the list holds what is outstanding or being handled,
and nothing else. `Waiting`: while there is no handler left to run the queue, its
first operation cannot start. A step changes the list in one of six ways (lemma
`Effects`: nothing, an operation starts, its I/O completes, it is retired, and so on),
so each conjunct is shown for the six shapes and not for each action.
`DisconnectWaits` follows from `PopFinds` and the table of what blocks what.

### What is only model-checked

- The liveness properties: fairness is out of the prover's reach.
- The invariants of `Mailbox` and the refinement of `FolderPromise`. They are about
  lists that folds, filters and sorting produce, and what those compute for every
  list takes an induction over data, which the prover cannot do. `UidsAscend` is the
  part of the promise that does not need it.
- `ReadRetired`. It depends on what the deriving classes queue: one that writes in
  `OnExcessiveDataReceived` while another thread disconnects would leave a read on the
  list, and no class of the server does both.

## Not modelled

Parts with state of their own that would make modules like these, in the order of
what they would add: the connection pool of `Common/SQL` with its deadline;
`WorkQueueManager` and `Reinitialize`, with the threads of one queue beside those of the
next; the lock and the UID list of a fetch account; the SMTP session around the
acceptance of a message; the loop over hosts of `DeliverToSingleDomain_`; the POP3
mailbox lock; mod-sequences; greylisting, the scheduler, backup and restore, the
object caches, the login throttle.

Code that computes on text (MIME, Sieve, rules, SPF, DKIM, DMARC, LDAP), user
scripts, the COM interface, the HTTP services and webmail, the live update,
diagnostics, the platform layer, vendored libraries, the administration tools, the
installer and the tests. The first group decides the fate of a message only
through answers that `Deliverer` leaves free; the others are outside the parts modelled here.
