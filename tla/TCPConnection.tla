---------------------------- MODULE TCPConnection ----------------------------
(***************************************************************************)
(* One connection, of any protocol: the operations its owner queues        *)
(* (IOOperationQueue), the asynchronous I/O they become, and the timers.   *)
(*                                                                         *)
(* All handlers of a connection run on its strand, one at a time.  A       *)
(* handler calls into the deriving class (OnConnected, ParseData,          *)
(* OnDataSent, ...), and what that queues is started at once, inside the   *)
(* call; what another thread queues is started by a handler posted to the  *)
(* strand.  The peer may answer, fail or stay silent.                      *)
(***************************************************************************)
EXTENDS Naturals, Sequences, Functions

CONSTANTS
    Callers,    \* threads other than the strand that queue operations
    Finisher,   \* the one that runs what a callback hands to the asynchronous queue
    Profiles,   \* deriving classes: the sequences of operations that each callback
                \* and each caller may queue, and if there is a session ceiling
    MaxOps      \* bound: operations queued (disconnects by the strand itself not counted)

Types == {"Read", "Write", "Handshake", "Delay", "ShutdownSend", "Disconnect"}

\* What a callback may do: queue an operation, or post the task that finishes a
\* received message.
Calls == Types \cup {"AddTask"}

\* The calls into the deriving class that a handler can be in: OnConnected,
\* ParseData for a read (Eof: the last one), OnExcessiveDataReceived, OnDataSent,
\* OnHandshakeCompleted, OnConnectionTimeout.
Callbacks == {"Start", "Read", "ReadEof", "ReadError", "Write", "Handshake", "Timeout"}

ASSUME ConnectionAssumption ==
    /\ Profiles \subseteq [calls : [Callbacks -> SUBSET Seq(Calls)],
                            queues : [Callers -> SUBSET Seq(Types)], ceiling : BOOLEAN]
    /\ MaxOps \in Nat
    /\ Finisher \in Callers

VARIABLES
    profile,      \* the deriving class
    state,        \* connection_state_
    shut,         \* the socket has been shut down
    queue,        \* queue_operations_
    ongoing,      \* ongoing_operations_: how many of each type
    io,           \* the asynchronous operations outstanding, of each type
    at,           \* the callback the strand is in, or "idle"
    script,       \* what that callback has yet to queue
    pumping,      \* the strand is in ProcessOperationQueue_
    posted,       \* calls of ProcessOperationQueue_ posted to the strand
    handshaking,  \* handshake_in_progress_
    timer,        \* the idle timer is armed
    ceiling,      \* the session's maximum duration has yet to pass
    caller,       \* what every other thread has yet to queue
    tested,       \* the other threads that have found the connection open
    pushes        \* operations queued so far

strand_vars == <<at, script>>
timers == <<timer, ceiling>>
others == <<profile, posted, caller, tested, pushes>>
vars == <<state, shut, queue, ongoing, io, pumping, handshaking, strand_vars, timers, others>>

Plus(f, t) == [f EXCEPT ![t] = @ + 1]
Minus(f, t) == [f EXCEPT ![t] = @ - 1]

-----------------------------------------------------------------------------
(* IOOperationQueue.                                                        *)

\* Mutants: a handshake may start while a read is outstanding; a disconnect may
\* start while a write is.
BlocksHandshakeNot(under_way, next) == under_way = "Read" => next = "Read"
BlocksDisconnectNot(under_way, next) ==
    CASE under_way = "Read"  -> next \in {"Read", "Handshake"}
      [] under_way = "Write" -> next # "Disconnect"
      [] OTHER               -> TRUE

\* While an operation of the first type is under way, one of the second type
\* does not start.
Blocks(under_way, next) == under_way = "Read" => next \in {"Read", "Handshake"}

\* Front: the first in the queue, unless something under way blocks it.
CanStart ==
    queue # <<>> /\ \A t \in Types : ongoing[t] > 0 => ~Blocks(t, Head(queue))

\* The strand has nothing to do but to take the next handler.
Free == at = "idle" /\ ~pumping

-----------------------------------------------------------------------------
\* A connection was made (OnConnected runs on the strand) or accepted
\* (OnConnected runs on the acceptor's thread, one of the callers).
Init ==
    /\ profile \in Profiles
    /\ state = "Connected" /\ shut = FALSE
    /\ queue = <<>>
    /\ ongoing = [t \in Types |-> 0] /\ io = [t \in Types |-> 0]
    /\ script \in profile.calls["Start"]
    /\ at = IF script = <<>> THEN "idle" ELSE "Start"
    /\ pumping = FALSE /\ posted = 0
    /\ handshaking = FALSE /\ timer = FALSE /\ ceiling = profile.ceiling
    /\ caller \in [Callers -> {<<>>} \cup UNION {profile.queues[c] : c \in Callers}]
    /\ \A c \in Callers : IF c = Finisher THEN caller[c] = <<>> ELSE caller[c] \in profile.queues[c]
    /\ tested = {} /\ pushes = 0

\* EnqueueDisconnect on the strand, which runs the queue if the connection was
\* open; the queue is run anyway where the handler goes on to do so.
EnqueueDisconnect(q, runs) ==
    /\ state' = IF state = "Connected" THEN "PendingDisconnect" ELSE state
    /\ queue' = IF state = "Connected" THEN Append(q, "Disconnect") ELSE q
    /\ pumping' = (runs \/ state = "Connected")

\* Disconnect: the socket is shut down; a pause under way is cancelled.
Disconnect == state' = "Disconnected" /\ shut' = TRUE

\* The handler calls the deriving class.
Callback(cb) == at' = cb /\ script' \in profile.calls[cb]

-----------------------------------------------------------------------------
(* ProcessOperationQueue_, one operation a step.                            *)

\* Nothing can start: back to the handler.
QueueWaits ==
    /\ pumping /\ ~CanStart
    /\ pumping' = FALSE
    /\ UNCHANGED <<state, shut, queue, ongoing, io, handshaking, strand_vars, timers, others>>

Starts(t) == pumping /\ CanStart /\ Head(queue) = t

\* Mutant: the queue is not run again.
AsyncReadAlone ==
    /\ Starts("Read")
    /\ queue' = Tail(queue)
    /\ ongoing' = Plus(ongoing, "Read") /\ io' = Plus(io, "Read")
    /\ timer' = TRUE /\ pumping' = FALSE
    /\ UNCHANGED <<state, shut, handshaking, strand_vars, ceiling, others>>

\* AsyncRead, and the queue is run once more: a write may go beside the read.
AsyncRead ==
    /\ Starts("Read")
    /\ queue' = Tail(queue)
    /\ ongoing' = Plus(ongoing, "Read") /\ io' = Plus(io, "Read")
    /\ timer' = TRUE
    /\ UNCHANGED <<state, shut, pumping, handshaking, strand_vars, ceiling, others>>

AsyncWrite ==
    /\ Starts("Write")
    /\ queue' = Tail(queue)
    /\ ongoing' = Plus(ongoing, "Write") /\ io' = Plus(io, "Write")
    /\ timer' = TRUE /\ pumping' = FALSE
    /\ UNCHANGED <<state, shut, handshaking, strand_vars, ceiling, others>>

\* AsyncDelay leaves the idle timer as it is.
AsyncDelay ==
    /\ Starts("Delay")
    /\ queue' = Tail(queue)
    /\ ongoing' = Plus(ongoing, "Delay") /\ io' = Plus(io, "Delay")
    /\ pumping' = FALSE
    /\ UNCHANGED <<state, shut, handshaking, strand_vars, timers, others>>

\* AsyncHandshake; when TLS cannot be set up, HandshakeFailed_ retires the
\* operation itself and closes the connection.
AsyncHandshake ==
    /\ Starts("Handshake")
    /\ timer' = TRUE
    /\ \/ /\ queue' = Tail(queue)
          /\ ongoing' = Plus(ongoing, "Handshake") /\ io' = Plus(io, "Handshake")
          /\ handshaking' = TRUE /\ pumping' = FALSE
          /\ UNCHANGED state
       \/ /\ EnqueueDisconnect(Tail(queue), FALSE)
          /\ handshaking' = FALSE
          /\ UNCHANGED <<ongoing, io>>
    /\ UNCHANGED <<shut, strand_vars, ceiling, others>>

\* Shutdown for sending, and Disconnect: done at once, and the queue is run again.
ShutdownOrDisconnect ==
    /\ \/ Starts("ShutdownSend") /\ UNCHANGED <<state, shut>>
       \/ Starts("Disconnect") /\ Disconnect
    /\ queue' = Tail(queue)
    /\ UNCHANGED <<ongoing, io, pumping, handshaking, strand_vars, timers, others>>

-----------------------------------------------------------------------------
(* The handlers.                                                            *)

\* AsyncReadCompleted, up to the call of the deriving class.  A read that
\* fails when the connection is being closed already is only retired.
AsyncReadCompleted ==
    /\ Free /\ io["Read"] > 0
    /\ io' = Minus(io, "Read")
    /\ timer' = TRUE
    /\ \/ (Callback("Read") \/ Callback("ReadEof")) /\ UNCHANGED <<ongoing, pumping>>
       \/ state = "Connected" /\ Callback("ReadError") /\ UNCHANGED <<ongoing, pumping>>
       \/ /\ state # "Connected"
          /\ ongoing' = Minus(ongoing, "Read") /\ pumping' = TRUE
          /\ UNCHANGED strand_vars
    /\ UNCHANGED <<state, shut, queue, handshaking, ceiling, others>>

\* AsyncCompressedReadCompleted when the peer's stream cannot be inflated.
InflateFails ==
    /\ Free /\ io["Read"] > 0
    /\ io' = Minus(io, "Read") /\ ongoing' = Minus(ongoing, "Read")
    /\ EnqueueDisconnect(queue, FALSE)
    /\ UNCHANGED <<shut, handshaking, strand_vars, timers, others>>

\* AsyncWriteCompleted.  A write that fails when the connection is being closed
\* already is not retired; OnDataSent is called when no other write is queued.
AsyncWriteCompleted ==
    /\ Free /\ io["Write"] > 0
    /\ io' = Minus(io, "Write")
    /\ timer' = TRUE
    /\ \/ /\ state # "Connected"
          /\ UNCHANGED <<state, queue, ongoing, pumping, strand_vars>>
       \/ /\ state = "Connected"
          /\ EnqueueDisconnect(queue, TRUE)
          /\ ongoing' = Minus(ongoing, "Write")
          /\ UNCHANGED strand_vars
       \/ /\ "Write" \in Range(queue)
          /\ ongoing' = Minus(ongoing, "Write") /\ pumping' = TRUE
          /\ UNCHANGED <<state, queue, strand_vars>>
       \/ /\ "Write" \notin Range(queue)
          /\ Callback("Write")
          /\ UNCHANGED <<state, queue, ongoing, pumping>>
    /\ UNCHANGED <<shut, handshaking, ceiling, others>>

\* Mutant: the handshake is retired before the deriving class is called too.
HandshakeRetiredEarly ==
    /\ Free /\ io["Handshake"] > 0
    /\ io' = Minus(io, "Handshake") /\ ongoing' = Minus(ongoing, "Handshake")
    /\ handshaking' = FALSE
    /\ \/ Callback("Handshake") /\ UNCHANGED <<state, queue, pumping>>
       \/ EnqueueDisconnect(queue, TRUE) /\ UNCHANGED strand_vars
    /\ UNCHANGED <<shut, timers, others>>

AsyncHandshakeCompleted ==
    /\ Free /\ io["Handshake"] > 0
    /\ io' = Minus(io, "Handshake")
    /\ handshaking' = FALSE
    /\ \/ Callback("Handshake") /\ UNCHANGED <<state, queue, ongoing, pumping>>
       \/ /\ EnqueueDisconnect(queue, TRUE)
          /\ ongoing' = Minus(ongoing, "Handshake")
          /\ UNCHANGED strand_vars
    /\ UNCHANGED <<shut, timers, others>>

\* The pause is over, or Disconnect has cancelled it.
AsyncDelayCompleted ==
    /\ Free /\ io["Delay"] > 0
    /\ io' = Minus(io, "Delay") /\ ongoing' = Minus(ongoing, "Delay")
    /\ pumping' = TRUE
    /\ UNCHANGED <<state, shut, queue, handshaking, strand_vars, timers, others>>

\* A ProcessOperationQueue_ that another thread has dispatched.
RunPosted ==
    /\ Free /\ posted > 0
    /\ posted' = posted - 1 /\ pumping' = TRUE
    /\ UNCHANGED <<state, shut, queue, ongoing, io, handshaking, strand_vars, timers, profile, caller, tested, pushes>>

\* Mutant: a connection that is being closed already is left to its queue.
TimeoutOpenOnly ==
    /\ Free /\ timer
    /\ timer' = FALSE
    /\ CASE state # "Connected" -> UNCHANGED <<state, shut, strand_vars>>
         [] state = "Connected" /\ handshaking -> Disconnect /\ UNCHANGED strand_vars
         [] OTHER -> Callback("Timeout") /\ UNCHANGED <<state, shut>>
    /\ UNCHANGED <<queue, ongoing, io, pumping, handshaking, ceiling, others>>

\* OnTimeout: close at once, or let the deriving class say goodbye first.
Timeout ==
    /\ Free /\ timer
    /\ timer' = FALSE
    /\ IF state # "Connected" \/ handshaking
       THEN Disconnect /\ UNCHANGED strand_vars
       ELSE Callback("Timeout") /\ UNCHANGED <<state, shut>>
    /\ UNCHANGED <<queue, ongoing, io, pumping, handshaking, ceiling, others>>

OnSessionCeilingReached ==
    /\ Free /\ ceiling
    /\ ceiling' = FALSE
    /\ Disconnect
    /\ UNCHANGED <<queue, ongoing, io, pumping, handshaking, strand_vars, timer, others>>

-----------------------------------------------------------------------------
(* What the deriving class does in a callback, and how the handler goes on. *)

InCallback == at # "idle" /\ ~pumping

\* It queues an operation, and the queue is run inside the call.
Enqueue ==
    /\ InCallback /\ script # <<>> /\ Head(script) \notin {"Disconnect", "AddTask"}
    /\ state = "Connected"
    /\ pushes < MaxOps /\ pushes' = pushes + 1
    /\ queue' = Append(queue, Head(script)) /\ pumping' = TRUE
    /\ script' = Tail(script)
    /\ UNCHANGED <<state, shut, ongoing, io, handshaking, at, timers, profile, posted, caller, tested>>

CallDisconnect ==
    /\ InCallback /\ script # <<>> /\ Head(script) = "Disconnect"
    /\ EnqueueDisconnect(queue, FALSE)
    /\ script' = Tail(script)
    /\ UNCHANGED <<shut, ongoing, io, handshaking, at, timers, others>>

\* ParseData has a whole message: the rest is done by a task on the asynchronous
\* work queue, which may begin before ParseData returns.
AddTask ==
    /\ InCallback /\ script # <<>> /\ Head(script) = "AddTask"
    /\ pushes < MaxOps /\ pushes' = pushes + 1
    /\ \E s \in profile.queues[Finisher] : caller' = [caller EXCEPT ![Finisher] = @ \o s]
    /\ script' = Tail(script)
    /\ UNCHANGED <<state, shut, queue, ongoing, io, pumping, handshaking, at, timers, profile, posted, tested>>

\* Mutant: nobody catches the exception.
ThrowDisconnectedKeeps ==
    /\ InCallback /\ script # <<>> /\ Head(script) \notin {"Disconnect", "AddTask"}
    /\ state # "Connected"
    /\ at' = "idle" /\ script' = <<>>
    /\ UNCHANGED <<state, shut, queue, ongoing, io, pumping, handshaking, timers, others>>

\* It queues an operation on a connection that is no longer open, and the
\* exception leaves the handler.  Only ParseData's caller catches it, to retire
\* the read.
ThrowDisconnected ==
    /\ InCallback /\ script # <<>> /\ Head(script) \notin {"Disconnect", "AddTask"}
    /\ state # "Connected"
    /\ ongoing' = IF at \in {"Read", "ReadEof"} THEN Minus(ongoing, "Read") ELSE ongoing
    /\ at' = "idle" /\ script' = <<>>
    /\ UNCHANGED <<state, shut, queue, io, pumping, handshaking, timers, others>>

\* Mutant: the read is retired by the catch and by what follows it.
ThrowOtherTwice ==
    /\ InCallback /\ at \in {"Read", "ReadEof"}
    /\ ongoing' = Minus(Minus(ongoing, "Read"), "Read")
    /\ EnqueueDisconnect(queue, FALSE)
    /\ at' = "idle" /\ script' = <<>>
    /\ UNCHANGED <<shut, io, handshaking, timers, others>>

\* Any other exception in ParseData.
ThrowOther ==
    /\ InCallback /\ at \in {"Read", "ReadEof"}
    /\ ongoing' = Minus(ongoing, "Read")
    /\ EnqueueDisconnect(queue, FALSE)
    /\ at' = "idle" /\ script' = <<>>
    /\ UNCHANGED <<shut, io, handshaking, timers, others>>

\* The callback returns, having queued all it wanted or all that MaxOps
\* allows; the handler retires its operation and runs the queue.
Return ==
    /\ InCallback /\ (script = <<>> \/ pushes = MaxOps)
    /\ at' = "idle" /\ script' = <<>>
    /\ ongoing' = CASE at \in {"Read", "ReadEof", "ReadError"} -> Minus(ongoing, "Read")
                    [] at \in {"Write", "Handshake"}            -> Minus(ongoing, at)
                    [] OTHER                                    -> ongoing
    /\ IF at \in {"ReadEof", "ReadError", "Timeout"}
       THEN EnqueueDisconnect(queue, at # "Timeout")
       ELSE pumping' = (at # "Start") /\ UNCHANGED <<state, queue>>
    /\ timer' = (timer \/ at = "Timeout")
    /\ UNCHANGED <<shut, io, handshaking, ceiling, others>>

-----------------------------------------------------------------------------
(* The other threads.                                                       *)

\* ThrowIfNotConnected_, or EnqueueDisconnect's own test: when the connection
\* is no longer open the thread gives up.
Call(c) ==
    /\ c \notin tested /\ caller[c] # <<>>
    /\ IF state = "Connected"
       THEN tested' = tested \cup {c} /\ UNCHANGED caller
       ELSE caller' = [caller EXCEPT ![c] = <<>>] /\ UNCHANGED tested
    /\ UNCHANGED <<state, shut, queue, ongoing, io, pumping, handshaking, strand_vars, timers, profile, posted, pushes>>

\* Push and dispatch, whatever the state is by now.
Push(c) ==
    /\ c \in tested
    /\ state' = IF Head(caller[c]) = "Disconnect" THEN "PendingDisconnect" ELSE state
    /\ queue' = Append(queue, Head(caller[c]))
    /\ posted' = posted + 1
    /\ caller' = [caller EXCEPT ![c] = Tail(@)]
    /\ tested' = tested \ {c}
    /\ UNCHANGED <<shut, ongoing, io, pumping, handshaking, strand_vars, timers, profile, pushes>>

-----------------------------------------------------------------------------
ProcessOperationQueue ==
    \/ QueueWaits \/ AsyncRead \/ AsyncWrite \/ AsyncDelay \/ AsyncHandshake
    \/ ShutdownOrDisconnect

Peer == AsyncReadCompleted \/ InflateFails \/ AsyncWriteCompleted \/ AsyncHandshakeCompleted

Class == Enqueue \/ CallDisconnect \/ AddTask \/ ThrowDisconnected \/ Return

Next ==
    \/ ProcessOperationQueue \/ Peer \/ Class \/ ThrowOther
    \/ AsyncDelayCompleted \/ RunPosted \/ Timeout \/ OnSessionCeilingReached
    \/ \E c \in Callers : Call(c) \/ Push(c)

Spec == Init /\ [][Next]_vars

\* The strand runs its handlers, callbacks end and timers fire.  Nothing is
\* assumed of the peer or of the other threads.
FairSpec ==
    /\ Spec
    /\ WF_vars(ProcessOperationQueue) /\ WF_vars(Class) /\ WF_vars(RunPosted)
    /\ WF_vars(AsyncDelayCompleted) /\ WF_vars(Timeout)

-----------------------------------------------------------------------------
(* Properties.                                                              *)

ConnectionTypeOK ==
    /\ profile \in Profiles
    /\ state \in {"Connected", "PendingDisconnect", "Disconnected"} /\ shut \in BOOLEAN
    /\ queue \in Seq(Types)
    /\ ongoing \in [Types -> Nat] /\ io \in [Types -> Nat]
    /\ at \in Callbacks \cup {"idle"} /\ script \in Seq(Calls)
    /\ pumping \in BOOLEAN /\ posted \in Nat /\ handshaking \in BOOLEAN
    /\ timer \in BOOLEAN /\ ceiling \in BOOLEAN
    /\ caller \in [Callers -> Seq(Types)]
    /\ tested \subseteq {c \in Callers : caller[c] # <<>>}
    /\ pushes \in 0..MaxOps

\* The operation whose completion the strand is handling.
Handling(t) ==
    \/ t = "Read" /\ at \in {"Read", "ReadEof", "ReadError"}
    \/ t \in {"Write", "Handshake"} /\ at = t

\* IOOperationQueue::Pop always finds what it is to remove: whatever is
\* outstanding, or is just being handled, is on the list of ongoing operations,
\* once, and never both.  No handler's error path retires an operation twice.
PopFinds ==
    \A t \in Types :
        /\ ongoing[t] <= 1 /\ io[t] <= ongoing[t]
        /\ Handling(t) => ongoing[t] = 1 /\ io[t] = 0

\* On the wire a TLS handshake is alone, whatever callbacks and other threads
\* queue around it, and nothing is sent while a pause is running.
HandshakeAlone ==
    /\ io["Handshake"] > 0 => \A t \in Types \ {"Handshake"} : io[t] = 0
    /\ io["Delay"] > 0 => io["Write"] = 0

\* While the connection is open, what is queued waits only for I/O that is
\* really under way (issue #261): there is always somebody left to run the queue.
NothingStranded ==
    Free /\ posted = 0 /\ state = "Connected" /\ queue # <<>> =>
        \E t \in Types : io[t] > 0 /\ Blocks(t, Head(queue))

\* Between two handlers a read or a pause on the list of ongoing operations is
\* one that is still outstanding, also on a connection that is being closed
\* (upstream #580: a finished read left on the list blocked the disconnect).
ReadRetired ==
    at = "idle" => \A t \in {"Read", "Delay"} : ongoing[t] = io[t]

TakesDisconnect == queue # <<>> /\ queue' = Tail(queue) /\ Head(queue) = "Disconnect"

\* A disconnect taken from the queue does not cut off a write: whatever was
\* being sent, such as the notice of a timeout, has gone or has failed.
DisconnectWaits == [][TakesDisconnect => io["Write"] = 0]_vars

\* A connection that is being closed, with its idle timer armed, does get
\* closed, whatever is left on the queue and however silent the peer is.
EventuallyDisconnected ==
    (state = "PendingDisconnect" /\ timer) ~> shut

=============================================================================
