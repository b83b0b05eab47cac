------------------------- MODULE TCPConnectionProofs -------------------------
(***************************************************************************)
(* PopFinds, HandshakeAlone, NothingStranded and DisconnectWaits hold of   *)
(* every TCPConnection: whatever its deriving class queues in its          *)
(* callbacks, however many other threads queue beside it, whatever the     *)
(* peer does and however long the session lasts.                           *)
(*                                                                         *)
(* The argument is about the two counts, ongoing and io.  A step changes   *)
(* them in one of six ways (lemma Effects): it leaves them alone, begins   *)
(* an operation that CanStart let through, enters a callback, ends an      *)
(* operation without one, leaves a callback, or, when the connection is no *)
(* longer open, abandons an operation.  CanStart lets nothing through      *)
(* while anything but a read is ongoing (lemma OnlyReads).                 *)
(***************************************************************************)
EXTENDS TCPConnection, TLAPS

\* The parts of the type invariant.
Flags ==
    /\ profile \in Profiles
    /\ state \in {"Connected", "PendingDisconnect", "Disconnected"}
    /\ shut \in BOOLEAN /\ at \in Callbacks \cup {"idle"} /\ pumping \in BOOLEAN
    /\ handshaking \in BOOLEAN /\ timer \in BOOLEAN /\ ceiling \in BOOLEAN
    /\ pushes \in 0..MaxOps
Lists == profile \in Profiles /\ queue \in Seq(Types) /\ script \in Seq(Calls)
Threads ==
    /\ posted \in Nat /\ caller \in [Callers -> Seq(Types)]
    /\ tested \subseteq {c \in Callers : caller[c] # <<>>}
Counts == ongoing \in [Types -> Nat] /\ io \in [Types -> Nat]

\* A handshake is the only operation ongoing, and no write is beside a pause.
Alone ==
    /\ ongoing["Handshake"] = 1 => \A t \in Types \ {"Handshake"} : ongoing[t] = 0
    /\ ongoing["Delay"] = 1 => ongoing["Write"] = 0

\* On an open connection what is ongoing is outstanding or being handled.
Exact == state = "Connected" => \A t \in Types : ~Handling(t) => ongoing[t] = io[t]

\* The queue of an open connection has been run as far as it goes, except in a
\* callback whose handler will run it.
Waiting ==
    state = "Connected" /\ ~pumping /\ posted = 0 /\ at \in {"idle", "Start", "Timeout"}
        => ~CanStart

IInv == Flags /\ Lists /\ Threads /\ Counts /\ PopFinds /\ Alone /\ Exact /\ Waiting

-----------------------------------------------------------------------------
(* What a step does to the counts.                                          *)

Same == /\ ongoing' = ongoing /\ io' = io
        /\ \A t \in Types : Handling(t)' <=> Handling(t)
Begins(t) == /\ CanStart /\ Head(queue) = t /\ at' = at
             /\ ongoing' = Plus(ongoing, t) /\ io' = Plus(io, t)
Enters(t) == /\ at = "idle" /\ io[t] > 0
             /\ ongoing' = ongoing /\ io' = Minus(io, t)
             /\ \A u \in Types : Handling(u)' <=> u = t
Ends(t) == /\ at = "idle" /\ at' = "idle" /\ io[t] > 0
           /\ ongoing' = Minus(ongoing, t) /\ io' = Minus(io, t)
Leaves(t) == /\ Handling(t) /\ at' = "idle"
             /\ ongoing' = Minus(ongoing, t) /\ io' = io
Abandons(t) == /\ state' # "Connected" /\ at' = "idle" /\ ongoing' = ongoing
               /\ io' = io \/ (io[t] > 0 /\ io' = Minus(io, t))

Effect == Same \/ \E t \in Types : Begins(t) \/ Enters(t) \/ Ends(t) \/ Leaves(t) \/ Abandons(t)

StaysClosed == state' = "Connected" => state = "Connected"

\* The six operations.
LEMMA Members ==
    /\ "Read" \in Types /\ "Write" \in Types /\ "Handshake" \in Types /\ "Delay" \in Types
    /\ "ShutdownSend" \in Types /\ "Disconnect" \in Types
BY Zenon DEF Types

\* What a callback does are calls, what another thread queues are operations.
LEMMA CallsTyped ==
    ASSUME profile \in Profiles
    PROVE  /\ \A cb \in Callbacks : profile.calls[cb] \subseteq Seq(Calls)
           /\ \A c \in Callers : profile.queues[c] \subseteq Seq(Types)
BY ConnectionAssumption, Zenon

\* Lists of operations stay lists of operations.
LEMMA SeqTyped ==
    ASSUME NEW q \in Seq(Types), NEW t \in Types
    PROVE  /\ Append(q, t) \in Seq(Types)
           /\ q # <<>> => Head(q) \in Types /\ Tail(q) \in Seq(Types)
OBVIOUS

\* A script stays one, and all it calls but AddTask is an operation.
LEMMA ScriptTyped ==
    ASSUME script \in Seq(Calls), script # <<>>
    PROVE  Tail(script) \in Seq(Calls) /\ (Head(script) # "AddTask" => Head(script) \in Types)
<1>1. Tail(script) \in Seq(Calls) /\ Head(script) \in Calls
  OBVIOUS
<1> QED BY <1>1, Zenon DEF Calls

\* IOOperationQueue::Front starts nothing beside anything but a read, and
\* beside a read neither a read nor a handshake.
LEMMA OnlyReads ==
    ASSUME Counts, CanStart
    PROVE  /\ \A t \in Types : t # "Read" => ongoing[t] = 0
           /\ Head(queue) \in {"Read", "Handshake"} => ongoing["Read"] = 0
BY Members DEF Counts, CanStart, Blocks

\* No step opens a connection again.
LEMMA FlagsStep == ASSUME Flags, Next PROVE Flags' /\ StaysClosed
<1> USE ConnectionAssumption DEF Flags, StaysClosed, Callbacks, strand_vars, timers, others
<1>1. CASE QueueWaits
  BY <1>1, Zenon DEF QueueWaits
<1>2. CASE AsyncRead
  BY <1>2, Zenon DEF AsyncRead, Starts
<1>3. CASE AsyncWrite
  BY <1>3, Zenon DEF AsyncWrite, Starts
<1>4. CASE AsyncDelay
  BY <1>4, Zenon DEF AsyncDelay, Starts
<1>5. CASE AsyncHandshake
  BY <1>5, Zenon DEF AsyncHandshake, Starts, EnqueueDisconnect
<1>6. CASE ShutdownOrDisconnect
  BY <1>6, Zenon DEF ShutdownOrDisconnect, Starts, Disconnect
<1>7. CASE AsyncReadCompleted
  BY <1>7, Zenon DEF AsyncReadCompleted, Free, Callback
<1>8. CASE InflateFails
  BY <1>8, Zenon DEF InflateFails, Free, EnqueueDisconnect
<1>9. CASE AsyncWriteCompleted
  BY <1>9, Zenon DEF AsyncWriteCompleted, Free, EnqueueDisconnect, Callback
<1>10. CASE AsyncHandshakeCompleted
  BY <1>10, Zenon DEF AsyncHandshakeCompleted, Free, EnqueueDisconnect, Callback
<1>11. CASE AsyncDelayCompleted
  BY <1>11, Zenon DEF AsyncDelayCompleted, Free
<1>12. CASE RunPosted
  BY <1>12, Zenon DEF RunPosted, Free
<1>13. CASE Timeout
  BY <1>13, Zenon DEF Timeout, Free, Disconnect, Callback
<1>14. CASE OnSessionCeilingReached
  BY <1>14, Zenon DEF OnSessionCeilingReached, Free, Disconnect
<1>15. CASE Enqueue
  BY <1>15 DEF Enqueue, InCallback
<1>16. CASE CallDisconnect
  BY <1>16, Zenon DEF CallDisconnect, InCallback, EnqueueDisconnect
<1>17. CASE ThrowDisconnected
  BY <1>17, Zenon DEF ThrowDisconnected, InCallback
<1>18. CASE ThrowOther
  BY <1>18, Zenon DEF ThrowOther, InCallback, EnqueueDisconnect
<1>19. CASE Return
  BY <1>19, Zenon DEF Return, InCallback, EnqueueDisconnect
<1>20. ASSUME NEW c \in Callers, Call(c) PROVE Flags' /\ StaysClosed
  BY <1>20, Zenon DEF Call
<1>21. ASSUME NEW c \in Callers, Push(c) PROVE Flags' /\ StaysClosed
  BY <1>21, Zenon DEF Push
<1>22. CASE AddTask
  BY <1>22 DEF AddTask, InCallback
<1> QED
  BY <1>1, <1>2, <1>3, <1>4, <1>5, <1>6, <1>7, <1>8, <1>9, <1>10, <1>11, <1>12, <1>13,
     <1>14, <1>15, <1>16, <1>17, <1>18, <1>19, <1>20, <1>21, <1>22 DEF Next,
     ProcessOperationQueue, Peer, Class

\* The queue and the scripts hold operations only.
LEMMA ListsStep == ASSUME Lists, Threads, Next PROVE Lists'
<1> USE Members, SeqTyped, ScriptTyped, CallsTyped DEF Lists, Threads, Callbacks, CanStart, strand_vars, timers, others
<1>1. CASE QueueWaits
  BY <1>1, Zenon DEF QueueWaits
<1>2. CASE AsyncRead
  BY <1>2, Zenon DEF AsyncRead, Starts
<1>3. CASE AsyncWrite
  BY <1>3, Zenon DEF AsyncWrite, Starts
<1>4. CASE AsyncDelay
  BY <1>4, Zenon DEF AsyncDelay, Starts
<1>5. CASE AsyncHandshake
  BY <1>5, Zenon DEF AsyncHandshake, Starts, EnqueueDisconnect
<1>6. CASE ShutdownOrDisconnect
  BY <1>6, Zenon DEF ShutdownOrDisconnect, Starts, Disconnect
<1>7. CASE AsyncReadCompleted
  BY <1>7, Zenon DEF AsyncReadCompleted, Free, Callback
<1>8. CASE InflateFails
  BY <1>8, Zenon DEF InflateFails, Free, EnqueueDisconnect
<1>9. CASE AsyncWriteCompleted
  BY <1>9, Zenon DEF AsyncWriteCompleted, Free, EnqueueDisconnect, Callback
<1>10. CASE AsyncHandshakeCompleted
  BY <1>10, Zenon DEF AsyncHandshakeCompleted, Free, EnqueueDisconnect, Callback
<1>11. CASE AsyncDelayCompleted
  BY <1>11, Zenon DEF AsyncDelayCompleted, Free
<1>12. CASE RunPosted
  BY <1>12, Zenon DEF RunPosted, Free
<1>13. CASE Timeout
  BY <1>13, Zenon DEF Timeout, Free, Disconnect, Callback
<1>14. CASE OnSessionCeilingReached
  BY <1>14, Zenon DEF OnSessionCeilingReached, Free, Disconnect
<1>15. CASE Enqueue
  BY <1>15, Zenon DEF Enqueue, InCallback
<1>16. CASE CallDisconnect
  BY <1>16, Zenon DEF CallDisconnect, InCallback, EnqueueDisconnect
<1>17. CASE ThrowDisconnected
  BY <1>17 DEF ThrowDisconnected, InCallback
<1>18. CASE ThrowOther
  BY <1>18 DEF ThrowOther, InCallback, EnqueueDisconnect
<1>19. CASE Return
  <2>1. queue' \in Seq(Types)
    BY <1>19, Zenon DEF Return, EnqueueDisconnect
  <2> QED BY <1>19, <2>1 DEF Return
<1>20. ASSUME NEW c \in Callers, Call(c) PROVE Lists'
  BY <1>20, Zenon DEF Call
<1>21. ASSUME NEW c \in Callers, Push(c) PROVE Lists'
  BY <1>21, Zenon DEF Push
<1>22. CASE AddTask
  BY <1>22, Zenon DEF AddTask, InCallback
<1> QED
  BY <1>1, <1>2, <1>3, <1>4, <1>5, <1>6, <1>7, <1>8, <1>9, <1>10, <1>11, <1>12, <1>13,
     <1>14, <1>15, <1>16, <1>17, <1>18, <1>19, <1>20, <1>21, <1>22, Zenon DEF Next,
     ProcessOperationQueue, Peer, Class

\* A thread that has tested the state still has something to queue.
LEMMA ThreadsStep == ASSUME Lists, Threads, Next PROVE Threads'
<1> USE SeqTyped DEF Threads, strand_vars, timers, others
<1>1. CASE QueueWaits
  BY <1>1, Zenon DEF QueueWaits
<1>2. CASE AsyncRead
  BY <1>2, Zenon DEF AsyncRead, Starts
<1>3. CASE AsyncWrite
  BY <1>3, Zenon DEF AsyncWrite, Starts
<1>4. CASE AsyncDelay
  BY <1>4, Zenon DEF AsyncDelay, Starts
<1>5. CASE AsyncHandshake
  BY <1>5, Zenon DEF AsyncHandshake, Starts, EnqueueDisconnect
<1>6. CASE ShutdownOrDisconnect
  BY <1>6, Zenon DEF ShutdownOrDisconnect, Starts, Disconnect
<1>7. CASE AsyncReadCompleted
  BY <1>7, Zenon DEF AsyncReadCompleted, Free, Callback
<1>8. CASE InflateFails
  BY <1>8, Zenon DEF InflateFails, Free, EnqueueDisconnect
<1>9. CASE AsyncWriteCompleted
  BY <1>9, Zenon DEF AsyncWriteCompleted, Free, EnqueueDisconnect, Callback
<1>10. CASE AsyncHandshakeCompleted
  BY <1>10, Zenon DEF AsyncHandshakeCompleted, Free, EnqueueDisconnect, Callback
<1>11. CASE AsyncDelayCompleted
  BY <1>11, Zenon DEF AsyncDelayCompleted, Free
<1>12. CASE RunPosted
  BY <1>12 DEF RunPosted, Free
<1>13. CASE Timeout
  BY <1>13, Zenon DEF Timeout, Free, Disconnect, Callback
<1>14. CASE OnSessionCeilingReached
  BY <1>14, Zenon DEF OnSessionCeilingReached, Free, Disconnect
<1>15. CASE Enqueue
  BY <1>15, Zenon DEF Enqueue, InCallback
<1>16. CASE CallDisconnect
  BY <1>16, Zenon DEF CallDisconnect, InCallback, EnqueueDisconnect
<1>17. CASE ThrowDisconnected
  BY <1>17, Zenon DEF ThrowDisconnected, InCallback
<1>18. CASE ThrowOther
  BY <1>18, Zenon DEF ThrowOther, InCallback, EnqueueDisconnect
<1>19. CASE Return
  BY <1>19, Zenon DEF Return, InCallback, EnqueueDisconnect
<1>20. ASSUME NEW c \in Callers, Call(c) PROVE Threads'
  <2>1. CASE state = "Connected"
    BY <1>20, <2>1, Zenon DEF Call
  <2>2. CASE state # "Connected"
    <3>1. caller' = [caller EXCEPT ![c] = <<>>] /\ tested' = tested /\ posted' = posted /\ c \notin tested
      BY <1>20, <2>2, Zenon DEF Call
    <3>2. caller' \in [Callers -> Seq(Types)]
      BY <3>1
    <3>3. \A d \in tested : d \in Callers /\ caller'[d] # <<>>
      BY <3>1, Zenon
    <3> QED BY <3>1, <3>2, <3>3, Zenon
  <2> QED BY <2>1, <2>2, Zenon
<1>21. ASSUME NEW c \in Callers, Push(c) PROVE Threads'
  BY <1>21 DEF Push
<1>22. CASE AddTask
  <2>1. PICK s \in profile.queues[Finisher] : caller' = [caller EXCEPT ![Finisher] = @ \o s]
    BY <1>22, Zenon DEF AddTask
  <2>2. s \in Seq(Types) /\ Finisher \in Callers
    BY CallsTyped, ConnectionAssumption, Zenon DEF Lists
  <2>3. \A q \in Seq(Types) : q \o s \in Seq(Types) /\ (q # <<>> => q \o s # <<>>)
    BY <2>2
  <2>4. caller' \in [Callers -> Seq(Types)]
    BY <2>1, <2>2, <2>3, Zenon
  <2>5. \A c \in Callers : caller[c] # <<>> => caller'[c] # <<>>
    BY <2>1, <2>2, <2>3, Zenon
  <2> QED BY <1>22, <2>4, <2>5, Zenon DEF AddTask
<1> QED
  BY <1>1, <1>2, <1>3, <1>4, <1>5, <1>6, <1>7, <1>8, <1>9, <1>10, <1>11, <1>12, <1>13,
     <1>14, <1>15, <1>16, <1>17, <1>18, <1>19, <1>20, <1>21, <1>22, Zenon DEF Next,
     ProcessOperationQueue, Peer, Class

\* Every handler, callback and thread has one of the six effects.
LEMMA Effects == ASSUME Lists, Next PROVE Effect
<1> USE Members DEF Effect, Same, Handling, strand_vars, timers, others
<1>1. CASE QueueWaits
  BY <1>1, Zenon DEF QueueWaits
<1>2. CASE AsyncRead
  <2>1. Begins("Read")
    BY <1>2, Zenon DEF AsyncRead, Starts, Begins
  <2> QED BY <2>1, Zenon
<1>3. CASE AsyncWrite
  <2>1. Begins("Write")
    BY <1>3, Zenon DEF AsyncWrite, Starts, Begins
  <2> QED BY <2>1, Zenon
<1>4. CASE AsyncDelay
  <2>1. Begins("Delay")
    BY <1>4, Zenon DEF AsyncDelay, Starts, Begins
  <2> QED BY <2>1, Zenon
<1>5. CASE AsyncHandshake
  <2>1. Begins("Handshake") \/ Same
    BY <1>5, Zenon DEF AsyncHandshake, Starts, EnqueueDisconnect, Begins
  <2> QED BY <2>1, Zenon
<1>6. CASE ShutdownOrDisconnect
  BY <1>6, Zenon DEF ShutdownOrDisconnect, Starts, Disconnect
<1>7. CASE AsyncReadCompleted
  <2>1. Enters("Read") \/ Ends("Read")
    BY <1>7, Zenon DEF AsyncReadCompleted, Free, Callback, Ends, Enters
  <2> QED BY <2>1, Zenon
<1>8. CASE InflateFails
  <2>1. Ends("Read")
    BY <1>8, Zenon DEF InflateFails, Free, EnqueueDisconnect, Ends
  <2> QED BY <2>1, Zenon
<1>9. CASE AsyncWriteCompleted
  <2>1. Enters("Write") \/ Ends("Write") \/ Abandons("Write")
    BY <1>9, Zenon DEF AsyncWriteCompleted, Free, EnqueueDisconnect, Callback, Abandons, Ends, Enters
  <2> QED BY <2>1, Zenon
<1>10. CASE AsyncHandshakeCompleted
  <2>1. Enters("Handshake") \/ Ends("Handshake")
    BY <1>10, Zenon DEF AsyncHandshakeCompleted, Free, EnqueueDisconnect, Callback, Ends, Enters
  <2> QED BY <2>1, Zenon
<1>11. CASE AsyncDelayCompleted
  <2>1. Ends("Delay")
    BY <1>11, Zenon DEF AsyncDelayCompleted, Free, Ends
  <2> QED BY <2>1, Zenon
<1>12. CASE RunPosted
  BY <1>12, Zenon DEF RunPosted, Free
<1>13. CASE Timeout
  BY <1>13, Zenon DEF Timeout, Free, Disconnect, Callback
<1>14. CASE OnSessionCeilingReached
  BY <1>14, Zenon DEF OnSessionCeilingReached, Free, Disconnect
<1>15. CASE Enqueue
  BY <1>15, Zenon DEF Enqueue, InCallback
<1>16. CASE CallDisconnect
  BY <1>16, Zenon DEF CallDisconnect, InCallback, EnqueueDisconnect
<1>17. CASE ThrowDisconnected
  <2>1. CASE at \in {"Read", "ReadEof"}
    <3>1. Leaves("Read")
      BY <1>17, <2>1, Zenon DEF ThrowDisconnected, InCallback, Leaves
    <3> QED BY <3>1, Zenon
  <2>2. CASE at \notin {"Read", "ReadEof"}
    <3>1. Abandons("Read")
      BY <1>17, <2>2, Zenon DEF ThrowDisconnected, InCallback, Abandons
    <3> QED BY <3>1, Zenon
  <2> QED BY <2>1, <2>2, Zenon
<1>18. CASE ThrowOther
  <2>1. Leaves("Read")
    BY <1>18, Zenon DEF ThrowOther, InCallback, EnqueueDisconnect, Leaves
  <2> QED BY <2>1, Zenon
<1>19. CASE Return
  <2>1. CASE at \in {"Read", "ReadEof", "ReadError"}
    <3>1. Leaves("Read")
      BY <1>19, <2>1, Zenon DEF Return, InCallback, Leaves
    <3> QED BY <3>1, Zenon
  <2>2. CASE at \in {"Write", "Handshake"}
    <3>1. Leaves(at)
      BY <1>19, <2>2, Zenon DEF Return, InCallback, Leaves
    <3> QED BY <2>2, <3>1, Zenon
  <2>3. CASE at \notin {"Read", "ReadEof", "ReadError", "Write", "Handshake"}
    BY <1>19, <2>3, Zenon DEF Return, InCallback
  <2> QED BY <2>1, <2>2, <2>3, Zenon
<1>20. ASSUME NEW c \in Callers, Call(c) PROVE Effect
  BY <1>20, Zenon DEF Call
<1>21. ASSUME NEW c \in Callers, Push(c) PROVE Effect
  BY <1>21, Zenon DEF Push
<1>22. CASE AddTask
  BY <1>22, Zenon DEF AddTask, InCallback
<1> QED
  BY <1>1, <1>2, <1>3, <1>4, <1>5, <1>6, <1>7, <1>8, <1>9, <1>10, <1>11, <1>12, <1>13,
     <1>14, <1>15, <1>16, <1>17, <1>18, <1>19, <1>20, <1>21, <1>22, Zenon DEF Next,
     ProcessOperationQueue, Peer, Class

-----------------------------------------------------------------------------
(* The invariant is kept.                                                   *)

\* The counts do not fall below zero.
LEMMA CountsStep == ASSUME Counts, PopFinds, Effect PROVE Counts'
<1> USE DEF Counts, PopFinds, Plus, Minus
<1>1. CASE Same
  BY <1>1, Zenon DEF Same
<1>2. ASSUME NEW t \in Types, Begins(t) PROVE Counts'
  BY <1>2, OnlyReads DEF Begins
<1>3. ASSUME NEW t \in Types, Enters(t) PROVE Counts'
  BY <1>3 DEF Enters
<1>4. ASSUME NEW t \in Types, Ends(t) PROVE Counts'
  BY <1>4 DEF Ends
<1>5. ASSUME NEW t \in Types, Leaves(t) PROVE Counts'
  BY <1>5 DEF Leaves
<1>6. ASSUME NEW t \in Types, Abandons(t) PROVE Counts'
  BY <1>6 DEF Abandons
<1> QED BY <1>1, <1>2, <1>3, <1>4, <1>5, <1>6, Zenon DEF Effect

\* Each effect keeps PopFinds.
LEMMA PopStep == ASSUME Counts, PopFinds, Effect PROVE PopFinds'
<1> USE DEF Counts, PopFinds, Plus, Minus, Handling
<1>1. CASE Same
  BY <1>1, Zenon DEF Same
<1>2. ASSUME NEW t \in Types, Begins(t) PROVE PopFinds'
  BY <1>2, OnlyReads DEF Begins
<1>3. ASSUME NEW t \in Types, Enters(t) PROVE PopFinds'
  BY <1>3 DEF Enters
<1>4. ASSUME NEW t \in Types, Ends(t) PROVE PopFinds'
  BY <1>4 DEF Ends
<1>5. ASSUME NEW t \in Types, Leaves(t) PROVE PopFinds'
  BY <1>5 DEF Leaves
<1>6. ASSUME NEW t \in Types, Abandons(t) PROVE PopFinds'
  BY <1>6 DEF Abandons
<1> QED BY <1>1, <1>2, <1>3, <1>4, <1>5, <1>6, Zenon DEF Effect

\* Each effect keeps a handshake alone; only Begins can disturb it.
LEMMA AloneStep == ASSUME Counts, PopFinds, Alone, Effect PROVE Alone'
<1> USE Members DEF Counts, PopFinds, Alone, Plus, Minus
<1>1. CASE Same
  BY <1>1, Zenon DEF Same
<1>2. ASSUME NEW t \in Types, Begins(t) PROVE Alone'
  BY <1>2, OnlyReads DEF Begins
<1>3. ASSUME NEW t \in Types, Enters(t) PROVE Alone'
  BY <1>3, Zenon DEF Enters
<1>4. ASSUME NEW t \in Types, Ends(t) PROVE Alone'
  BY <1>4 DEF Ends
<1>5. ASSUME NEW t \in Types, Leaves(t) PROVE Alone'
  BY <1>5 DEF Leaves
<1>6. ASSUME NEW t \in Types, Abandons(t) PROVE Alone'
  BY <1>6, Zenon DEF Abandons
<1> QED BY <1>1, <1>2, <1>3, <1>4, <1>5, <1>6, Zenon DEF Effect

\* Each effect keeps the list exact as long as the connection is open.
LEMMA ExactStep == ASSUME Counts, PopFinds, Exact, StaysClosed, Effect PROVE Exact'
<1> USE DEF Counts, PopFinds, Exact, StaysClosed, Plus, Minus, Handling
<1>1. CASE Same
  BY <1>1, Zenon DEF Same
<1>2. ASSUME NEW t \in Types, Begins(t) PROVE Exact'
  BY <1>2, OnlyReads, Zenon DEF Begins
<1>3. ASSUME NEW t \in Types, Enters(t) PROVE Exact'
  BY <1>3, Zenon DEF Enters
<1>4. ASSUME NEW t \in Types, Ends(t) PROVE Exact'
  BY <1>4, Zenon DEF Ends
<1>5. ASSUME NEW t \in Types, Leaves(t) PROVE Exact'
  BY <1>5 DEF Leaves
<1>6. ASSUME NEW t \in Types, Abandons(t) PROVE Exact'
  BY <1>6, Zenon DEF Abandons
<1> QED BY <1>1, <1>2, <1>3, <1>4, <1>5, <1>6, Zenon DEF Effect

\* Whoever leaves the queue behind has run it, or somebody will.
LEMMA WaitingStep == ASSUME Lists, Threads, Counts, Waiting, Next PROVE Waiting'
<1> USE Members DEF Waiting, CanStart, Blocks, Counts, Plus, strand_vars, timers, others
<1>1. CASE QueueWaits
  BY <1>1, Zenon DEF QueueWaits
<1>2. CASE AsyncRead
  BY <1>2, Zenon DEF AsyncRead, Starts
<1>3. CASE AsyncWrite
  <2>1. ongoing'["Write"] > 0
    BY <1>3 DEF AsyncWrite
  <2> QED BY <2>1, Zenon
<1>4. CASE AsyncDelay
  <2>1. ongoing'["Delay"] > 0
    BY <1>4 DEF AsyncDelay
  <2> QED BY <2>1, Zenon
<1>5. CASE AsyncHandshake
  <2>1. ongoing'["Handshake"] > 0 \/ state' # "Connected"
    BY <1>5 DEF AsyncHandshake, EnqueueDisconnect
  <2> QED BY <2>1, Zenon
<1>6. CASE ShutdownOrDisconnect
  BY <1>6, Zenon DEF ShutdownOrDisconnect, Starts, Disconnect
<1>7. CASE AsyncReadCompleted
  BY <1>7, Zenon DEF AsyncReadCompleted, Free, Callback
<1>8. CASE InflateFails
  BY <1>8, Zenon DEF InflateFails, Free, EnqueueDisconnect
<1>9. CASE AsyncWriteCompleted
  BY <1>9, Zenon DEF AsyncWriteCompleted, Free, EnqueueDisconnect, Callback
<1>10. CASE AsyncHandshakeCompleted
  BY <1>10, Zenon DEF AsyncHandshakeCompleted, Free, EnqueueDisconnect, Callback
<1>11. CASE AsyncDelayCompleted
  BY <1>11, Zenon DEF AsyncDelayCompleted, Free
<1>12. CASE RunPosted
  BY <1>12, Zenon DEF RunPosted, Free
<1>13. CASE Timeout
  BY <1>13, Zenon DEF Timeout, Free, Disconnect, Callback
<1>14. CASE OnSessionCeilingReached
  BY <1>14, Zenon DEF OnSessionCeilingReached, Free, Disconnect
<1>15. CASE Enqueue
  BY <1>15, Zenon DEF Enqueue, InCallback
<1>16. CASE CallDisconnect
  BY <1>16, Zenon DEF CallDisconnect, InCallback, EnqueueDisconnect
<1>17. CASE ThrowDisconnected
  BY <1>17, Zenon DEF ThrowDisconnected, InCallback
<1>18. CASE ThrowOther
  BY <1>18, Zenon DEF ThrowOther, InCallback, EnqueueDisconnect
<1>19. CASE Return
  BY <1>19, Zenon DEF Return, InCallback, EnqueueDisconnect
<1>20. ASSUME NEW c \in Callers, Call(c) PROVE Waiting'
  BY <1>20, Zenon DEF Call
<1>21. ASSUME NEW c \in Callers, Push(c) PROVE Waiting'
  BY <1>21 DEF Push, Threads
<1>22. CASE AddTask
  BY <1>22, Zenon DEF AddTask, InCallback
<1> QED
  BY <1>1, <1>2, <1>3, <1>4, <1>5, <1>6, <1>7, <1>8, <1>9, <1>10, <1>11, <1>12, <1>13,
     <1>14, <1>15, <1>16, <1>17, <1>18, <1>19, <1>20, <1>21, <1>22, Zenon DEF Next,
     ProcessOperationQueue, Peer, Class

\* The invariant holds of a connection that was just made or accepted.
LEMMA InitInv == ASSUME Init PROVE IInv
<1> USE Members DEF Init
<1>1. Lists
  BY CallsTyped DEF Lists, Callbacks
<1>2. Flags
  <2>1. profile.ceiling \in BOOLEAN
    BY ConnectionAssumption, Zenon
  <2>2. ceiling \in BOOLEAN
    BY <2>1, Zenon
  <2>3. shut \in BOOLEAN /\ pumping \in BOOLEAN /\ handshaking \in BOOLEAN /\ timer \in BOOLEAN
    OBVIOUS
  <2>4. profile \in Profiles /\ state \in {"Connected"} /\ pushes \in 0..MaxOps
    BY ConnectionAssumption
  <2>5. at \in Callbacks \cup {"idle"}
    BY Zenon DEF Callbacks
  <2> QED BY <2>2, <2>3, <2>4, <2>5, Zenon DEF Flags
<1>3. Threads
  <2>1. <<>> \in Seq(Types)
    OBVIOUS
  <2>2. \A c \in Callers : caller[c] \in Seq(Types)
    BY <2>1, CallsTyped, Zenon
  <2> QED BY <2>2, Zenon DEF Threads
<1>4. Counts /\ PopFinds /\ Alone /\ Exact
  <2>1. at \in {"idle", "Start"}
    OBVIOUS
  <2>2. Counts
    BY Zenon DEF Counts
  <2>3. PopFinds
    BY <2>1 DEF PopFinds, Handling
  <2>4. Alone /\ Exact
    BY Zenon DEF Alone, Exact
  <2> QED BY <2>2, <2>3, <2>4, Zenon
<1>5. Waiting
  BY Zenon DEF Waiting, CanStart
<1> QED BY <1>1, <1>2, <1>3, <1>4, <1>5, Zenon DEF IInv

\* Every step keeps the invariant.
LEMMA StepInv == ASSUME IInv, [Next]_vars PROVE IInv'
<1>1. CASE Next
  BY <1>1, Effects, FlagsStep, ListsStep, ThreadsStep, CountsStep, PopStep, AloneStep, ExactStep,
     WaitingStep, Zenon DEF IInv
<1>2. CASE UNCHANGED vars
  BY <1>2 DEF IInv, Flags, Lists, Threads, Counts, PopFinds, Alone, Exact, Waiting, Handling,
     CanStart, vars, strand_vars, timers, others
<1> QED BY <1>1, <1>2, Zenon

\* The invariant always holds.
LEMMA Invariance == Spec => []IInv
BY InitInv, StepInv, PTL DEF Spec

-----------------------------------------------------------------------------
(* The theorems.                                                            *)

\* Every variable of the connection keeps its type; in particular no handler
\* takes an operation off the list of ongoing operations that is not on it.
THEOREM ConnectionTypes == Spec => []ConnectionTypeOK
<1>1. IInv => ConnectionTypeOK
  BY Zenon DEF IInv, Flags, Lists, Threads, Counts, ConnectionTypeOK
<1> QED BY <1>1, Invariance, PTL

\* IOOperationQueue::Pop finds what it is to remove, in every handler and on
\* every error path, for any deriving class and any number of threads.
THEOREM PopAlwaysFinds == Spec => []PopFinds
<1>1. IInv => PopFinds
  BY Zenon DEF IInv
<1> QED BY <1>1, Invariance, PTL

\* A handshake is alone on the wire, and nothing is sent during a pause.
THEOREM HandshakesAreAlone == Spec => []HandshakeAlone
<1>1. IInv => HandshakeAlone
  <2> SUFFICES ASSUME IInv PROVE HandshakeAlone
    OBVIOUS
  <2>1. \A t \in Types : ongoing[t] \in Nat /\ io[t] \in Nat /\ ongoing[t] <= 1 /\ io[t] <= ongoing[t]
    BY Zenon DEF IInv, Counts, PopFinds
  <2> QED BY <2>1, Members DEF IInv, Alone, HandshakeAlone
<1> QED BY <1>1, Invariance, PTL

\* What is queued on an open connection waits for I/O that is under way.
THEOREM NothingIsStranded == Spec => []NothingStranded
<1>1. IInv => NothingStranded
  <2> SUFFICES ASSUME IInv, Free, posted = 0, state = "Connected", queue # <<>>
               PROVE  \E t \in Types : io[t] > 0 /\ Blocks(t, Head(queue))
    BY Zenon DEF NothingStranded
  <2>1. ~CanStart
    BY Zenon DEF IInv, Waiting, Free
  <2>2. PICK t \in Types : ongoing[t] > 0 /\ Blocks(t, Head(queue))
    BY <2>1, Zenon DEF CanStart
  <2>3. ongoing[t] = io[t]
    BY Zenon DEF IInv, Exact, Handling, Free
  <2> QED BY <2>2, <2>3, Zenon
<1> QED BY <1>1, Invariance, PTL

\* A queue from which one was taken is neither the queue nor one that has grown.
LEMMA TailDiffers ==
    ASSUME NEW q \in Seq(Types), q # <<>>, NEW t \in Types
    PROVE  Tail(q) # q /\ Append(q, t) # Tail(q)
<1>1. Len(Tail(q)) # Len(q) /\ Len(Append(q, t)) # Len(Tail(q))
  OBVIOUS
<1> QED BY <1>1, Zenon

\* Only Front takes an operation off the queue.
LEMMA TakenByFront == ASSUME Lists, Threads, Next, TakesDisconnect PROVE CanStart
<1> USE Members, TailDiffers, SeqTyped, ScriptTyped DEF Lists, TakesDisconnect, strand_vars, timers, others
<1>1. CASE QueueWaits
  BY <1>1, Zenon DEF QueueWaits
<1>2. CASE AsyncRead
  BY <1>2, Zenon DEF AsyncRead, Starts
<1>3. CASE AsyncWrite
  BY <1>3, Zenon DEF AsyncWrite, Starts
<1>4. CASE AsyncDelay
  BY <1>4, Zenon DEF AsyncDelay, Starts
<1>5. CASE AsyncHandshake
  BY <1>5, Zenon DEF AsyncHandshake, Starts, EnqueueDisconnect
<1>6. CASE ShutdownOrDisconnect
  BY <1>6, Zenon DEF ShutdownOrDisconnect, Starts, Disconnect
<1>7. CASE AsyncReadCompleted
  BY <1>7, Zenon DEF AsyncReadCompleted, Free, Callback
<1>8. CASE InflateFails
  BY <1>8, Zenon DEF InflateFails, Free, EnqueueDisconnect
<1>9. CASE AsyncWriteCompleted
  BY <1>9, Zenon DEF AsyncWriteCompleted, Free, EnqueueDisconnect, Callback
<1>10. CASE AsyncHandshakeCompleted
  BY <1>10, Zenon DEF AsyncHandshakeCompleted, Free, EnqueueDisconnect, Callback
<1>11. CASE AsyncDelayCompleted
  BY <1>11, Zenon DEF AsyncDelayCompleted, Free
<1>12. CASE RunPosted
  BY <1>12, Zenon DEF RunPosted, Free
<1>13. CASE Timeout
  BY <1>13, Zenon DEF Timeout, Free, Disconnect, Callback
<1>14. CASE OnSessionCeilingReached
  BY <1>14, Zenon DEF OnSessionCeilingReached, Free, Disconnect
<1>15. CASE Enqueue
  BY <1>15, Zenon DEF Enqueue, InCallback
<1>16. CASE CallDisconnect
  BY <1>16, Zenon DEF CallDisconnect, InCallback, EnqueueDisconnect
<1>17. CASE ThrowDisconnected
  BY <1>17, Zenon DEF ThrowDisconnected, InCallback
<1>18. CASE ThrowOther
  BY <1>18, Zenon DEF ThrowOther, InCallback, EnqueueDisconnect
<1>19. CASE Return
  BY <1>19, Zenon DEF Return, InCallback, EnqueueDisconnect
<1>20. ASSUME NEW c \in Callers, Call(c) PROVE CanStart
  BY <1>20, Zenon DEF Call
<1>21. ASSUME NEW c \in Callers, Push(c) PROVE CanStart
  BY <1>21 DEF Push
<1>22. CASE AddTask
  BY <1>22, Zenon DEF AddTask, InCallback
<1> QED
  BY <1>1, <1>2, <1>3, <1>4, <1>5, <1>6, <1>7, <1>8, <1>9, <1>10, <1>11, <1>12, <1>13,
     <1>14, <1>15, <1>16, <1>17, <1>18, <1>19, <1>20, <1>21, <1>22 DEF Next,
     ProcessOperationQueue, Peer, Class

\* A disconnect that is taken from the queue has no write outstanding.
THEOREM DisconnectsWait == Spec => DisconnectWaits
<1>1. IInv /\ [Next]_vars => [TakesDisconnect => io["Write"] = 0]_vars
  <2> SUFFICES ASSUME IInv, Next, TakesDisconnect PROVE io["Write"] = 0
    OBVIOUS
  <2>1. ongoing["Write"] = 0
    BY TakenByFront, OnlyReads, Members, Zenon DEF IInv
  <2>2. io["Write"] \in Nat /\ io["Write"] <= ongoing["Write"]
    BY Members, Zenon DEF IInv, Counts, PopFinds
  <2> QED BY <2>1, <2>2
<1> QED BY <1>1, Invariance, PTL DEF Spec, DisconnectWaits
====
