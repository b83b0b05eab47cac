--------------------------- MODULE MCTCPConnection ---------------------------
(***************************************************************************)
(* Instances of TCPConnection for TLC: what the deriving classes queue     *)
(* from their callbacks, and the threads beside the strand.                *)
(***************************************************************************)
EXTENDS TCPConnection, TLC

CONSTANTS acceptor, other, finisher

Quiet == [cb \in Callbacks |-> {<<>>}]
Absent == [c \in Callers |-> {<<>>}]

\* What OnConnected queues, on the acceptor's thread, for a session of a server.
Accepted == {<<"Write", "Read">>, <<"Handshake">>}

\* SMTPConnection: the last read of a message queues nothing, the finalization
\* task answers and reads on.
Receiver ==
    [calls |-> [Quiet EXCEPT
        !["Read"] = {<<"Write", "Read">>, <<"Delay", "Write", "Read">>, <<"Write", "Handshake">>,
                     <<"Write", "Disconnect">>, <<"Write">>, <<"Read">>, <<"AddTask">>},
        !["ReadEof"] = {<<>>, <<"Read">>, <<"AddTask">>}, !["ReadError"] = {<<>>, <<"Write">>},
        !["Handshake"] = {<<"Write", "Read">>, <<"Read">>}, !["Timeout"] = {<<"Write">>}],
     queues |-> [Absent EXCEPT ![acceptor] = Accepted, ![finisher] = {<<"Write", "Read">>}],
     ceiling |-> FALSE]

\* IMAPConnection and POP3Connection; other is a session that pushes changes
\* to an idling one.
Server ==
    [calls |-> [Quiet EXCEPT
        !["Read"] = {<<"Write", "Read">>, <<"Delay", "Write", "Read">>, <<"Write", "Handshake">>,
                     <<"Write", "Disconnect">>, <<"Write">>, <<"Read">>},
        !["ReadEof"] = {<<>>, <<"Read">>}, !["ReadError"] = {<<>>, <<"Write">>},
        !["Write"] = {<<>>, <<"Write">>, <<"Write", "Read">>},
        !["Handshake"] = {<<"Write", "Read">>, <<"Read">>}, !["Timeout"] = {<<"Write">>}],
     queues |-> [Absent EXCEPT ![acceptor] = Accepted, ![other] = {<<>>, <<"Write">>}],
     ceiling |-> FALSE]

\* SMTPClientConnection.
Sender ==
    [calls |-> [Quiet EXCEPT
        !["Start"] = {<<"Read">>, <<"Handshake">>},
        !["Read"] = {<<"Write", "Read">>, <<"Handshake">>, <<"Disconnect">>, <<"Write">>},
        !["Write"] = {<<>>, <<"Write">>, <<"Write", "Read">>},
        !["Handshake"] = {<<"Read">>, <<"Write", "Read">>}],
     queues |-> Absent,
     ceiling |-> TRUE]

\* POP3ClientConnection and IMAPClientConnection; other is the thread of
\* ExternalFetch, which gives up on a session that takes too long.  A message
\* is saved by a task, which then asks for the next one or, in the POP3 client,
\* says QUIT without reading on.
Fetcher ==
    [calls |-> [Quiet EXCEPT
        !["Start"] = {<<"Read">>, <<"Handshake">>},
        !["Read"] = {<<"Write", "Read">>, <<"Read">>, <<"Handshake">>, <<"Write", "Disconnect">>,
                     <<"AddTask">>, <<"Disconnect">>},
        !["ReadEof"] = {<<>>, <<"Read">>, <<"AddTask">>},
        !["Handshake"] = {<<"Read">>, <<"Write", "Read">>}, !["Timeout"] = {<<"Write">>}],
     queues |-> [Absent EXCEPT ![other] = {<<"Disconnect">>},
                               ![finisher] = {<<"Write", "Read">>, <<"Write">>}],
     ceiling |-> FALSE]

\* SpamAssassinClient.
Scanner ==
    [calls |-> [Quiet EXCEPT
        !["Start"] = {<<"Write", "Write", "ShutdownSend", "Read">>},
        !["Read"] = {<<"Read">>}, !["ReadEof"] = {<<>>, <<"Read">>}],
     queues |-> Absent,
     ceiling |-> TRUE]

AllClasses == {Receiver, Server, Sender, Fetcher, Scanner}
=============================================================================
