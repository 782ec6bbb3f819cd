--------------------------- MODULE TcpServerStream ---------------------------
(***************************************************************************)
(* mjlib/io/stream_factory_tcp_server.cc and the other factories of        *)
(* mjlib/io/stream_factory.cc: a stream is created, which takes its time,  *)
(* and the server's one survives the loss of its client: a read or write   *)
(* waits for the next one.                                                 *)
(*                                                                         *)
(* External: the sockets, the clients that connect and go, the user.       *)
(***************************************************************************)
EXTENDS Naturals, Sequences, FiniteSets

CONSTANTS
  MaxClients,  \* bound: connections
  MaxOps       \* bound: operations of the user

\* Parameters::Type
Types == {"kStdio", "kSerial", "kTcpClient", "kTcpServer", "kPipe"}

VARIABLES
  type,        \* parameters_.type
  creating,    \* how far the creation is
  answered,    \* calls of its StreamHandler
  accepting,   \* async_accept is outstanding
  started, connected,   \* started_, connected_
  queued,      \* read_queued_ and write_queued_, as a set
  onSocket,    \* operations the socket has
  handlers,    \* handlers the user waits for
  posted,      \* handlers posted to the executor
  client,      \* the client of the socket: "none", "here", "gone"
  clients, ops

tcpVars == <<accepting, started, connected, queued, onSocket, handlers,
             posted, client, clients, ops>>
vars == <<type, creating, answered, tcpVars>>

Operations == {"read", "write"}

Init ==
  /\ type \in Types /\ creating = "no" /\ answered = 0
  /\ accepting = FALSE /\ started = FALSE /\ connected = FALSE
  /\ queued = {} /\ onSocket = {} /\ handlers = {} /\ posted = <<>>
  /\ client = "none" /\ clients = 0 /\ ops = 0

-----------------------------------------------------------------------------
(* StreamFactory::AsyncCreate *)

\* kStdio, kPipe and kSerial post the handler, the last with the error of
\* Open if there is one; kTcpClient resolves, kTcpServer accepts.
AsyncCreate ==
  /\ creating = "no"
  /\ creating' = CASE type \in {"kStdio", "kPipe", "kSerial"} -> "posted"
                   [] type = "kTcpClient" -> "resolving"
                   [] type = "kTcpServer" -> "accepting"
  /\ accepting' = (accepting \/ type = "kTcpServer")
  /\ UNCHANGED <<type, answered, started, connected, queued, onSocket, handlers,
                 posted, client, clients, ops>>

\* TcpStream::HandleResolve: an error is the answer.
HandleResolve(ec) ==
  /\ creating = "resolving"
  /\ creating' = IF ec = "ok" THEN "connecting" ELSE "posted"
  /\ UNCHANGED <<type, answered, tcpVars>>

HandleConnect ==
  /\ creating = "connecting"
  /\ creating' = "posted"
  /\ UNCHANGED <<type, answered, tcpVars>>

RunStreamHandler ==
  /\ creating = "posted"
  /\ creating' = "yes"
  /\ answered' = answered + 1
  /\ UNCHANGED <<type, tcpVars>>

-----------------------------------------------------------------------------
(* TcpServerStream *)

\* async_read_some and async_write_some of the user.
Begin(op) ==
  /\ type = "kTcpServer" /\ creating = "yes"
  /\ op \notin handlers /\ ops < MaxOps
  /\ ops' = ops + 1
  /\ handlers' = handlers \cup {op}
  /\ IF connected THEN onSocket' = onSocket \cup {op} /\ UNCHANGED queued
     ELSE queued' = queued \cup {op} /\ UNCHANGED onSocket
  /\ UNCHANGED <<type, creating, answered, accepting, started, connected, posted,
                 client, clients>>

\* A client connects: what is queued is given to the socket.  Left out: an
\* accept that fails, after which the stream takes itself for connected.
HandleAccept ==
  /\ accepting /\ clients < MaxClients
  /\ clients' = clients + 1
  /\ accepting' = FALSE /\ client' = "here"
  /\ started' = TRUE /\ connected' = TRUE
  /\ creating' = IF started THEN creating ELSE "posted"
  /\ queued' = {} /\ onSocket' = onSocket \cup queued
  /\ UNCHANGED <<type, answered, handlers, posted, ops>>

ClientGoes ==
  /\ client = "here"
  /\ client' = "gone"
  /\ UNCHANGED <<type, creating, answered, accepting, started, connected, queued,
                 onSocket, handlers, posted, clients, ops>>

\* HandleRead or HandleWrite with success or any error but eof: the user is
\* told.  Left out: HandleWrite with eof (142-148), which boost reports of
\* reads only.
Complete(op, ec) ==
  /\ op \in onSocket
  /\ onSocket' = onSocket \ {op}
  /\ posted' = Append(posted, [op |-> op, ec |-> ec])
  /\ UNCHANGED <<type, creating, answered, accepting, started, connected, queued,
                 handlers, client, clients, ops>>

\* Fault: the read is not queued again.
HandleEofForgets ==
  /\ "read" \in onSocket /\ client = "gone"
  /\ connected' = FALSE /\ accepting' = TRUE /\ client' = "none"
  /\ onSocket' = {}
  /\ posted' = posted \o (IF "write" \in onSocket
                          THEN <<[op |-> "write", ec |-> "aborted"]>> ELSE <<>>)
  /\ UNCHANGED <<type, creating, answered, started, queued, handlers, clients, ops>>

\* HandleRead with eof: the read waits for the next client; close() aborts a
\* write.
HandleEof ==
  /\ "read" \in onSocket /\ client = "gone"
  /\ queued' = queued \cup {"read"}
  /\ connected' = FALSE /\ accepting' = TRUE /\ client' = "none"
  /\ onSocket' = {}
  /\ posted' = posted \o (IF "write" \in onSocket
                          THEN <<[op |-> "write", ec |-> "aborted"]>> ELSE <<>>)
  /\ UNCHANGED <<type, creating, answered, started, handlers, clients, ops>>

Aborted(these) ==
  (IF "read" \in these THEN <<[op |-> "read", ec |-> "aborted"]>> ELSE <<>>)
    \o (IF "write" \in these THEN <<[op |-> "write", ec |-> "aborted"]>> ELSE <<>>)

\* The socket's operations are aborted, or those that are queued.
Cancel ==
  /\ started /\ handlers # {}
  /\ posted' = posted \o Aborted(IF connected THEN onSocket ELSE queued)
  /\ onSocket' = IF connected THEN {} ELSE onSocket
  /\ queued' = IF connected THEN queued ELSE {}
  /\ UNCHANGED <<type, creating, answered, accepting, started, connected, handlers,
                 client, clients, ops>>

RunHandler ==
  /\ posted # <<>>
  /\ posted' = Tail(posted)
  /\ handlers' = handlers \ {Head(posted).op}
  /\ UNCHANGED <<type, creating, answered, accepting, started, connected, queued,
                 onSocket, client, clients, ops>>

Next ==
  \/ AsyncCreate
  \/ RunStreamHandler
  \/ \E ec \in {"ok", "error"} : HandleResolve(ec)
  \/ HandleConnect
  \/ \E op \in Operations : Begin(op) \/ (\E ec \in {"ok", "error"} : Complete(op, ec))
  \/ HandleAccept
  \/ ClientGoes
  \/ HandleEof
  \/ Cancel
  \/ RunHandler

Spec == Init /\ [][Next]_vars

-----------------------------------------------------------------------------
PostedOps == {posted[i].op : i \in DOMAIN posted}

\* Every operation of the user is in exactly one place, through the loss of
\* a client, the next one and a cancel, so that its handler is called once;
\* what is queued has somebody to wait for; and each StreamHandler is called
\* at most once.
OperationsKept ==
  /\ queued \cap onSocket = {} /\ (queued \cup onSocket) \cap PostedOps = {}
  /\ handlers = queued \cup onSocket \cup PostedOps
  /\ Len(posted) = Cardinality(PostedOps)
  /\ queued # {} => accepting
  /\ accepting => ~connected
  /\ answered = IF creating = "yes" THEN 1 ELSE 0
=============================================================================
