------------------------------ MODULE TCPServer ------------------------------
(***************************************************************************)
(* The server half of Libs/Networking: TCPServer and TCPServerConnection,  *)
(* driven by one thread inside boost::asio's io_service::run, and the      *)
(* remote clients that connect, write and leave at any time.               *)
(*                                                                         *)
(* A handler of the server calls nothing outside the server, so it is one  *)
(* step: whatever the clients and the kernel do while it runs has the same *)
(* effect just before it.  A client connects once, which lets its name     *)
(* stand for the TCPServerConnection that serves it.  What a client writes *)
(* is abstracted to the number of its writes: one receive may return       *)
(* several of them at once.                                                *)
(***************************************************************************)
EXTENDS Naturals, Sequences

CONSTANTS
  Clients,     \* the remote endpoints
  Nobody,      \* the peer of a connection object that has not been accepted into
  Messages,    \* what the server may say
  Script,      \* the message_queue the server is constructed with
  Default,     \* default_message_
  MaxWrites,   \* bound: writes of each client
  MaxStarts    \* bound: calls of StartAccept by the application

ASSUME NobodyAssumption == Nobody \notin Clients
ASSUME ScriptAssumption == Script \in Seq(Messages) /\ Default \in Messages
ASSUME BoundsAssumption == MaxWrites \in Nat /\ MaxStarts \in Nat

VARIABLES
  ptr_connection,  \* the peer of *ptr_connection_
  accept_op,       \* an async_accept waits in the reactor
  backlog,         \* clients the kernel has connected and the acceptor has not
  queue,           \* completions posted to the io_service and not yet dispatched
  is_open,         \* the connection's socket_ is open
  message_queue,   \* the connection's own copy of the queue
  reading,         \* the connection's async_read_some operations in the reactor
  client,          \* the client's side: "away", "connected" or "gone"
  unread,          \* the client's writes the connection has not received
  thrown,          \* boost::asio::write threw out of io_service::run
  \* history: calls of StartAccept by the application, the client's writes, and
  \* the messages written to it
  starts, written, sent

acceptor    == <<ptr_connection, accept_op, starts>>
connections == <<message_queue, reading, sent>>
remote      == <<client, written>>
vars == <<acceptor, backlog, queue, is_open, connections, remote, unread, thrown>>

Completion(op, ok, c) == [op |-> op, ok |-> ok, conn |-> c]

Completions == [op : {"accept"}, ok : BOOLEAN, conn : Clients \cup {Nobody}]
                 \cup [op : {"read"}, ok : BOOLEAN, conn : Clients]

TypeOK ==
  /\ ptr_connection \in Clients \cup {Nobody}
  /\ accept_op \in BOOLEAN
  /\ backlog \in Seq(Clients)
  /\ queue \in Seq(Completions)
  /\ is_open \in [Clients -> BOOLEAN]
  /\ message_queue \in [Clients -> Seq(Messages)]
  /\ reading \in [Clients -> Nat]
  /\ client \in [Clients -> {"away", "connected", "gone"}]
  /\ unread \in [Clients -> Nat]
  /\ thrown \in BOOLEAN
  /\ starts \in Nat
  /\ written \in [Clients -> Nat]
  /\ sent \in [Clients -> Seq(Messages)]

Init ==
  /\ ptr_connection = Nobody
  /\ accept_op = FALSE
  /\ backlog = << >>
  /\ queue = << >>
  /\ is_open = [c \in Clients |-> FALSE]
  /\ message_queue = [c \in Clients |-> Script]
  /\ reading = [c \in Clients |-> 0]
  /\ client = [c \in Clients |-> "away"]
  /\ unread = [c \in Clients |-> 0]
  /\ thrown = FALSE
  /\ starts = 0
  /\ written = [c \in Clients |-> 0]
  /\ sent = [c \in Clients |-> << >>]

-----------------------------------------------------------------------------
(* Accepting.                                                              *)

\* accept() succeeds into the socket of *ptr_connection_, or fails (no descriptor
\* left, say) and leaves the client where it is.
Accepts(c, completion) ==
  \/ /\ completion = Completion("accept", TRUE, c)
     /\ ptr_connection' = c
     /\ backlog' = Tail(backlog)
     /\ is_open' = [is_open EXCEPT ![c] = TRUE]
  \/ /\ completion = Completion("accept", FALSE, Nobody)
     /\ ptr_connection' = Nobody
     /\ UNCHANGED <<backlog, is_open>>

\* Mutant: the server stays with the connection it has.
StartAcceptIfNone(posts) ==
  /\ posts = << >>
  /\ accept_op' = (ptr_connection = Nobody)
  /\ UNCHANGED <<ptr_connection, backlog, is_open>>

\* TCPServer::StartAccept: a new connection object replaces the one held, and
\* async_accept is tried at once when a client waits.  `posts' is what it adds to
\* the queue.
StartAccept(posts) ==
  \/ /\ backlog # << >>
     /\ \E completion \in {Completion("accept", TRUE, Head(backlog)),
                           Completion("accept", FALSE, Nobody)} :
          /\ Accepts(Head(backlog), completion)
          /\ posts = <<completion>>
     /\ UNCHANGED accept_op
  \/ /\ backlog = << >>
     /\ posts = << >>
     /\ ptr_connection' = Nobody
     /\ accept_op' = TRUE
     /\ UNCHANGED <<backlog, is_open>>

\* Mutant: a completion that is only posted does not count.
AcceptingWaits == accept_op

Accepting == accept_op \/ \E i \in DOMAIN queue : queue[i].op = "accept"

\* The application starts the server, and may restart one that has given up.
\* (A second StartAccept under way would destroy the socket of the first.)
ApplicationStarts ==
  /\ ~ thrown
  /\ ~ Accepting
  /\ starts < MaxStarts
  /\ starts' = starts + 1
  /\ \E completions \in {<< >>} \cup
         {<<Completion("accept", ok, c)>> : ok \in BOOLEAN, c \in Clients \cup {Nobody}} :
       /\ StartAccept(completions)
       /\ queue' = queue \o completions
  /\ UNCHANGED <<connections, remote, unread, thrown>>

-----------------------------------------------------------------------------
(* A connection.                                                           *)

\* Mutants: the connections share one queue, and front() without pop().
PopShared(c)  == message_queue' =
  [d \in Clients |-> IF message_queue[c] # << >> THEN Tail(message_queue[c]) ELSE << >>]
PopNothing(c) == UNCHANGED message_queue

Pop(c) == message_queue' = [message_queue EXCEPT ![c] = IF @ # << >> THEN Tail(@) ELSE @]

\* TCPServerConnection::Write, up to its read: the next message, or the default.
WriteMessage(c) ==
  /\ sent' = [sent EXCEPT ![c] = Append(@, IF message_queue[c] # << >>
                                           THEN Head(message_queue[c]) ELSE Default)]
  /\ Pop(c)

\* The synchronous write may fail once the client is gone, and nothing up to
\* io_service::run catches what it throws.
WriteThrows(c) ==
  /\ client[c] = "gone"
  /\ thrown' = TRUE
  /\ Pop(c)
  /\ UNCHANGED <<acceptor, backlog, is_open, reading, sent, remote, unread>>

\* A receive that need not wait.
Receives(c, ok) ==
  \/ /\ ok
     /\ unread[c] > 0
     /\ \E n \in 1..unread[c] : unread' = [unread EXCEPT ![c] = @ - n]
  \/ /\ ~ ok
     /\ unread[c] = 0
     /\ client[c] = "gone"
     /\ UNCHANGED unread

\* Mutants: the read is started twice, or not at all.
StartReadTwice(c, posts) ==
  posts = << >> /\ reading' = [reading EXCEPT ![c] = @ + 2] /\ UNCHANGED unread
StartReadNever(c, posts) ==
  posts = << >> /\ UNCHANGED <<reading, unread>>

\* async_read_some at the end of Write.
StartRead(c, posts) ==
  \/ \E ok \in BOOLEAN :
       /\ Receives(c, ok)
       /\ posts = <<Completion("read", ok, c)>>
       /\ UNCHANGED reading
  \/ /\ unread[c] = 0
     /\ client[c] # "gone"
     /\ posts = << >>
     /\ reading' = [reading EXCEPT ![c] = @ + 1]
     /\ UNCHANGED unread

-----------------------------------------------------------------------------
(* Completion handlers, dispatched first come, first served.               *)

Dispatch(op) == ~ thrown /\ queue # << >> /\ Head(queue).op = op

\* TCPServer::HandleAccept greets whatever ptr_connection_ points to by now, and
\* accepts the next; after an error it does neither.
HandleAccept ==
  /\ Dispatch("accept")
  /\ LET c == ptr_connection
     IN \/ /\ ~ Head(queue).ok
           /\ queue' = Tail(queue)
           /\ UNCHANGED <<acceptor, backlog, is_open, connections, unread, thrown>>
        \/ /\ Head(queue).ok
           /\ WriteMessage(c)
           /\ \E reads \in {<< >>} \cup {<<Completion("read", ok, c)>> : ok \in BOOLEAN},
                 accepts \in {<< >>} \cup {<<Completion("accept", ok, d)>> :
                                ok \in BOOLEAN, d \in Clients \cup {Nobody}} :
                /\ StartRead(c, reads)
                /\ StartAccept(accepts)
                /\ queue' = Tail(queue) \o reads \o accepts
           /\ UNCHANGED <<thrown, starts>>
        \/ /\ Head(queue).ok
           /\ WriteThrows(c)
           /\ queue' = Tail(queue)
  /\ UNCHANGED remote

\* Mutant: HandleError only logs.
HandleErrorLogs(c) == UNCHANGED is_open

HandleError(c) == is_open' = [is_open EXCEPT ![c] = FALSE]

\* TCPServerConnection::HandleRead.
HandleRead ==
  /\ Dispatch("read")
  /\ LET c == Head(queue).conn
     IN \/ /\ ~ Head(queue).ok
           /\ HandleError(c)
           /\ queue' = Tail(queue)
           /\ UNCHANGED <<acceptor, backlog, connections, unread, thrown>>
        \/ /\ Head(queue).ok
           /\ WriteMessage(c)
           /\ \E reads \in {<< >>} \cup {<<Completion("read", ok, c)>> : ok \in BOOLEAN} :
                /\ StartRead(c, reads)
                /\ queue' = Tail(queue) \o reads
           /\ UNCHANGED <<acceptor, backlog, is_open, thrown>>
        \/ /\ Head(queue).ok
           /\ WriteThrows(c)
           /\ queue' = Tail(queue)
  /\ UNCHANGED remote

-----------------------------------------------------------------------------
(* asio's reactor, the kernel and the clients.                             *)

ReactorAccept ==
  /\ ~ thrown
  /\ accept_op
  /\ backlog # << >>
  /\ accept_op' = FALSE
  /\ \E completion \in {Completion("accept", TRUE, Head(backlog)),
                        Completion("accept", FALSE, Nobody)} :
       /\ Accepts(Head(backlog), completion)
       /\ queue' = Append(queue, completion)
  /\ UNCHANGED <<starts, connections, remote, unread, thrown>>

ReactorRead(c) ==
  /\ ~ thrown
  /\ reading[c] > 0
  /\ reading' = [reading EXCEPT ![c] = @ - 1]
  /\ \E ok \in BOOLEAN : /\ Receives(c, ok)
                         /\ queue' = Append(queue, Completion("read", ok, c))
  /\ UNCHANGED <<acceptor, backlog, is_open, message_queue, sent, remote, thrown>>

\* The kernel listens from the server's construction on.
ClientConnects(c) ==
  /\ client[c] = "away"
  /\ client' = [client EXCEPT ![c] = "connected"]
  /\ backlog' = Append(backlog, c)
  /\ UNCHANGED <<acceptor, queue, is_open, connections, written, unread, thrown>>

ClientWrites(c) ==
  /\ client[c] = "connected"
  /\ written[c] < MaxWrites
  /\ written' = [written EXCEPT ![c] = @ + 1]
  /\ unread' = [unread EXCEPT ![c] = @ + 1]
  /\ UNCHANGED <<acceptor, backlog, queue, is_open, connections, client, thrown>>

ClientCloses(c) ==
  /\ client[c] = "connected"
  /\ client' = [client EXCEPT ![c] = "gone"]
  /\ UNCHANGED <<acceptor, backlog, queue, is_open, connections, written, unread, thrown>>

-----------------------------------------------------------------------------
Handlers == HandleAccept \/ HandleRead

Next ==
  \/ ApplicationStarts
  \/ HandleAccept
  \/ HandleRead
  \/ ReactorAccept
  \/ \E c \in Clients : ReactorRead(c)
  \/ \E c \in Clients : ClientConnects(c)
  \/ \E c \in Clients : ClientWrites(c)
  \/ \E c \in Clients : ClientCloses(c)

\* io_service::run dispatches what is posted and polls the reactor in between; the
\* clients and the application owe nothing.
Fairness ==
  /\ WF_vars(Handlers)
  /\ WF_vars(ReactorAccept)
  /\ \A c \in Clients : WF_vars(ReactorRead(c))

Spec     == Init /\ [][Next]_vars
FairSpec == Spec /\ Fairness
-----------------------------------------------------------------------------
(* Properties.                                                             *)

ReadAt(i, c) == queue[i].op = "read" /\ queue[i].conn = c

\* The connections keep to the order of the queue and to one message for each
\* read, whatever the clients' writes and the other connections do in between.
Service == INSTANCE MessageService WITH asked <- written, told <- sent
ServesMessages == Service!Spec

\* An open connection that has been greeted has one read outstanding at any time:
\* never two, which would share its buffer_, and never none, for the read is what
\* keeps the TCPServerConnection alive (shared_from_this) once the server has moved
\* on to the next.
OneReadOutstanding ==
  \A c \in Clients :
    LET posted == {i \in DOMAIN queue : ReadAt(i, c)}
        waits  == reading[c] > 0
    IN  /\ reading[c] <= 1
        /\ \A i, j \in posted : i = j
        /\ ~ (waits /\ posted # {})
        /\ is_open[c] /\ sent[c] # << >> /\ ~ thrown => waits \/ posted # {}

\* HandleAccept, which is not told what was accepted and uses ptr_connection_,
\* greets the connection the accept was for, and greets it once.
GreetsTheAccepted ==
  Dispatch("accept") /\ Head(queue).ok =>
    /\ ptr_connection = Head(queue).conn
    /\ is_open[ptr_connection]
    /\ sent[ptr_connection] = << >>

\* A client that connects to a server that accepts is greeted, unless it leaves
\* first, accepting fails or a write to another client throws: accepting one
\* client never ends the accepting of the others.
AcceptFails == \E i \in DOMAIN queue : queue[i].op = "accept" /\ ~ queue[i].ok
ClientsGreeted ==
  \A c \in Clients :
    (client[c] = "connected" /\ Accepting)
      ~> (sent[c] # << >> \/ client[c] = "gone" \/ AcceptFails \/ thrown)

\* Whatever a client writes is answered, ...
WritesAnswered ==
  \A c \in Clients : \A n \in 1..(MaxWrites + 1) :
    (unread[c] > 0 /\ Len(sent[c]) = n) ~> (Len(sent[c]) > n \/ thrown)

\* ... and its connection does not outlive it.
ConnectionsReleased ==
  \A c \in Clients : (is_open[c] /\ client[c] = "gone") ~> (~ is_open[c] \/ thrown)
=============================================================================
