------------------------------ MODULE TCPClient ------------------------------
(***************************************************************************)
(* The client half of Libs/Networking: TCPClient, TCPSocket and            *)
(* HostResolver, driven by one thread inside boost::asio's io_service::run.*)
(*                                                                         *)
(* The io_service dispatches one completion handler at a time from a FIFO  *)
(* `queue'.  A handler calls further functions of the client, and those    *)
(* call the virtual callbacks an application overrides; `todo' is what the *)
(* running handler still has to call, innermost first, so a handler is     *)
(* finished exactly when todo = << >>.  The kernel and the resolver thread *)
(* move at any time, also in the middle of a handler.                      *)
(*                                                                         *)
(* A chunk is whatever one receive call returns, numbered from 1 within    *)
(* its connection; its bytes, and every error code, are abstracted away.   *)
(***************************************************************************)
EXTENDS Naturals, Sequences, FiniteSets

CONSTANTS
  Overrides,     \* what an application's override of each callback may call
  Outside,       \* API calls made by other handlers of the same io_service
  Patient,       \* whether the application calls Connect only when disconnected
  MaxConnects,   \* bound: calls of Connect
  MaxWrites,     \* bound: writes on a connection that outside calls add to
  MaxFarewells,  \* bound: OnDisconnect calls that outside Disconnects add to
  MaxChunks      \* bound: chunks the peer sends per connection

ApiCalls  == {"Connect", "Disconnect", "Write"}
Callbacks == {"OnHostResolved", "OnConnect", "OnRead", "OnError", "OnDisconnect"}
Frames    == ApiCalls \cup Callbacks \cup {"SocketConnect", "Read", "Rearm"}

Mentions(script, call) == \E i \in DOMAIN script : script[i] = call

\* Every callback has a way to return without reconnecting, so that reaching
\* MaxConnects does not block it.
ASSUME OverridesAssumption ==
  /\ Overrides \in [Callbacks -> SUBSET Seq(ApiCalls)]
  /\ \A cb \in Callbacks : \E s \in Overrides[cb] : ~ Mentions(s, "Connect")
ASSUME OutsideAssumption == Outside \subseteq ApiCalls
ASSUME PatientAssumption == Patient \in BOOLEAN
ASSUME BoundsAssumption  == /\ MaxConnects \in Nat
                            /\ MaxWrites \in Nat
                            /\ MaxFarewells \in Nat
                            /\ MaxChunks \in Nat

VARIABLES
  is_connected,  \* TCPSocket::is_connected_
  buffer,        \* TCPSocket::buffer_, as <<connection, chunk>> last received
  todo,          \* the calls the running handler has left to make
  queue,         \* completions posted to the io_service and not yet dispatched
  resolving,     \* host lookups in the resolver thread
  sock,          \* the kernel socket behind TCPSocket::socket_
  connect_op,    \* an async_connect waits in the reactor
  pending,       \* async_read_some operations waiting in the reactor
  arrived,       \* chunks of this connection the kernel has received
  taken,         \* chunks of this connection received into buffer_
  peer_closed,   \* the peer has closed its side
  thrown,        \* boost::asio::write threw out of io_service::run
  \* history: the count of sockets opened and of Connect and OnDisconnect calls,
  \* and the writes on, and chunks handed to OnRead from, the current connection
  conn, connects, farewells, writes, delivered

client  == <<is_connected, todo>>
reactor == <<connect_op, pending>>
kernel  == <<sock, arrived, peer_closed>>
calls   == <<connects, farewells>>
session == <<conn, writes, delivered>>
vars    == <<client, buffer, queue, resolving, reactor, kernel, taken, thrown,
             calls, session>>

SocketStates == {"closed", "connecting", "established", "refused"}

\* What the reactor posts when an operation completes; `conn' names the socket the
\* operation was started on, 0 if none was open.
Completion(op, ok) ==
  [op |-> op, ok |-> ok, conn |-> IF sock = "closed" THEN 0 ELSE conn]

Completions == [op : {"resolve", "connect", "read"}, ok : BOOLEAN, conn : Nat]

TypeOK ==
  /\ is_connected \in BOOLEAN
  /\ buffer \in Nat \X Nat
  /\ todo \in Seq(Frames)
  /\ queue \in Seq(Completions)
  /\ resolving \in Nat
  /\ sock \in SocketStates
  /\ connect_op \in BOOLEAN
  /\ pending \in Nat
  /\ arrived \in Nat
  /\ taken \in Nat
  /\ peer_closed \in BOOLEAN
  /\ thrown \in BOOLEAN
  /\ conn \in Nat
  /\ connects \in Nat
  /\ farewells \in Nat
  /\ writes \in Nat
  /\ delivered \in Seq(Nat \X Nat)

\* The application constructs the client, calls Connect, and runs the io_service.
Init ==
  /\ is_connected = FALSE
  /\ buffer = <<0, 0>>
  /\ todo = <<"Connect">>
  /\ queue = << >>
  /\ resolving = 0
  /\ sock = "closed"
  /\ connect_op = FALSE
  /\ pending = 0
  /\ arrived = 0
  /\ taken = 0
  /\ peer_closed = FALSE
  /\ thrown = FALSE
  /\ conn = 0
  /\ connects = 0
  /\ farewells = 0
  /\ writes = 0
  /\ delivered = << >>

-----------------------------------------------------------------------------
(* The calls a handler makes.  Each step makes the innermost one.          *)

Calling(f) == ~ thrown /\ todo # << >> /\ Head(todo) = f
Return     == todo' = Tail(todo)

\* A Connect of this client is under way: its lookup, its connection attempt, or
\* the news of either.
Connecting ==
  \/ resolving > 0
  \/ connect_op
  \/ \E i \in DOMAIN queue : queue[i].op \in {"resolve", "connect"}
  \/ Mentions(todo, "SocketConnect")

\* A patient application's test: nothing in the client keeps an attempt from
\* overlapping another one or a live connection.
MayConnect == Patient => ~ Connecting /\ ~ is_connected

SkipConnect ==
  /\ Calling("Connect")
  /\ ~ MayConnect
  /\ Return
  /\ UNCHANGED <<is_connected, buffer, queue, resolving, reactor, kernel, taken,
                 thrown, calls, session>>

\* Connect -> HostResolver::ResolveHost -> async_resolve, which never blocks.
Connect ==
  /\ Calling("Connect")
  /\ MayConnect
  /\ Return
  /\ connects' = connects + 1
  /\ resolving' = resolving + 1
  /\ UNCHANGED <<is_connected, buffer, queue, reactor, kernel, taken, thrown,
                 farewells, session>>

\* TCPSocket::Connect.  async_connect opens a closed socket; on a socket that is
\* already open the connect call fails at once (EALREADY, EISCONN).
SocketConnect ==
  /\ Calling("SocketConnect")
  /\ Return
  /\ IF sock = "closed"
     THEN /\ sock' = "connecting"
          /\ connect_op' = TRUE
          /\ conn' = conn + 1
          /\ arrived' = 0
          /\ taken' = 0
          /\ peer_closed' = FALSE
          /\ writes' = 0
          /\ delivered' = << >>
          /\ UNCHANGED queue
     ELSE /\ queue' = Append(queue, Completion("connect", FALSE))
          /\ UNCHANGED <<kernel, taken, connect_op, session>>
  /\ UNCHANGED <<is_connected, buffer, resolving, pending, thrown, calls>>

\* socket_.close() completes whatever the reactor still holds with
\* operation_aborted; completions already in the queue stay as they are.
Aborted ==
  [i \in 1..(pending + (IF connect_op THEN 1 ELSE 0)) |->
     Completion(IF i <= pending THEN "read" ELSE "connect", FALSE)]

\* Mutants: one of the reads is cancelled, and the flag is not reset.
CloseCancelsOne ==
  /\ is_connected' = FALSE /\ sock' = "closed"
  /\ connect_op' = FALSE /\ pending' = pending - 1
  /\ queue' = queue \o Aborted
CloseKeepsFlag ==
  /\ UNCHANGED is_connected /\ sock' = "closed"
  /\ connect_op' = FALSE /\ pending' = 0
  /\ queue' = queue \o Aborted

\* TCPSocket::Close.
Close ==
  /\ is_connected' = FALSE
  /\ sock' = "closed"
  /\ connect_op' = FALSE
  /\ pending' = 0
  /\ queue' = queue \o Aborted

\* TCPClient::Disconnect: no guard, also not when there is no connection.
Disconnect ==
  /\ Calling("Disconnect")
  /\ Close
  /\ todo' = <<"OnDisconnect">> \o Tail(todo)
  /\ UNCHANGED <<buffer, resolving, arrived, taken, peer_closed, thrown, calls,
                 session>>

\* TCPClient::Write and TCPSocket::Write.  The synchronous write blocks while
\* the socket connects, throws when it is not open, and may throw once the peer
\* is gone; nothing on the way to io_service::run catches it.
WriteFails == \/ sock \in {"closed", "refused"}
              \/ sock = "established" /\ peer_closed

Write ==
  /\ Calling("Write")
  /\ \/ /\ ~ is_connected
        /\ Return
        /\ UNCHANGED <<writes, thrown>>
     \/ /\ is_connected
        /\ sock = "established"
        /\ todo' = <<"Read">> \o Tail(todo)
        /\ writes' = writes + 1
        /\ UNCHANGED thrown
     \/ /\ is_connected
        /\ WriteFails
        /\ thrown' = TRUE
        /\ UNCHANGED <<todo, writes>>
  /\ UNCHANGED <<is_connected, buffer, queue, resolving, reactor, kernel, taken,
                 calls, conn, delivered>>

-----------------------------------------------------------------------------
(* Reads.  Every read of the client uses the one buffer_ of its TCPSocket. *)

\* The receive call of a read operation: the next chunk overwrites buffer_ now,
\* the handler that will look at it is only posted.
Receive ==
  /\ taken' = taken + 1
  /\ buffer' = <<conn, taken + 1>>
  /\ queue' = Append(queue, Completion("read", TRUE))

Readable == sock = "established" /\ taken < arrived
AtEOF    == sock = "established" /\ peer_closed /\ taken = arrived

\* socket_.async_read_some: fails at once on a dead socket, is tried at once
\* when no earlier read waits, and otherwise waits in the reactor.
StartRead ==
  \/ /\ sock \in {"closed", "refused"} \/ (pending = 0 /\ AtEOF)
     /\ queue' = Append(queue, Completion("read", FALSE))
     /\ UNCHANGED <<pending, buffer, taken>>
  \/ /\ pending = 0 /\ Readable
     /\ Receive
     /\ UNCHANGED pending
  \/ /\ sock = "connecting" \/ (sock = "established" /\
                                (pending > 0 \/ ~ (Readable \/ AtEOF)))
     /\ pending' = pending + 1
     /\ UNCHANGED <<queue, buffer, taken>>

\* TCPSocket::Read, called by Write.
Read ==
  /\ Calling("Read")
  /\ Return
  /\ IF is_connected THEN StartRead ELSE UNCHANGED <<queue, pending, buffer, taken>>
  /\ UNCHANGED <<is_connected, resolving, connect_op, kernel, thrown, calls, session>>

\* The end of TCPSocket::OnRead: the next read starts whatever the callback did.
Rearm ==
  /\ Calling("Rearm")
  /\ Return
  /\ StartRead
  /\ UNCHANGED <<is_connected, resolving, connect_op, kernel, thrown, calls, session>>

-----------------------------------------------------------------------------
(* Completion handlers.  The io_service dispatches the head of the queue   *)
(* once the previous handler has returned.                                 *)

\* Mutant: the connection is left as it is.
ErrorHandlerLogs == <<"OnError">>

\* TCPClient::ErrorHandler.
ErrorHandler == <<"OnError", "Disconnect">>

\* Mutant: a failed lookup is nobody's business.
ResolveCallsSilent(ok) == IF ok THEN <<"OnHostResolved", "SocketConnect">> ELSE << >>

ResolveCalls(ok) == IF ok THEN <<"OnHostResolved", "SocketConnect">> ELSE ErrorHandler

\* Mutants: a failed connect is tried again on the open socket, and a read is
\* started before anything is written.
ConnectCallsRetry(ok) == IF ok THEN <<"OnConnect">> ELSE <<"SocketConnect">>
ConnectCallsRead(ok)  == IF ok THEN <<"Read", "OnConnect">> ELSE ErrorHandler

ConnectCalls(ok) == IF ok THEN <<"OnConnect">> ELSE ErrorHandler

\* Mutants: no further read, and no look at the error.
ReadCallsOnce(ok)    == IF ok THEN <<"OnRead">> ELSE ErrorHandler
ReadCallsForever(ok) == IF ok THEN <<"OnRead", "Rearm">> ELSE <<"Rearm">>

ReadCalls(ok) == IF ok THEN <<"OnRead", "Rearm">> ELSE ErrorHandler \o <<"Rearm">>

Dispatch(op) == todo = << >> /\ queue # << >> /\ Head(queue).op = op
Dispatched   == queue' = Tail(queue)

\* TCPClient::ResolveHostHandler.
ResolveHostHandler ==
  /\ Dispatch("resolve")
  /\ Dispatched
  /\ todo' = ResolveCalls(Head(queue).ok)
  /\ UNCHANGED <<is_connected, buffer, resolving, reactor, kernel, taken, thrown,
                 calls, session>>

\* TCPSocket::OnConnect, then TCPClient::ConnectHandler: the flag is raised
\* before the error is looked at.
OnConnect ==
  /\ Dispatch("connect")
  /\ Dispatched
  /\ is_connected' = TRUE
  /\ todo' = ConnectCalls(Head(queue).ok)
  /\ UNCHANGED <<buffer, resolving, reactor, kernel, taken, thrown, calls, session>>

\* Mutant: without the test of is_connected_.
OnReadAlways ==
  /\ Dispatch("read")
  /\ Dispatched
  /\ todo' = ReadCalls(Head(queue).ok)
  /\ delivered' = IF Head(queue).ok THEN Append(delivered, buffer) ELSE delivered
  /\ UNCHANGED <<is_connected, buffer, resolving, reactor, kernel, taken, thrown,
                 calls, conn, writes>>

\* TCPSocket::OnRead, then TCPClient::ReadHandler, which copies the bytes out of
\* the shared buffer_ only now.
OnRead ==
  /\ Dispatch("read")
  /\ Dispatched
  /\ \/ /\ ~ is_connected
        /\ UNCHANGED <<todo, delivered>>
     \/ /\ is_connected
        /\ todo' = ReadCalls(Head(queue).ok)
        /\ delivered' = IF Head(queue).ok THEN Append(delivered, buffer) ELSE delivered
  /\ UNCHANGED <<is_connected, buffer, resolving, reactor, kernel, taken, thrown,
                 calls, conn, writes>>

-----------------------------------------------------------------------------
(* The application.                                                        *)

\* A virtual callback: the override calls back into the client.
Callback(cb) ==
  /\ Calling(cb)
  /\ \E script \in Overrides[cb] :
       /\ Mentions(script, "Connect") => connects < MaxConnects
       /\ todo' = script \o Tail(todo)
  /\ farewells' = IF cb = "OnDisconnect" THEN farewells + 1 ELSE farewells
  /\ UNCHANGED <<is_connected, buffer, queue, resolving, reactor, kernel, taken,
                 thrown, connects, session>>

\* Another handler of the io_service (a timer, a posted function) uses the client.
OutsideCall ==
  /\ todo = << >>
  /\ \E call \in Outside :
       /\ call = "Connect" => connects < MaxConnects
       /\ call = "Write" => writes < MaxWrites
       /\ call = "Disconnect" => farewells < MaxFarewells
       /\ todo' = <<call>>
  /\ UNCHANGED <<is_connected, buffer, queue, resolving, reactor, kernel, taken,
                 thrown, calls, session>>

-----------------------------------------------------------------------------
(* The resolver thread, the kernel and asio's reactor.                     *)

Resolved ==
  /\ resolving > 0
  /\ resolving' = resolving - 1
  /\ \E ok \in BOOLEAN : queue' = Append(queue, Completion("resolve", ok))
  /\ UNCHANGED <<client, buffer, reactor, kernel, taken, thrown, calls, session>>

ConnectionSettles ==
  /\ sock = "connecting"
  /\ sock' \in {"established", "refused"}
  /\ UNCHANGED <<client, buffer, queue, resolving, reactor, arrived, peer_closed,
                 taken, thrown, calls, session>>

ChunkArrives ==
  /\ sock = "established"
  /\ ~ peer_closed
  /\ arrived < MaxChunks
  /\ arrived' = arrived + 1
  /\ UNCHANGED <<client, buffer, queue, resolving, reactor, sock, peer_closed,
                 taken, thrown, calls, session>>

PeerCloses ==
  /\ sock = "established"
  /\ ~ peer_closed
  /\ peer_closed' = TRUE
  /\ UNCHANGED <<client, buffer, queue, resolving, reactor, sock, arrived, taken,
                 thrown, calls, session>>

\* The reactor runs between handlers.
ReactorConnect ==
  /\ todo = << >>
  /\ connect_op
  /\ sock \in {"established", "refused"}
  /\ connect_op' = FALSE
  /\ queue' = Append(queue, Completion("connect", sock = "established"))
  /\ UNCHANGED <<client, buffer, resolving, pending, kernel, taken, thrown, calls,
                 session>>

ReactorRead ==
  /\ todo = << >>
  /\ pending > 0
  /\ pending' = pending - 1
  /\ \/ Readable /\ Receive
     \/ /\ AtEOF
        /\ queue' = Append(queue, Completion("read", FALSE))
        /\ UNCHANGED <<buffer, taken>>
  /\ UNCHANGED <<client, resolving, connect_op, kernel, thrown, calls, session>>

-----------------------------------------------------------------------------
Handlers == ResolveHostHandler \/ OnConnect \/ OnRead

Calls == \/ Connect \/ SkipConnect \/ SocketConnect \/ Disconnect \/ Write \/ Read \/ Rearm
         \/ \E cb \in Callbacks : Callback(cb)

Reactor == ReactorConnect \/ ReactorRead

Network == ConnectionSettles \/ ChunkArrives \/ PeerCloses

Next == Handlers \/ Calls \/ Reactor \/ Network \/ Resolved \/ OutsideCall

\* io_service::run finishes the handler it is in; its queue is first come, first
\* served with the reactor as one of the entries, so handlers from outside cannot
\* keep either of them waiting for ever (SF); a lookup and a connection attempt
\* end, if only by their timeout.  The peer and calls from outside owe nothing.
Fairness ==
  /\ WF_vars(Calls)
  /\ SF_vars(Handlers)
  /\ SF_vars(ReactorConnect)
  /\ SF_vars(ReactorRead)
  /\ WF_vars(Resolved)
  /\ WF_vars(ConnectionSettles)

Spec     == Init /\ [][Next]_vars
FairSpec == Spec /\ Fairness
-----------------------------------------------------------------------------
(* Properties.                                                             *)

Count(op) == Cardinality({i \in DOMAIN queue : queue[i].op = op})

\* Calls of Connect whose outcome the application has not been told yet.
Attempts == resolving + Count("resolve") + Count("connect")
              + Cardinality({i \in DOMAIN todo : todo[i] = "SocketConnect"})
              + (IF connect_op THEN 1 ELSE 0)

\* Reads of the current connection that have been started, or certainly will be.
OutstandingReads ==
  pending + Cardinality({i \in DOMAIN queue : queue[i].op = "read" /\ queue[i].conn = conn})
          + Cardinality({i \in DOMAIN todo : todo[i] \in {"Read", "Rearm"}})

\* The chunks OnRead has been given are the peer's, from the first on, none
\* missing, repeated or replaced by a later one.
DeliveredInOrder ==
  \A i \in DOMAIN delivered : delivered[i] = <<conn, i>>

\* The same for a connection on which the application has written at most once,
\* so that a single read is outstanding: then no receive can overwrite buffer_
\* between another receive and the handler that copies its bytes.
SoleWriterReadsInOrder == writes <= 1 => DeliveredInOrder

\* Each Write adds a read and OnRead replaces the read it consumed: the number of
\* reads in flight on a connection is its number of writes, for ever.
OneReadPerWrite ==
  sock = "established" /\ is_connected => OutstandingReads = writes

\* A read that passes the is_connected_ test of TCPSocket::OnRead was started on
\* the connection that is open now: the aborted reads of an earlier connection
\* are drained before is_connected_ is true again.
NoStaleRead ==
  Dispatch("read") /\ is_connected => Head(queue).conn = conn /\ sock # "closed"

\* Between handlers, a client that believes it is connected has an open socket.
OpenBetweenHandlers == todo = << >> /\ is_connected => sock = "established"

\* A Write that passes its guards throws on a connection whose peer has gone, never on a
\* socket that is closed or was refused.
ThrowsOnLossOnly == thrown => sock = "established" /\ peer_closed

\* is_connected_, raised before the error of the attempt is looked at, is true of the
\* socket when the application uses it: between handlers, and in each Write.
ConnectedMeansOpen == OpenBetweenHandlers /\ ThrowsOnLossOnly

\* Between handlers, every Connect is still under way, is the live connection, or
\* has ended in exactly one OnDisconnect.
EveryConnectEndsOnce ==
  todo = << >> => connects = farewells + Attempts + (IF is_connected THEN 1 ELSE 0)

\* An attempt to connect ends only by telling the application.
AttemptEndsInCallback ==
  [][Attempts' < Attempts =>
       todo' # << >> /\ Head(todo') \in {"OnConnect", "OnError"}]_vars

\* Every attempt to connect does end.
ConnectAnswered == Attempts > 0 ~> Attempts = 0 \/ thrown

HandedOver(n) == \E i \in DOMAIN delivered : delivered[i] = <<conn, n>>

\* On a connection written to, each chunk of the peer reaches OnRead.  What several reads
\* can do to it is told apart: only a later chunk can take its place in the shared
\* buffer_, and only when there was more than one write, so that the last chunk of a
\* peer that waits for an answer is never lost.
ChunksDelivered ==
  \A n \in 1..MaxChunks :
    (is_connected /\ writes > 0 /\ arrived >= n)
      ~> (HandedOver(n) \/ (writes > 1 /\ arrived > n) \/ ~ is_connected \/ thrown)

\* On such a connection the peer's close is noticed as well.
CloseNoticed ==
  (is_connected /\ writes > 0 /\ peer_closed) ~> (~ is_connected \/ thrown)
=============================================================================
