---------------------------- MODULE TCPClientInv ----------------------------
(***************************************************************************)
(* An inductive invariant of the client used by a patient application: why *)
(* no completion of an earlier connection reaches the application, and why *)
(* a connection written to once delivers its chunks in order.              *)
(***************************************************************************)
EXTENDS TCPClient

AttemptAt(i) == queue[i].op \in {"resolve", "connect"}
NewsAt(i)    == queue[i].op = "connect"
ReadAt(i)    == queue[i].op = "read"

\* A read started on the socket that is open now, or on one that is gone.
AliveAt(i) == ReadAt(i) /\ sock # "closed" /\ queue[i].conn = conn
DeadAt(i)  == ReadAt(i) /\ (sock = "closed" \/ queue[i].conn # conn)

\* A call of one of the frames in F occurs once at most.
Once(script, F) ==
  \A i, j \in DOMAIN script : script[i] \in F /\ script[j] \in F => i = j

\* The running handler is about to start a read.
ReadDue == Mentions(todo, "Read") \/ Mentions(todo, "Rearm")

\* Attempts to connect do not overlap: one lookup, one completion, one call of
\* TCPSocket::Connect or one pending async_connect, never two of these.
OneAttempt ==
  /\ resolving > 0 => /\ resolving = 1
                      /\ ~ connect_op
                      /\ ~ Mentions(todo, "SocketConnect")
                      /\ \A i \in DOMAIN queue : ~ AttemptAt(i)
  /\ connect_op => /\ ~ Mentions(todo, "SocketConnect")
                   /\ \A i \in DOMAIN queue : ~ AttemptAt(i)
  /\ Mentions(todo, "SocketConnect") => \A i \in DOMAIN queue : ~ AttemptAt(i)
  /\ \A i, j \in DOMAIN queue : AttemptAt(i) /\ AttemptAt(j) => i = j
  /\ Once(todo, {"SocketConnect"})

\* Nor do they overlap a connection the client believes in.
ConnectedIsSettled == is_connected => ~ Connecting

\* Who holds the socket open, and who may still use it.
SocketHeld ==
  /\ sock # "closed" => is_connected \/ connect_op \/ \E i \in DOMAIN queue : NewsAt(i)
  /\ connect_op => sock # "closed"
  /\ sock = "connecting" => connect_op
  /\ pending > 0 => is_connected /\ sock # "closed"
  /\ \A i \in DOMAIN queue : AliveAt(i) => is_connected
  /\ \A i \in DOMAIN queue : queue[i].conn <= conn

\* Dead reads find is_connected_ false, and no news of a connection is ahead of
\* them in the queue that could make it true first.
DeadReadsDrop ==
  /\ \A i \in DOMAIN queue : DeadAt(i) => ~ is_connected
  /\ \A i, j \in DOMAIN queue : DeadAt(i) /\ NewsAt(j) => i < j
  /\ ReadDue => /\ ~ connect_op
                /\ ~ Mentions(todo, "SocketConnect")
                /\ \A i \in DOMAIN queue : ~ NewsAt(i)
                /\ sock = "closed" => ~ is_connected

\* No read is outstanding before the first write, and one at most before the second.
SoleReader ==
  /\ writes = 0 /\ sock # "closed" =>
       /\ pending = 0
       /\ ~ ReadDue
       /\ \A i \in DOMAIN queue : ~ AliveAt(i)
  /\ writes <= 1 /\ sock # "closed" =>
       /\ pending <= 1
       /\ pending = 1 => ~ ReadDue /\ \A i \in DOMAIN queue : ~ AliveAt(i)
       /\ ReadDue => \A i \in DOMAIN queue : ~ AliveAt(i)
       /\ \A i, j \in DOMAIN queue : AliveAt(i) /\ AliveAt(j) => i = j
       /\ Once(todo, {"Read", "Rearm"})

\* buffer_ holds the chunk its posted handler is going to copy.
BufferKept ==
  /\ writes <= 1 => DeliveredInOrder
  /\ writes <= 1 /\ sock # "closed" =>
       \/ /\ \A i \in DOMAIN queue : AliveAt(i) => ~ queue[i].ok
          /\ Len(delivered) = taken
       \/ /\ \E i \in DOMAIN queue : AliveAt(i) /\ queue[i].ok
          /\ buffer = <<conn, taken>>
          /\ taken = Len(delivered) + 1

PatientInv ==
  /\ OneAttempt
  /\ ConnectedIsSettled
  /\ SocketHeld
  /\ DeadReadsDrop
  /\ SoleReader
  /\ BufferKept
=============================================================================
