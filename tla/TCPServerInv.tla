---------------------------- MODULE TCPServerInv ----------------------------
(***************************************************************************)
(* An inductive invariant of the server: what is outstanding for a         *)
(* connection in each phase of its life, and what it may still say.        *)
(***************************************************************************)
EXTENDS TCPServer

AcceptAt(i) == queue[i].op = "accept"
ReadFor(c)  == \E i \in DOMAIN queue : ReadAt(i, c)

\* One accept is outstanding at most.
OneAccept ==
  /\ \A i, j \in DOMAIN queue : AcceptAt(i) /\ AcceptAt(j) => i = j
  /\ accept_op => \A i \in DOMAIN queue : ~ AcceptAt(i)

\* What an accept completion says is still so: nothing replaces ptr_connection_
\* before HandleAccept is dispatched.
AcceptHeld ==
  \A i \in DOMAIN queue : AcceptAt(i) /\ queue[i].ok =>
    /\ queue[i].conn = ptr_connection
    /\ ptr_connection \in Clients
    /\ is_open[ptr_connection]
    /\ sent[ptr_connection] = << >>

\* Clients not yet accepted are in the backlog once, or have not connected.
NotAccepted ==
  /\ \A i \in DOMAIN backlog : /\ client[backlog[i]] # "away"
                               /\ ~ is_open[backlog[i]]
                               /\ sent[backlog[i]] = << >>
  /\ \A i, j \in DOMAIN backlog : backlog[i] = backlog[j] => i = j
  /\ \A c \in Clients : client[c] = "away" => ~ is_open[c] /\ sent[c] = << >>

\* Reads are started by the write of a message, and one by one.
OneRead ==
  \A c \in Clients :
    /\ sent[c] = << >> => reading[c] = 0 /\ ~ ReadFor(c)
    /\ reading[c] > 0 => reading[c] = 1 /\ ~ ReadFor(c)
    /\ \A i, j \in DOMAIN queue : ReadAt(i, c) /\ ReadAt(j, c) => i = j
    /\ is_open[c] /\ sent[c] # << >> /\ ~ thrown => reading[c] > 0 \/ ReadFor(c)

\* The connection's copy of the queue is what it has not sent yet.
CopyRemains ==
  ~ thrown =>
    \A c \in Clients :
      /\ Len(sent[c]) <= Len(Script) =>
           /\ Len(message_queue[c]) = Len(Script) - Len(sent[c])
           /\ \A n \in 1..Len(message_queue[c]) :
                message_queue[c][n] = Script[Len(sent[c]) + n]
      /\ Len(sent[c]) > Len(Script) => message_queue[c] = << >>

\* Writes of the client pay for the messages after the first.
Paid ==
  \A c \in Clients :
    /\ unread[c] <= written[c]
    /\ sent[c] # << >> => Len(sent[c]) + unread[c] <= written[c] + 1
    /\ \A i \in DOMAIN queue :
         ReadAt(i, c) /\ queue[i].ok => Len(sent[c]) + unread[c] <= written[c]

ServerInv ==
  /\ OneAccept
  /\ AcceptHeld
  /\ NotAccepted
  /\ OneRead
  /\ CopyRemains
  /\ Paid
=============================================================================
