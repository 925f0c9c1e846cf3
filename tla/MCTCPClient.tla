---------------------------- MODULE MCTCPClient ----------------------------
(* Applications of the client for TLC: what their callbacks do.            *)
EXTENDS TCPClientInv

None == {<< >>}

\* The clients of the repository: they write a request once connected or answer
\* what they read, and close from OnConnect or OnRead.  SASL, rejecting a server,
\* disconnects and then writes.  OnDisconnect may reconnect.
Dialogue ==
  [OnHostResolved |-> None,
   OnConnect      |-> {<<"Write">>, <<"Disconnect">>},
   OnRead         |-> {<< >>, <<"Write">>, <<"Disconnect">>, <<"Disconnect", "Write">>},
   OnError        |-> None,
   OnDisconnect   |-> {<< >>, <<"Connect">>}]

\* Whatever an override can think of.
Anything ==
  [OnHostResolved |-> {<< >>, <<"Disconnect">>},
   OnConnect      |-> {<< >>, <<"Write">>, <<"Write", "Write">>, <<"Disconnect">>},
   OnRead         |-> {<< >>, <<"Write">>, <<"Disconnect", "Write">>},
   OnError        |-> {<< >>, <<"Write">>, <<"Disconnect">>},
   OnDisconnect   |-> {<< >>, <<"Connect">>}]
=============================================================================
