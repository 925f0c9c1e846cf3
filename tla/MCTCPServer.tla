----------------------------- MODULE MCTCPServer -----------------------------
(* The server for TLC: a queue of two messages, as many as it takes to be  *)
(* in the middle of it, at its end, and past it.                           *)
EXTENDS TCPServerInv

Two == <<"first", "second">>
=============================================================================
