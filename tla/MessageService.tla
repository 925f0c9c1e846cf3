--------------------------- MODULE MessageService ---------------------------
(***************************************************************************)
(* What the server of Libs/Networking promises to its clients: each is     *)
(* told the messages of the server's queue in their order, from the first  *)
(* on and whatever the other clients do, then the default message for      *)
(* ever; and after the first message one at most for each write of its own.*)
(***************************************************************************)
EXTENDS Naturals, Sequences

CONSTANTS Clients, Script, Default

VARIABLES
  asked,  \* how often each client has written
  told    \* the messages each client has been sent

Message(n) == IF n <= Len(Script) THEN Script[n] ELSE Default

Init == /\ asked = [c \in Clients |-> 0]
        /\ told = [c \in Clients |-> << >>]

Ask(c) == /\ asked' = [asked EXCEPT ![c] = @ + 1]
          /\ UNCHANGED told

Tell(c) == /\ Len(told[c]) <= asked[c]
           /\ told' = [told EXCEPT ![c] = Append(@, Message(Len(@) + 1))]
           /\ UNCHANGED asked

Next == \E c \in Clients : Ask(c) \/ Tell(c)

Spec == Init /\ [][Next]_<<asked, told>>
=============================================================================
