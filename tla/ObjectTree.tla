----------------------------- MODULE ObjectTree -----------------------------
(***************************************************************************)
(* What Vulkan and the operating system ask of whoever creates objects:    *)
(* an object is made from parents that exist and is destroyed before them; *)
(* an allocation goes with the pool it was made from.  A program that is   *)
(* brought down by an exception no longer keeps to it.                     *)
(***************************************************************************)
CONSTANTS
  Objects,
  Kind(_),      \* the kind of an object
  Parents(_),   \* the kinds that one of this kind is made from
  Allocations   \* the kinds that are freed with their parent

VARIABLES live, abandoned

Children(o) == {c \in live : Kind(o) \in Parents(Kind(c))}

Init == live = {} /\ abandoned = FALSE

Create(o) ==
  /\ ~ abandoned
  /\ o \notin live
  /\ \A k \in Parents(Kind(o)) : \E p \in live : Kind(p) = k
  /\ live' = live \cup {o}
  /\ UNCHANGED abandoned

Destroy(o) ==
  /\ ~ abandoned
  /\ o \in live
  /\ \A c \in Children(o) : Kind(c) \in Allocations
  /\ live' = live \ ({o} \cup Children(o))
  /\ UNCHANGED abandoned

Abandon ==
  /\ abandoned' = TRUE
  /\ live' \subseteq Objects

Next == (\E o \in Objects : Create(o) \/ Destroy(o)) \/ Abandon

Spec == Init /\ [][Next]_<<live, abandoned>>

-----------------------------------------------------------------------------
\* Nothing outlives what it was made from.
NoOrphans ==
  ~ abandoned => \A o \in live : \A k \in Parents(Kind(o)) : \E p \in live : Kind(p) = k
=============================================================================
