-------------------------- MODULE MCGraphicsObjects --------------------------
EXTENDS GraphicsObjects

\* A machine on which nothing is wrong, in a release build.
Base ==
  [debug |-> FALSE, arguments |-> TRUE, readable |-> TRUE, gpu |-> TRUE,
   applications |-> {"DrawCube"}, files |-> {"vertices.spv", "fragments.spv"},
   families |-> [f \in 0..0 |-> [graphics |-> TRUE, queues |-> 1]],
   support |-> [f \in 0..0 |-> TRUE],
   types |-> [t \in 0..1 |-> IF t = 0 THEN {"device_local"} ELSE Mapped],
   allowed |-> {0, 1}, modes |-> {"fifo"}, formats |-> <<"undefined">>]

Starts ==
  {Base, [Base EXCEPT !.debug = TRUE], [Base EXCEPT !.arguments = FALSE],
   [Base EXCEPT !.readable = FALSE], [Base EXCEPT !.gpu = FALSE],
   [Base EXCEPT !.applications = {}], [Base EXCEPT !.files = {"fragments.spv"}],
   [Base EXCEPT !.files = {"vertices.spv"}]}

Families == [graphics : BOOLEAN, queues : 1..2]

\* Up to two families, with one queue or two.
Queues ==
  UNION {{[Base EXCEPT !.families = families, !.support = support] :
            families \in [0..last -> Families], support \in [0..last -> BOOLEAN]} :
         last \in 0..1}

\* Two memory types, the host's not without coherence.
Memories ==
  {[Base EXCEPT !.types = types, !.allowed = allowed] :
     types \in [0..1 -> {{}, {"device_local"}, Mapped, Flags}], allowed \in SUBSET (0..1)}

Surfaces ==
  {[Base EXCEPT !.modes = modes, !.formats = <<"r8g8b8a8", "undefined">>] : modes \in SUBSET Modes}

MCMachines == Starts \cup Queues \cup Memories \cup Surfaces
=============================================================================
