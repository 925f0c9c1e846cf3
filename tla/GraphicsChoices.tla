--------------------------- MODULE GraphicsChoices ---------------------------
(***************************************************************************)
(* What Libs/Graphics picks from what a machine offers: queue families,    *)
(* present mode, surface format and memory types; and what                 *)
(* Libs/Configuration finds of the shaders.  Indices count from 0.         *)
(***************************************************************************)
EXTENDS Integers, Sequences

None == -1     \* UINT32_MAX

Least(numbers) == CHOOSE n \in numbers : \A m \in numbers : n <= m

FirstOf(indices) == IF indices = {} THEN None ELSE Least(indices)

Flags == {"device_local", "host_visible", "host_coherent"}

Modes == {"fifo_relaxed", "fifo", "mailbox", "immediate"}

\* What a machine may be like: queue families, and whether each can present; memory types,
\* and which of them a resource may be put in; present modes and formats of the surface.
CountsFrom0(f) == \A i \in DOMAIN f : i \in Nat /\ (i > 0 => i - 1 \in DOMAIN f)

IsMachine(m) ==
  /\ CountsFrom0(m.families) /\ CountsFrom0(m.types)
  /\ \A f \in DOMAIN m.families :
       m.families[f].graphics \in BOOLEAN /\ m.families[f].queues \in Nat
  /\ DOMAIN m.support = DOMAIN m.families
  /\ \A f \in DOMAIN m.support : m.support[f] \in BOOLEAN
  /\ \A t \in DOMAIN m.types : m.types[t] \subseteq Flags
  /\ m.allowed \subseteq DOMAIN m.types
  /\ m.modes \subseteq Modes
  /\ m.formats \in Seq(STRING) /\ m.formats # << >>

-----------------------------------------------------------------------------
(* Queues.  A loop over families and their queues tests the family, and    *)
(* hands out the index of the queue, which is taken for that of a family.  *)

GraphicsFamilies(m) ==
  {f \in DOMAIN m.families : m.families[f].graphics /\ m.families[f].queues > 0}

QueuesOf(m, f) == 0..(m.families[f].queues - 1)

InitializeGraphicsQueueIndex(m) ==
  IF GraphicsFamilies(m) = {} THEN None ELSE Least(QueuesOf(m, Least(GraphicsFamilies(m))))

\* The family a queue is requested of at the creation of the device: one queue, of the
\* same index; when there is none the structure keeps its default, 0.
PrepareGraphicsQueueInfo(m) ==
  LET index == InitializeGraphicsQueueIndex(m) IN IF index = None THEN 0 ELSE index

Presenting(m) == {f \in DOMAIN m.support : m.support[f]}

\* Mutant: given up after the families with graphics.
PresentationOfGraphics(m) ==
  LET graphics == InitializeGraphicsQueueIndex(m)
      first    == {f \in GraphicsFamilies(m) : QueuesOf(m, f) \cap Presenting(m) # {}}
  IN  IF graphics \in Presenting(m) THEN graphics
      ELSE IF first # {} THEN Least(QueuesOf(m, Least(first)) \cap Presenting(m)) ELSE None

\* The graphics index if that presents; else the first index of a queue of a graphics
\* family that presents; else the first that presents.
InitializePresentationQueueIndex(m) ==
  LET graphics == InitializeGraphicsQueueIndex(m)
      first    == {f \in GraphicsFamilies(m) : QueuesOf(m, f) \cap Presenting(m) # {}}
  IN  IF graphics \in Presenting(m) THEN graphics
      ELSE IF first # {} THEN Least(QueuesOf(m, Least(first)) \cap Presenting(m))
      ELSE FirstOf(Presenting(m))

-----------------------------------------------------------------------------
(* The surface.                                                            *)

InitializePreferredPresentMode(m) ==
  CASE "fifo_relaxed" \in m.modes                            -> "fifo_relaxed"
    [] m.modes \cap {"fifo_relaxed", "fifo"} = {"fifo"}      -> "fifo"
    [] m.modes \cap {"fifo_relaxed", "fifo", "mailbox"} = {"mailbox"} -> "mailbox"
    [] OTHER                                                 -> "immediate"

\* A single undefined format leaves the choice to the program.
InitializePreferredSurfaceFormat(m) ==
  IF m.formats = <<"undefined">> THEN "b8g8r8a8" ELSE m.formats[1]

-----------------------------------------------------------------------------
(* Memory.  m.allowed are the bits set in memoryTypeBits, which the loops  *)
(* shift to the right once per memory type.                                *)

\* VulkanGPU::FindMemoryTypeIndex.
FindMemoryTypeIndex(m, requirements) ==
  FirstOf({t \in DOMAIN m.types : t \in m.allowed /\ requirements \subseteq m.types[t]})

\* VulkanUtils::CanFindMemoryTypeFromProperties, and the index it writes to: the 0 the
\* allocation started with is left when there is none.
CanFindMemoryTypeFromProperties(m, requirements) ==
  FindMemoryTypeIndex(m, requirements) # None

FoundMemoryType(m, requirements) ==
  IF CanFindMemoryTypeFromProperties(m, requirements)
  THEN FindMemoryTypeIndex(m, requirements) ELSE 0

Mapped == {"host_visible", "host_coherent"}

-----------------------------------------------------------------------------
(* The configuration, phyre.json: unreadable (or without the lists that    *)
(* are looked up), or with certain applications; and the files that exist. *)

\* Application::OpenResource: whether the application lists the resource is not asked.
OpenResource(m, resource) == resource \in m.files

\* Provider::GetContents up to GetContentsSPIRV: empty without the application or file.
GetContentsSPIRV(m, target, resource) ==
  IF target \in m.applications /\ OpenResource(m, resource) THEN "code" ELSE "empty"

-----------------------------------------------------------------------------
(* Properties.                                                             *)

\* Images are presented through a family that can (vulkan_device.h:45, 64), whenever the
\* machine has one, and by the graphics queue itself when that can.
PresentationFits(m) ==
  LET chosen == InitializePresentationQueueIndex(m)
  IN  /\ Presenting(m) # {} => chosen \in Presenting(m)
      /\ InitializeGraphicsQueueIndex(m) \in Presenting(m)
           => chosen = InitializeGraphicsQueueIndex(m)

\* A resource is put in memory it may be put in and that has the properties asked for,
\* whenever the machine has such memory.
MemoryFits(m) ==
  \A requirements \in {Mapped, {"device_local"}} :
    LET fitting == {t \in m.allowed : requirements \subseteq m.types[t]}
    IN  fitting # {} => /\ FindMemoryTypeIndex(m, requirements) \in fitting
                        /\ FoundMemoryType(m, requirements) \in fitting

\* The swapchain is created with a present mode the surface has, if it has any,
ModeFits(m) == m.modes # {} => InitializePreferredPresentMode(m) \in m.modes

\* and in a format the surface has, unless it takes any.
FormatFits(m) ==
  IF m.formats = <<"undefined">> THEN InitializePreferredSurfaceFormat(m) # "undefined"
  ELSE \E i \in DOMAIN m.formats : m.formats[i] = InitializePreferredSurfaceFormat(m)
=============================================================================
