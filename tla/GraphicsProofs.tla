---------------------------- MODULE GraphicsProofs ----------------------------
(***************************************************************************)
(* For any machines, with any number of queue families, memory types,      *)
(* present modes and formats: what is picked can be had.  And the life of  *)
(* the objects of GraphicsObjects: the types; that each script, run from   *)
(* the state its function is entered in, hands over what exists and leaves *)
(* what the next function expects; and so that nothing is used after it    *)
(* was destroyed, a reload leaks nothing, and parents outlive children.    *)
(***************************************************************************)
EXTENDS GraphicsObjects, SequenceTheorems, WellFoundedInduction, TLAPS

-----------------------------------------------------------------------------
(* What is picked.                                                         *)

\* A loop that returns the first index it finds finds one.
LEMMA LeastFound ==
  ASSUME NEW T, T \subseteq Nat, T # {}
  PROVE  Least(T) \in T
<1>1. PICK n \in T : \A m \in T : ~ (<<m, n>> \in OpToRel(<, Nat))
  BY WFMin, NatLessThanWellFounded
<1>2. ASSUME NEW m \in T
      PROVE  n <= m
  <2>1. m \in Nat /\ n \in Nat
    BY <1>2
  <2>2. ~ (m < n)
    BY <1>1, <1>2, <2>1 DEF OpToRel
  <2> QED
    BY <2>1, <2>2
<1>3. \E x \in T : \A m \in T : x <= m
  BY <1>2
<1> QED
  BY <1>3 DEF Least

LEMMA FirstFound ==
  ASSUME NEW T, T \subseteq Nat, T # {}
  PROVE  FirstOf(T) \in T
BY LeastFound DEF FirstOf

\* VulkanDevice::InitializePresentationQueueIndex.
LEMMA PresentationFound ==
  ASSUME NEW m, IsMachine(m)
  PROVE  PresentationFits(m)
<1> DEFINE graphics == InitializeGraphicsQueueIndex(m)
           first    == {f \in GraphicsFamilies(m) : QueuesOf(m, f) \cap Presenting(m) # {}}
           chosen   == InitializePresentationQueueIndex(m)
<1>0. /\ chosen = IF graphics \in Presenting(m) THEN graphics
                  ELSE IF first # {} THEN Least(QueuesOf(m, Least(first)) \cap Presenting(m))
                  ELSE FirstOf(Presenting(m))
  BY DEF InitializePresentationQueueIndex
<1>1. Presenting(m) \subseteq Nat /\ first \subseteq Nat
  BY DEF Presenting, GraphicsFamilies, IsMachine, CountsFrom0
<1>2. \A f \in first : QueuesOf(m, f) \cap Presenting(m) # {}
  OBVIOUS
<1> HIDE DEF graphics, first, chosen
<1>3. graphics \in Presenting(m) => chosen = graphics
  BY <1>0
<1>4. ASSUME graphics \notin Presenting(m), first # {}
      PROVE  chosen \in Presenting(m)
  <2>1. Least(first) \in first
    BY <1>1, <1>4, LeastFound
  <2> DEFINE T == QueuesOf(m, Least(first)) \cap Presenting(m)
  <2>2. T # {} /\ T \subseteq Nat /\ T \subseteq Presenting(m)
    BY <1>1, <1>2, <2>1
  <2>3. chosen = Least(T)
    BY <1>0, <1>4
  <2> HIDE DEF T
  <2>4. Least(T) \in T
    BY <2>2, LeastFound
  <2> QED
    BY <2>2, <2>3, <2>4
<1>5. ASSUME graphics \notin Presenting(m), first = {}, Presenting(m) # {}
      PROVE  chosen \in Presenting(m)
  <2>1. chosen = FirstOf(Presenting(m))
    BY <1>0, <1>5
  <2> QED
    BY <1>1, <1>5, <2>1, FirstFound
<1>6. Presenting(m) # {} => chosen \in Presenting(m)
  BY <1>3, <1>4, <1>5
<1> QED
  BY <1>3, <1>6 DEF PresentationFits, graphics, chosen

\* VulkanGPU::FindMemoryTypeIndex and VulkanUtils::CanFindMemoryTypeFromProperties.
LEMMA MemoryFound ==
  ASSUME NEW m, IsMachine(m)
  PROVE  MemoryFits(m)
<1> SUFFICES ASSUME NEW requirements,
                    {t \in m.allowed : requirements \subseteq m.types[t]} # {}
             PROVE  /\ FindMemoryTypeIndex(m, requirements)
                         \in {t \in m.allowed : requirements \subseteq m.types[t]}
                    /\ FoundMemoryType(m, requirements)
                         \in {t \in m.allowed : requirements \subseteq m.types[t]}
  BY DEF MemoryFits
<1> DEFINE T == {t \in DOMAIN m.types : t \in m.allowed /\ requirements \subseteq m.types[t]}
<1>1. T = {t \in m.allowed : requirements \subseteq m.types[t]}
  BY DEF IsMachine
<1>2. T \subseteq Nat /\ T # {}
  BY <1>1 DEF IsMachine, CountsFrom0
<1>3. FindMemoryTypeIndex(m, requirements) = FirstOf(T)
  BY DEF FindMemoryTypeIndex
<1> HIDE DEF T
<1>4. FirstOf(T) \in T
  BY <1>2, FirstFound
<1>5. FirstOf(T) # None
  BY <1>2, <1>4 DEF None
<1>6. FoundMemoryType(m, requirements) = FirstOf(T)
  BY <1>3, <1>5 DEF FoundMemoryType, CanFindMemoryTypeFromProperties
<1> QED
  BY <1>1, <1>3, <1>4, <1>6

\* VulkanWindow::InitializePreferredPresentMode.
LEMMA ModeFound ==
  ASSUME NEW m, IsMachine(m)
  PROVE  ModeFits(m)
<1> DEFINE mode == InitializePreferredPresentMode(m)
<1>0. m.modes \subseteq {"fifo_relaxed", "fifo", "mailbox", "immediate"}
  BY DEF IsMachine, Modes
<1>1. CASE "fifo_relaxed" \in m.modes
  <2>1. mode = "fifo_relaxed"
    BY <1>1 DEF InitializePreferredPresentMode
  <2> QED
    BY <1>1, <2>1 DEF ModeFits
<1>2. CASE "fifo_relaxed" \notin m.modes /\ "fifo" \in m.modes
  <2>1. mode = "fifo"
    BY <1>2 DEF InitializePreferredPresentMode
  <2> QED
    BY <1>2, <2>1 DEF ModeFits
<1>3. CASE "fifo_relaxed" \notin m.modes /\ "fifo" \notin m.modes /\ "mailbox" \in m.modes
  <2>1. mode = "mailbox"
    BY <1>3 DEF InitializePreferredPresentMode
  <2> QED
    BY <1>3, <2>1 DEF ModeFits
<1>4. CASE "fifo_relaxed" \notin m.modes /\ "fifo" \notin m.modes /\ "mailbox" \notin m.modes
  <2>1. mode = "immediate"
    BY <1>4 DEF InitializePreferredPresentMode
  <2>2. m.modes # {} => "immediate" \in m.modes
    BY <1>0, <1>4
  <2> QED
    BY <2>1, <2>2 DEF ModeFits
<1> QED
  BY <1>1, <1>2, <1>3, <1>4

\* VulkanWindow::InitializePreferredSurfaceFormat.
LEMMA FormatFound ==
  ASSUME NEW m, IsMachine(m)
  PROVE  FormatFits(m)
<1>1. 1 \in DOMAIN m.formats
  BY EmptySeq, LenProperties DEF IsMachine
<1> QED
  BY <1>1 DEF FormatFits, InitializePreferredSurfaceFormat

\* The machine does not change.
LEMMA SameMachine ==
  ASSUME [Next]_vars
  PROVE  machine' = machine
BY DEF Next, MainThread, Enter, Return, Throw, Exit, Loaded, Go, Close, Stop, Destroyed, vars

\* On any machine, the queue family to present with, the memory, the present mode and the
\* format that are picked can be had of it.
THEOREM ChoicesAlwaysFit == Spec => []ChoicesFit
<1>1. Init => machine \in Machines
  BY DEF Init
<1>2. machine \in Machines /\ [Next]_vars => (machine \in Machines)'
  BY SameMachine
<1>3. machine \in Machines => ChoicesFit
  BY MachinesAssumption, PresentationFound, MemoryFound, ModeFound, FormatFound DEF ChoicesFit
<1> QED
  BY <1>1, <1>2, <1>3, PTL DEF Spec

-----------------------------------------------------------------------------
(* Types.                                                                  *)

\* Every kind by its name.
LEMMA KindNames ==
  {"swapchain", "views", "depth_image", "depth_memory", "depth_view", "image_acquired",
   "os_window", "surface", "uniform_buffer", "uniform_memory", "instance", "debug_callback",
   "render_pass", "framebuffers", "device", "vertex_module", "fragment_module", "vertex_buffer",
   "vertex_memory", "descriptor_pool", "descriptor_set_layout", "descriptor_sets",
   "pipeline_cache", "pipeline_layout", "pipeline", "command_pool", "command_buffers",
   "render_finished"} \subseteq Kinds
BY DEF Kinds, Owned, Swapchain, Window, Uniform

\* What members hold, and what is made for them.
HeldTyped == \A k \in Kinds : held[k] \in {Null, <<k, 0>>, <<k, 1>>}

LEMMA ObjectTypes ==
  ASSUME HeldTyped
  PROVE  /\ \A k : ParentKinds(k) \subseteq Kinds
         /\ \A kinds \in SUBSET Kinds : Held(kinds) \subseteq Objects
         /\ \A k \in Kinds : New(k) \in Objects
         /\ \A kinds \in SUBSET Kinds : NewOnes(kinds) \subseteq Objects
<1>1. \A k : ParentKinds(k) \subseteq Kinds
  BY KindNames DEF ParentKinds
<1>2. \A k \in Kinds : held[k] \in {Null} \cup Objects
  BY DEF HeldTyped, Objects
<1>3. \A kinds \in SUBSET Kinds : Held(kinds) \subseteq Objects
  BY <1>2 DEF Held
<1>4. \A k \in Kinds : New(k) \in Objects
  BY DEF New, Objects
<1> QED
  BY <1>1, <1>3, <1>4 DEF NewOnes

\* One call, or none.
LEMMA OneCall ==
  ASSUME NEW uses \in SUBSET Objects, NEW makes \in SUBSET Objects,
         NEW frees \in SUBSET Objects, NEW keeps \in SUBSET Objects, NEW outcome \in Outcomes
  PROVE  <<Call(uses, makes, frees, keeps, outcome)>> \in Seq(Calls)
BY DEF Call, Calls

LEMMA NoCall == << >> \in Seq(Calls)
BY EmptySeq

\* The calls that scripts are made of.
LEMMA CallsTyped ==
  ASSUME HeldTyped
  PROVE  /\ \A objects \in SUBSET Objects : Use(objects) \in Seq(Calls)
         /\ \A objects \in SUBSET Objects, kinds \in SUBSET Kinds :
              Keep(objects, kinds) \in Seq(Calls)
         /\ \A condition : Require(condition) \in Seq(Calls)
         /\ \A k \in Kinds, uses \in SUBSET Objects, keeps \in SUBSET Kinds :
              Part(k, uses, keeps) \in Seq(Calls)
         /\ \A k \in Kinds, uses \in SUBSET Objects : Make(k, uses) \in Seq(Calls)
         /\ \A k \in Kinds : Free(k) \in Seq(Calls)
<1>0. {} \in SUBSET Objects /\ {"returns", "may throw", "throws", "exits"} = Outcomes
  BY DEF Outcomes
<1>1. \A objects \in SUBSET Objects : Use(objects) \in Seq(Calls)
  BY <1>0, OneCall DEF Use
<1>2. \A objects \in SUBSET Objects, kinds \in SUBSET Kinds : Keep(objects, kinds) \in Seq(Calls)
  BY <1>0, OneCall, ObjectTypes DEF Keep
<1>3. \A condition : Require(condition) \in Seq(Calls)
  <2> TAKE condition
  <2>1. <<Call({}, {}, {}, {}, "throws")>> \in Seq(Calls)
    BY <1>0, OneCall
  <2> QED
    BY <2>1, NoCall DEF Require
<1>4. ASSUME NEW k \in Kinds, NEW uses \in SUBSET Objects, NEW keeps \in SUBSET Kinds
      PROVE  Part(k, uses, keeps) \in Seq(Calls)
  <2>1. /\ uses \cup Held(ParentKinds(k)) \in SUBSET Objects
        /\ {New(k)} \in SUBSET Objects
        /\ NewOnes(keeps) \in SUBSET Objects
    BY ObjectTypes
  <2> QED
    BY <1>0, <2>1, OneCall DEF Part
<1>5. \A k \in Kinds, uses \in SUBSET Objects : Make(k, uses) \in Seq(Calls)
  BY <1>4 DEF Make
<1>6. ASSUME NEW k \in Kinds
      PROVE  Free(k) \in Seq(Calls)
  <2>1. held[k] # Null => {held[k]} \in SUBSET Objects
    BY DEF HeldTyped, Objects
  <2>2. Held(ParentKinds(k)) \in SUBSET Objects
    BY ObjectTypes
  <2>3. held[k] # Null =>
          <<Call(Held(ParentKinds(k)), {}, {held[k]}, {}, "returns")>> \in Seq(Calls)
    BY <1>0, <2>1, <2>2, OneCall
  <2> QED
    BY <2>3, NoCall DEF Free
<1> QED
  BY <1>1, <1>2, <1>3, <1>4, <1>5, <1>6

\* One script after another.
LEMMA Chained ==
  ASSUME NEW s \in Seq(Calls), NEW t \in Seq(Calls)
  PROVE  s \o t \in Seq(Calls)
BY ConcatProperties

\* Names of functions.
FunctionNames ==
  {"VulkanInstance", "CheckArguments", "Provider", "StartDebugger", "LoadGPUs", "LoadWindow",
   "LoadDevice", "LoadSwapchain", "LoadShaderModules", "LoadVertexBuffer",
   "LoadUniformBuffer", "LoadDescriptorPool", "LoadDescriptorSets", "LoadRenderPass",
   "LoadFrameBuffers", "LoadPipelineCache", "LoadPipelineLayout", "LoadPipeline",
   "LoadCommandPool", "LoadCommandBuffers", "LoadSemaphores", "BeginRender", "Draw",
   "EndRender", "UpdateUniformBuffers", "WaitIdle", "DestroyLocals", "DestroyDrawCube",
   "DestroyMembers"}

\* Every function's script is one of calls.
LEMMA ScriptsTyped ==
  ASSUME HeldTyped
  PROVE  \A function \in FunctionNames : Script(function) \in Seq(Calls)
<1> USE KindNames, ObjectTypes, CallsTyped, Chained, NoCall
<1>1. VulkanInstance \in Seq(Calls)
  BY DEF VulkanInstance
<1>2. CheckArguments \in Seq(Calls)
  <2>1. {} \in SUBSET Objects /\ "exits" \in Outcomes
    BY DEF Outcomes
  <2>2. <<Call({}, {}, {}, {}, "exits")>> \in Seq(Calls)
    BY <2>1, OneCall
  <2> QED
    BY <2>2 DEF CheckArguments
<1>3. Provider \in Seq(Calls)
  BY DEF Provider
<1>4. StartDebugger \in Seq(Calls)
  BY DEF StartDebugger
<1>5. LoadGPUs \in Seq(Calls)
  BY DEF LoadGPUs
<1>6. LoadWindow \in Seq(Calls)
  BY DEF LoadWindow, Window
<1>7. LoadDevice \in Seq(Calls)
  BY DEF LoadDevice
<1>8. LoadSwapchain \in Seq(Calls)
  BY DEF LoadSwapchain, InitializeDepthImage, DestroySwapchain, Swapchain
<1>9. LoadShaderModules \in Seq(Calls)
  BY DEF LoadShaderModules
<1>10. LoadVertexBuffer \in Seq(Calls)
  BY DEF LoadVertexBuffer
<1>11. LoadUniformBuffer \in Seq(Calls)
  BY DEF LoadUniformBuffer, UpdateUniformBuffers, Uniform
<1>12. LoadDescriptorPool \in Seq(Calls)
  BY DEF LoadDescriptorPool
<1>13. LoadDescriptorSets \in Seq(Calls)
  BY DEF LoadDescriptorSets
<1>14. LoadRenderPass \in Seq(Calls)
  BY DEF LoadRenderPass, DestroyRenderPass
<1>15. LoadFrameBuffers \in Seq(Calls)
  BY DEF LoadFrameBuffers, DestroyFramebuffers
<1>16. LoadPipelineCache \in Seq(Calls)
  BY DEF LoadPipelineCache
<1>17. LoadPipelineLayout \in Seq(Calls)
  BY DEF LoadPipelineLayout
<1>18. LoadPipeline \in Seq(Calls)
  BY DEF LoadPipeline
<1>19. LoadCommandPool \in Seq(Calls)
  BY DEF LoadCommandPool
<1>20. LoadCommandBuffers \in Seq(Calls)
  BY DEF LoadCommandBuffers
<1>21. LoadSemaphores \in Seq(Calls)
  BY DEF LoadSemaphores
<1>22. BeginRender \in Seq(Calls)
  BY DEF BeginRender
<1>23. Draw \in Seq(Calls)
  BY DEF Draw
<1>24. EndRender \in Seq(Calls)
  BY DEF EndRender
<1>25. WaitIdle \in Seq(Calls)
  BY DEF WaitIdle
<1>26. DestroyLocals \in Seq(Calls)
  <2>1. {<<"os_window", 0>>} \in SUBSET Objects /\ {} \in SUBSET Objects /\ "returns" \in Outcomes
    BY DEF Objects, Outcomes
  <2>2. <<Call({}, {}, {<<"os_window", 0>>}, {}, "returns")>> \in Seq(Calls)
    BY <2>1, OneCall
  <2> QED
    BY <2>2 DEF DestroyLocals
<1>27. DestroyDrawCube \in Seq(Calls)
  BY DEF DestroyDrawCube, DestroyFramebuffers, DestroyRenderPass, DestroyUniform,
         DestroyVertexBuffer, DestroyShaderModules, DestroySwapchain, DestroyWindow
<1>28. DestroyMembers \in Seq(Calls)
  BY DEF DestroyMembers, DestroyRenderPass, DestroyUniform, DestroySwapchain, DestroyWindow
<1>29. UpdateUniformBuffers(Held({"uniform_memory"})) \in Seq(Calls)
  BY DEF UpdateUniformBuffers
<1> QED
  BY <1>1, <1>2, <1>3, <1>4, <1>5, <1>6, <1>7, <1>8, <1>9, <1>10, <1>11, <1>12,
     <1>13, <1>14, <1>15, <1>16, <1>17, <1>18, <1>19, <1>20, <1>21, <1>22, <1>23, <1>24, <1>25,
     <1>26, <1>27, <1>28, <1>29
  DEF FunctionNames, Script

\* What is left to be called has names.
Named == functions \in Seq(FunctionNames)

\* A call that returns keeps to the types.
LEMMA ReturnTyped ==
  ASSUME TypeOK, Return
  PROVE  TypeOK'
<1> DEFINE call    == Head(calls)
           pooled  == {o \in live : \E pool \in call.frees : Pooled(pool[1], o[1])}
           kept(k) == {o \in call.keeps : o[1] = k}
<1>1. calls # << >> /\ call \in Calls /\ Tail(calls) \in Seq(Calls)
  <2>1. calls # << >>
    BY DEF Return
  <2> QED
    BY <2>1, HeadTailProperties DEF TypeOK
<1>2. /\ live' = (live \ (call.frees \cup pooled)) \cup call.makes
      /\ held' = [k \in Kinds |->
                    IF kept(k) # {} THEN CHOOSE o \in kept(k) : TRUE
                    ELSE IF k \in Owned /\ held[k] \in call.frees THEN Null
                    ELSE held[k]]
      /\ calls' = Tail(calls)
      /\ UNCHANGED <<machine, pc, functions, failed>>
  BY DEF Return
<1>3. call.makes \subseteq Objects /\ call.keeps \subseteq Objects
  BY <1>1 DEF Calls
<1>4. ASSUME NEW k \in Kinds
      PROVE  held'[k] \in {Null, <<k, 0>>, <<k, 1>>}
  <2>1. held[k] \in {Null, <<k, 0>>, <<k, 1>>}
    BY DEF TypeOK
  <2>2. kept(k) # {} => (CHOOSE o \in kept(k) : TRUE) \in {<<k, 0>>, <<k, 1>>}
    <3>1. \A o \in kept(k) : o \in {<<k, 0>>, <<k, 1>>}
      BY <1>3 DEF Objects
    <3> HIDE DEF kept
    <3> QED
      BY <3>1
  <2>3. \/ kept(k) # {} /\ held'[k] = CHOOSE o \in kept(k) : TRUE
        \/ held'[k] = Null
        \/ held'[k] = held[k]
    <3> HIDE DEF kept, call
    <3> QED
      BY <1>2
  <2> QED
    BY <2>1, <2>2, <2>3
<1>5. held' \in [Kinds -> Objects \cup {Null}]
  <2>1. \A k \in Kinds : held'[k] \in Objects \cup {Null}
    BY <1>4 DEF Objects
  <2>2. held' = [k \in Kinds |-> held'[k]]
    <3> HIDE DEF kept, call
    <3> QED
      BY <1>2
  <2> QED
    BY <2>1, <2>2
<1>6. live' \subseteq Objects
  BY <1>2, <1>3 DEF TypeOK
<1> QED
  BY <1>1, <1>2, <1>4, <1>5, <1>6 DEF TypeOK

\* What a function calls is called by name.
LEMMA NamesTyped ==
  /\ DrawCube \in Seq(FunctionNames)
  /\ Frame \in Seq(FunctionNames) /\ ReloadSwapchain \in Seq(FunctionNames)
  /\ Frame \o ReloadSwapchain \in Seq(FunctionNames)
  /\ <<"UpdateUniformBuffers">> \in Seq(FunctionNames)
  /\ <<"DestroyLocals", "DestroyMembers">> \in Seq(FunctionNames)
  /\ <<"DestroyDrawCube", "DestroyMembers">> \in Seq(FunctionNames)
  /\ <<"WaitIdle", "DestroyDrawCube", "DestroyMembers">> \in Seq(FunctionNames)
  /\ << >> \in Seq(FunctionNames)
<1>1. LoadGraphics \in Seq(FunctionNames)
  BY DEF LoadGraphics, FunctionNames
<1>2. <<"VulkanInstance", "CheckArguments", "Provider">> \in Seq(FunctionNames)
  BY DEF FunctionNames
<1>3. Frame \in Seq(FunctionNames) /\ ReloadSwapchain \in Seq(FunctionNames)
  BY DEF Frame, ReloadSwapchain, FunctionNames
<1>4. /\ <<"UpdateUniformBuffers">> \in Seq(FunctionNames)
      /\ <<"DestroyLocals", "DestroyMembers">> \in Seq(FunctionNames)
      /\ <<"DestroyDrawCube", "DestroyMembers">> \in Seq(FunctionNames)
      /\ <<"WaitIdle", "DestroyDrawCube", "DestroyMembers">> \in Seq(FunctionNames)
  BY DEF FunctionNames
<1> QED
  BY <1>1, <1>2, <1>3, <1>4, ConcatProperties, EmptySeq DEF DrawCube

LEMMA StepTyped ==
  ASSUME TypeOK, Named, [Next]_vars
  PROVE  TypeOK' /\ Named'
<1> USE NamesTyped
<1>1. ASSUME Enter PROVE TypeOK' /\ Named'
  <2>1. functions # << >>
    BY <1>1 DEF Enter
  <2>2. Head(functions) \in FunctionNames /\ Tail(functions) \in Seq(FunctionNames)
    BY <2>1, HeadTailProperties DEF Named
  <2>3. HeldTyped
    BY DEF TypeOK, HeldTyped
  <2>4. calls' \in Seq(Calls)
    BY <1>1, <2>2, <2>3, ScriptsTyped DEF Enter
  <2> QED
    BY <1>1, <2>2, <2>4 DEF Enter, TypeOK, Named
<1>2. ASSUME Return PROVE TypeOK' /\ Named'
  BY <1>2, ReturnTyped DEF Return, Named
<1>3. ASSUME Throw PROVE TypeOK' /\ Named'
  BY <1>3, NoCall DEF Throw, TypeOK, Named
<1>4. ASSUME Exit PROVE TypeOK' /\ Named'
  BY <1>4, NoCall DEF Exit, TypeOK, Named
<1>5. ASSUME Loaded \/ Destroyed PROVE TypeOK' /\ Named'
  BY <1>5 DEF Loaded, Destroyed, TypeOK, Named
<1>6. ASSUME Go \/ Stop PROVE TypeOK' /\ Named'
  <2>1. Named'
    BY <1>6 DEF Go, Stop, Named
  <2> QED
    BY <1>6, <2>1 DEF Go, Stop, TypeOK
<1>7. ASSUME Close PROVE TypeOK' /\ Named'
  <2>1. \A k \in Kinds : held'[k] = Null \/ held'[k] = held[k]
    BY <1>7 DEF Close, TypeOK
  <2>2. held' \in [Kinds -> Objects \cup {Null}]
    BY <1>7 DEF Close, TypeOK
  <2> QED
    BY <1>7, <2>1, <2>2 DEF Close, TypeOK, Named
<1>8. ASSUME UNCHANGED vars PROVE TypeOK' /\ Named'
  BY <1>8 DEF vars, TypeOK, Named
<1> QED
  BY <1>1, <1>2, <1>3, <1>4, <1>5, <1>6, <1>7, <1>8 DEF Next, MainThread

\* Calls are handed objects and nothing else, and a member holds one of its own kind: the
\* old one or the new one of a reload, or null.
THEOREM ObjectsTyped == Spec => []TypeOK
<1>1. Init => TypeOK /\ Named
  BY NamesTyped, NoCall DEF Init, TypeOK, Named
<1>2. TypeOK /\ Named /\ [Next]_vars => (TypeOK /\ Named)'
  BY StepTyped
<1> QED
  BY <1>1, <1>2, PTL DEF Spec

-----------------------------------------------------------------------------
(* Scripts.  A script runs from a state of the objects to another when each *)
(* of its calls is good in the state it is made in.                        *)

Now == [live |-> live, held |-> held]

Kept(c, k) == {o \in c.keeps : o[1] = k}

\* What is allocated from the pools among these objects.
PooledOf(pools, objects) == {o \in objects : \E pool \in pools : Pooled(pool[1], o[1])}

\* What the return of a call leaves, as in Return.
After(a, c) ==
  [live |-> (a.live \ (c.frees \cup PooledOf(c.frees, a.live))) \cup c.makes,
   held |-> [k \in Kinds |-> IF Kept(c, k) # {} THEN CHOOSE o \in Kept(c, k) : TRUE
                             ELSE IF k \in Owned /\ a.held[k] \in c.frees THEN Null
                             ELSE a.held[k]]]

HeldLive(a) == \A k \in Kinds : a.held[k] # Null => a.held[k] \in a.live

\* What exists is what is held.
Clean(a) == HeldLive(a) /\ \A o \in a.live : a.held[o[1]] = o

\* A call takes one step of the tree at most.
TreeStep(a, c) ==
  \/ c.makes = {} /\ c.frees = {}
  \/ \E o \in Objects :
       /\ c.makes = {o} /\ c.frees = {} /\ o \notin a.live
       /\ \A k \in ParentKinds(o[1]) : \E p \in a.live : p[1] = k
  \/ \E o \in a.live :
       /\ c.makes = {} /\ c.frees = {o}
       /\ \A x \in a.live : o[1] \in ParentKinds(x[1]) => Pooled(o[1], x[1])

\* What is handed to a call exists, and where it may throw so does all that is held.
Good(strict, a, c) ==
  /\ c.uses \cup c.frees \subseteq a.live
  /\ c.outcome \in {"may throw", "throws"} => HeldLive(a)
  /\ strict => TreeStep(a, c)

Runs(strict, a, s, b) ==
  \E path :
    /\ path[0] = a /\ path[Len(s)] = b
    /\ \A i \in 1..Len(s) : /\ Good(strict, path[i - 1], s[i])
                            /\ path[i] = After(path[i - 1], s[i])

LEMMA RunsNothing ==
  ASSUME NEW strict, NEW a
  PROVE  Runs(strict, a, << >>, a)
<1> DEFINE path == [i \in {0} |-> a]
<1>1. path[0] = a
  OBVIOUS
<1>2. Len(<< >>) = 0 /\ 1..0 = {}
  BY EmptySeq
<1> HIDE DEF path
<1> QED
  BY <1>1, <1>2 DEF Runs

\* An empty script leaves things as they are.
LEMMA RanNothing ==
  ASSUME NEW strict, NEW a, NEW b, Runs(strict, a, << >>, b)
  PROVE  b = a
<1>1. Len(<< >>) = 0
  BY EmptySeq
<1> QED
  BY <1>1 DEF Runs

LEMMA RunsOne ==
  ASSUME NEW strict, NEW a, NEW c, Good(strict, a, c)
  PROVE  Runs(strict, a, <<c>>, After(a, c))
<1> DEFINE path == [i \in {0, 1} |-> IF i = 0 THEN a ELSE After(a, c)]
<1>1. path[0] = a /\ path[1] = After(a, c)
  OBVIOUS
<1>2. Len(<<c>>) = 1 /\ <<c>>[1] = c
  OBVIOUS
<1> HIDE DEF path
<1>3. \A i \in 1..1 : /\ Good(strict, path[i - 1], <<c>>[i])
                      /\ path[i] = After(path[i - 1], <<c>>[i])
  <2> TAKE i \in 1..1
  <2>1. i = 1 /\ i - 1 = 0
    OBVIOUS
  <2> QED
    BY <1>1, <1>2, <2>1
<1> QED
  BY <1>1, <1>2, <1>3 DEF Runs

\* One script after another.
LEMMA RunsBoth ==
  ASSUME NEW strict, NEW a, NEW b, NEW d, NEW s \in Seq(Calls), NEW t \in Seq(Calls),
         Runs(strict, a, s, b), Runs(strict, b, t, d)
  PROVE  Runs(strict, a, s \o t, d)
<1>1. PICK p : /\ p[0] = a /\ p[Len(s)] = b
               /\ \A i \in 1..Len(s) : /\ Good(strict, p[i - 1], s[i])
                                       /\ p[i] = After(p[i - 1], s[i])
  BY DEF Runs
<1>2. PICK q : /\ q[0] = b /\ q[Len(t)] = d
               /\ \A i \in 1..Len(t) : /\ Good(strict, q[i - 1], t[i])
                                       /\ q[i] = After(q[i - 1], t[i])
  BY DEF Runs
<1> DEFINE m == Len(s)
           n == Len(t)
           path == [i \in 0..(m + n) |-> IF i <= m THEN p[i] ELSE q[i - m]]
<1>3. m \in Nat /\ n \in Nat
  BY LenProperties
<1>4. Len(s \o t) = m + n
  BY ConcatProperties
<1>5. \A i \in 1..(m + n) : (s \o t)[i] = IF i <= m THEN s[i] ELSE t[i - m]
  BY ConcatProperties
<1>6. \A i \in 0..(m + n) : path[i] = IF i <= m THEN p[i] ELSE q[i - m]
  OBVIOUS
<1> HIDE DEF m, n, path
<1>7. path[0] = a
  BY <1>1, <1>3, <1>6
<1>8. path[m + n] = d
  <2>1. CASE n = 0
    <3>1. m + n = m /\ m + n <= m
      BY <1>3, <2>1
    <3>2. d = b
      BY <1>2, <2>1 DEF n
    <3>3. path[m + n] = p[m]
      BY <1>3, <1>6, <3>1
    <3> QED
      BY <1>1, <3>2, <3>3 DEF m
  <2>2. CASE n # 0
    <3>1. ~ (m + n <= m) /\ (m + n) - m = n /\ m + n \in 0..(m + n)
      BY <1>3, <2>2
    <3> QED
      BY <1>2, <1>6, <3>1 DEF n
  <2> QED
    BY <2>1, <2>2
<1>9. ASSUME NEW i \in 1..(m + n)
      PROVE  /\ Good(strict, path[i - 1], (s \o t)[i])
             /\ path[i] = After(path[i - 1], (s \o t)[i])
  <2>1. CASE i <= m
    <3>1. i \in 1..m /\ i - 1 <= m /\ i \in 0..(m + n) /\ i - 1 \in 0..(m + n)
      BY <1>3, <2>1
    <3>2. path[i] = p[i] /\ path[i - 1] = p[i - 1] /\ (s \o t)[i] = s[i]
      BY <1>5, <1>6, <2>1, <3>1
    <3> QED
      BY <1>1, <3>1, <3>2 DEF m
  <2>2. CASE ~ (i <= m)
    <3> DEFINE j == i - m
    <3>1. j \in 1..n /\ i \in 0..(m + n) /\ i - 1 \in 0..(m + n)
      BY <1>3, <2>2
    <3>2. path[i] = q[j] /\ (s \o t)[i] = t[j]
      BY <1>5, <1>6, <2>2, <3>1
    <3>3. path[i - 1] = q[j - 1]
      <4>1. CASE i - 1 <= m
        <5>1. i - 1 = m /\ j - 1 = 0
          BY <1>3, <2>2, <4>1
        <5>2. path[i - 1] = p[m]
          BY <1>6, <3>1, <4>1, <5>1
        <5> QED
          BY <1>1, <1>2, <5>1, <5>2 DEF m
      <4>2. CASE ~ (i - 1 <= m)
        <5>1. (i - 1) - m = j - 1
          BY <1>3
        <5>2. path[i - 1] = q[(i - 1) - m]
          BY <1>6, <3>1, <4>2
        <5> QED
          BY <5>1, <5>2
      <4> QED
        BY <4>1, <4>2
    <3> HIDE DEF j
    <3> QED
      BY <1>2, <3>1, <3>2, <3>3 DEF n
  <2> QED
    BY <2>1, <2>2
<1> QED
  BY <1>4, <1>7, <1>8, <1>9 DEF Runs

\* The first call is good, and the others run from what it leaves.
LEMMA RunsRest ==
  ASSUME NEW strict, NEW a, NEW b, NEW s \in Seq(Calls), s # << >>, Runs(strict, a, s, b)
  PROVE  /\ Good(strict, a, Head(s))
         /\ Runs(strict, After(a, Head(s)), Tail(s), b)
<1>1. PICK p : /\ p[0] = a /\ p[Len(s)] = b
               /\ \A i \in 1..Len(s) : /\ Good(strict, p[i - 1], s[i])
                                       /\ p[i] = After(p[i - 1], s[i])
  BY DEF Runs
<1> DEFINE n == Len(s) - 1
           path == [i \in 0..n |-> p[i + 1]]
<1>2. n \in Nat /\ Len(s) = n + 1
  BY EmptySeq
<1>3. Len(Tail(s)) = n /\ Head(s) = s[1]
  BY HeadTailProperties
<1>4. \A i \in 1..n : Tail(s)[i] = s[i + 1]
  BY <1>3, HeadTailProperties
<1>5. \A i \in 0..n : path[i] = p[i + 1]
  OBVIOUS
<1> HIDE DEF n, path
<1>6. Good(strict, p[0], s[1]) /\ p[1] = After(p[0], s[1])
  <2>1. 1 \in 1..Len(s) /\ 1 - 1 = 0
    BY <1>2
  <2>2. Good(strict, p[1 - 1], s[1]) /\ p[1] = After(p[1 - 1], s[1])
    BY <1>1, <2>1
  <2> QED
    BY <2>1, <2>2
<1>7. path[0] = After(a, Head(s)) /\ path[n] = b
  <2>1. 0 \in 0..n /\ n \in 0..n /\ 0 + 1 = 1
    BY <1>2
  <2>2. path[0] = p[1] /\ path[n] = p[n + 1]
    BY <1>5, <2>1
  <2> QED
    BY <1>1, <1>2, <1>3, <1>6, <2>2
<1>8. ASSUME NEW i \in 1..n
      PROVE  /\ Good(strict, path[i - 1], Tail(s)[i])
             /\ path[i] = After(path[i - 1], Tail(s)[i])
  <2>1. i + 1 \in 1..Len(s) /\ (i + 1) - 1 = i /\ i \in 0..n /\ i - 1 \in 0..n /\ (i - 1) + 1 = i
    BY <1>2
  <2>2. Good(strict, p[(i + 1) - 1], s[i + 1]) /\ p[i + 1] = After(p[(i + 1) - 1], s[i + 1])
    BY <1>1, <2>1
  <2>3. path[i] = p[i + 1] /\ path[i - 1] = p[(i - 1) + 1]
    BY <1>5, <2>1
  <2> QED
    BY <1>4, <2>1, <2>2, <2>3
<1>9. Good(strict, a, Head(s))
  BY <1>1, <1>3, <1>6
<1>10. Runs(strict, After(a, Head(s)), Tail(s), b)
  BY <1>3, <1>7, <1>8 DEF Runs
<1> QED
  BY <1>9, <1>10

-----------------------------------------------------------------------------
(* The middle of a function, in terms of the state it was entered in: new   *)
(* objects of some kinds were made, what was held of others was freed, and  *)
(* members hold the new objects of a third.                                 *)

FreedOf(Q) == Held(Q) \cup PooledOf(Held(Q), live)

Mid(P, Q, K) ==
  [live |-> (live \ FreedOf(Q)) \cup NewOnes(P),
   held |-> [k \in Kinds |-> IF k \in K THEN New(k)
                             ELSE IF k \in Q /\ k \in Owned THEN Null
                             ELSE held[k]]]

Pools == {"command_pool", "descriptor_pool"}

Allocated == {"command_buffers", "descriptor_sets"}

\* Who is a parent, and of what.
LEMMA ParentsNamed ==
  /\ \A k : ParentKinds(k) \subseteq {"instance", "device", "surface"} \cup Pools
  /\ \A k : ParentKinds(k) \cap Allocated = {}
  /\ \A p, k : Pooled(p, k) => p \in Pools /\ k \in Allocated
  /\ Pools \cap Owned = {}
<1>1. \A k : ParentKinds(k) \subseteq {"instance", "device", "surface"} \cup Pools
  BY DEF ParentKinds, Pools
<1>2. \A p, k : Pooled(p, k) => p \in Pools /\ k \in Allocated
  BY DEF Pooled, Pools, Allocated
<1>3. Pools \cap Owned = {}
  BY DEF Pools, Owned, Swapchain, Window, Uniform
<1>4. ({"instance", "device", "surface"} \cup Pools) \cap Allocated = {}
  BY DEF Pools, Allocated
<1> QED
  BY <1>1, <1>2, <1>3, <1>4

\* Objects are what TypeOK has them be.
Typed == HeldTyped /\ live \subseteq Objects /\ held \in [Kinds -> Objects \cup {Null}]

LEMMA TypedNow == TypeOK => Typed
BY DEF TypeOK, Typed, HeldTyped

\* A new object is one of its kind, and none that exists.
LEMMA NewIsNew ==
  ASSUME Typed, Clean(Now), NEW k \in Kinds
  PROVE  New(k) \notin live
<1>1. \A o \in live : held[o[1]] = o
  BY DEF Clean, Now
<1>2. ASSUME <<k, 0>> \in live, <<k, 1>> \in live
      PROVE  FALSE
  <2>1. held[k] = <<k, 0>> /\ held[k] = <<k, 1>>
    BY <1>1, <1>2
  <2> QED
    BY <2>1
<1> QED
  BY <1>2 DEF New

LEMMA NewOfKind ==
  \A k : New(k)[1] = k /\ New(k) \in {<<k, 0>>, <<k, 1>>}
BY DEF New

\* What is kept of a kind is its new object.
LEMMA KeptNew ==
  ASSUME NEW kinds, NEW c, c.keeps = NewOnes(kinds), NEW k
  PROVE  /\ k \in kinds => Kept(c, k) # {} /\ (CHOOSE o \in Kept(c, k) : TRUE) = New(k)
         /\ k \notin kinds => Kept(c, k) = {}
<1>1. Kept(c, k) = {o \in NewOnes(kinds) : o[1] = k}
  BY DEF Kept
<1>2. \A o \in NewOnes(kinds) : o[1] = k => o = New(k) /\ k \in kinds
  BY NewOfKind DEF NewOnes
<1>3. k \in kinds => New(k) \in NewOnes(kinds) /\ New(k)[1] = k
  BY NewOfKind DEF NewOnes
<1>4. k \in kinds => Kept(c, k) = {New(k)}
  BY <1>1, <1>2, <1>3
<1> QED
  BY <1>1, <1>2, <1>4

\* A call that frees nothing.
LEMMA AfterMaking ==
  ASSUME NEW P, NEW Q, NEW K, NEW N, NEW keeps, NEW uses, NEW outcome
  PROVE  After(Mid(P, Q, K), Call(uses, NewOnes(N), {}, NewOnes(keeps), outcome))
           = Mid(P \cup N, Q, K \cup keeps)
<1> DEFINE c == Call(uses, NewOnes(N), {}, NewOnes(keeps), outcome)
           a == Mid(P, Q, K)
           b == Mid(P \cup N, Q, K \cup keeps)
<1>1. c.keeps = NewOnes(keeps) /\ c.frees = {} /\ c.makes = NewOnes(N)
  BY DEF Call
<1>2. /\ a.live = (live \ FreedOf(Q)) \cup NewOnes(P)
      /\ \A k \in Kinds : a.held[k] = IF k \in K THEN New(k)
                                      ELSE IF k \in Q /\ k \in Owned THEN Null ELSE held[k]
  BY DEF Mid
<1> HIDE DEF c, a
<1>3. (a.live \ (c.frees \cup PooledOf(c.frees, a.live))) \cup c.makes
        = (live \ FreedOf(Q)) \cup NewOnes(P \cup N)
  <2>1. PooledOf(c.frees, a.live) = {}
    BY <1>1 DEF PooledOf
  <2>2. NewOnes(P \cup N) = NewOnes(P) \cup NewOnes(N)
    BY DEF NewOnes
  <2> QED
    BY <1>1, <1>2, <2>1, <2>2
<1>4. ASSUME NEW k \in Kinds
      PROVE  (IF Kept(c, k) # {} THEN CHOOSE o \in Kept(c, k) : TRUE
              ELSE IF k \in Owned /\ a.held[k] \in c.frees THEN Null
              ELSE a.held[k])
             = IF k \in K \cup keeps THEN New(k)
               ELSE IF k \in Q /\ k \in Owned THEN Null ELSE held[k]
  <2>1. k \in keeps => Kept(c, k) # {} /\ (CHOOSE o \in Kept(c, k) : TRUE) = New(k)
    BY <1>1, KeptNew
  <2>2. k \notin keeps => Kept(c, k) = {}
    BY <1>1, KeptNew
  <2> DEFINE first == CHOOSE o \in Kept(c, k) : TRUE
             kept == Kept(c, k)
  <2> HIDE DEF first, kept
  <2>3. k \in keeps => kept # {} /\ first = New(k)
    BY <2>1 DEF first, kept
  <2>4. k \notin keeps => kept = {}
    BY <2>2 DEF kept
  <2>5. (IF kept # {} THEN first
         ELSE IF k \in Owned /\ a.held[k] \in c.frees THEN Null
         ELSE a.held[k])
        = IF k \in K \cup keeps THEN New(k)
          ELSE IF k \in Q /\ k \in Owned THEN Null ELSE held[k]
    BY <1>1, <1>2, <2>3, <2>4
  <2> QED
    BY <2>5 DEF first, kept
<1>5. After(a, c) = b
  BY <1>3, <1>4 DEF After, Mid
<1> QED
  BY <1>5 DEF a, c

\* What was held of other kinds, and what is new, is there in the middle of a function.
LEMMA HeldInMid ==
  ASSUME Typed, NEW P, NEW Q \in SUBSET Owned, NEW K, NEW kinds \in SUBSET Kinds,
         kinds \cap Q = {}, Held(kinds) \subseteq live
  PROVE  Held(kinds) \subseteq Mid(P, Q, K).live
<1>1. Q \subseteq Kinds
  BY DEF Kinds
<1>2. \A k \in Kinds : held[k] # Null => held[k][1] = k
  BY DEF Typed, HeldTyped
<1>3. Held(kinds) \cap Held(Q) = {}
  BY <1>1, <1>2 DEF Held
<1>4. PooledOf(Held(Q), live) = {}
  <2>1. \A o \in Held(Q) : o[1] \in Owned
    BY <1>1, <1>2 DEF Held
  <2> QED
    BY <2>1, ParentsNamed DEF PooledOf
<1>5. Mid(P, Q, K).live = (live \ FreedOf(Q)) \cup NewOnes(P)
  BY DEF Mid
<1> QED
  BY <1>3, <1>4, <1>5 DEF FreedOf

LEMMA NewInMid ==
  ASSUME NEW P, NEW Q, NEW K
  PROVE  /\ \A k \in P : New(k) \in Mid(P, Q, K).live
         /\ \A kinds \in SUBSET P : NewOnes(kinds) \subseteq Mid(P, Q, K).live
BY DEF Mid, NewOnes

LEMMA LiveInMid ==
  ASSUME Typed, HeldLive(Now), NEW P, NEW Q \in SUBSET Owned, NEW K \in SUBSET P
  PROVE  /\ HeldLive(Mid(P, Q, K))
         /\ \A kinds \in SUBSET Kinds :
              kinds \cap Q = {} => Held(kinds) \subseteq Mid(P, Q, K).live
<1>1. \A k \in Kinds : held[k] # Null => held[k] \in live
  BY DEF HeldLive, Now
<1>2. ASSUME NEW kinds \in SUBSET Kinds, kinds \cap Q = {}
      PROVE  Held(kinds) \subseteq Mid(P, Q, K).live
  <2>1. Held(kinds) \subseteq live
    BY <1>1 DEF Held
  <2> QED
    BY <1>2, <2>1, HeldInMid
<1>3. ASSUME NEW k \in Kinds, Mid(P, Q, K).held[k] # Null
      PROVE  Mid(P, Q, K).held[k] \in Mid(P, Q, K).live
  <2>1. Mid(P, Q, K).held[k] = IF k \in K THEN New(k)
                               ELSE IF k \in Q /\ k \in Owned THEN Null ELSE held[k]
    BY DEF Mid
  <2>2. CASE k \in K
    BY <2>1, <2>2, NewInMid
  <2>3. CASE k \notin K
    <3>1. k \notin Q /\ Mid(P, Q, K).held[k] = held[k]
      BY <1>3, <2>1, <2>3
    <3>2. Held({k}) = {held[k]}
      BY <1>3, <3>1 DEF Held
    <3>3. Held({k}) \subseteq Mid(P, Q, K).live
      BY <1>2, <3>1
    <3> QED
      BY <3>1, <3>2, <3>3
  <2> QED
    BY <2>2, <2>3
<1> QED
  BY <1>2, <1>3 DEF HeldLive

-----------------------------------------------------------------------------
(* The calls that functions are made of, each from one middle to the next.  *)

LEMMA QuietRuns ==
  ASSUME NEW P, NEW Q, NEW K, NEW keeps \in SUBSET P, NEW uses, NEW outcome, NEW strict,
         HeldLive(Mid(P, Q, K)), uses \subseteq Mid(P, Q, K).live
  PROVE  Runs(strict, Mid(P, Q, K), <<Call(uses, {}, {}, NewOnes(keeps), outcome)>>,
              Mid(P, Q, K \cup keeps))
<1> DEFINE c == Call(uses, {}, {}, NewOnes(keeps), outcome)
           a == Mid(P, Q, K)
<1>1. Good(strict, a, c)
  <2>1. c.uses = uses /\ c.frees = {} /\ c.makes = {}
    BY DEF Call
  <2> HIDE DEF c
  <2> QED
    BY <2>1 DEF Good, TreeStep
<1>2. After(a, c) = Mid(P, Q, K \cup keeps)
  <2>1. NewOnes({}) = {} /\ P \cup {} = P
    BY DEF NewOnes
  <2>2. After(a, Call(uses, NewOnes({}), {}, NewOnes(keeps), outcome))
          = Mid(P \cup {}, Q, K \cup keeps)
    BY AfterMaking
  <2> HIDE DEF a
  <2> QED
    BY <2>1, <2>2
<1> HIDE DEF c, a
<1>3. Runs(strict, a, <<c>>, After(a, c))
  BY <1>1, RunsOne
<1> QED
  BY <1>2, <1>3 DEF a, c

LEMMA UseRuns ==
  ASSUME NEW P, NEW Q, NEW K, NEW objects, NEW strict,
         HeldLive(Mid(P, Q, K)), objects \subseteq Mid(P, Q, K).live
  PROVE  Runs(strict, Mid(P, Q, K), Use(objects), Mid(P, Q, K))
<1>1. NewOnes({}) = {} /\ K \cup {} = K /\ {} \in SUBSET P
  BY DEF NewOnes
<1>2. Runs(strict, Mid(P, Q, K), <<Call(objects, {}, {}, NewOnes({}), "may throw")>>,
           Mid(P, Q, K \cup {}))
  BY <1>1, QuietRuns
<1> QED
  BY <1>1, <1>2 DEF Use

LEMMA KeepRuns ==
  ASSUME NEW P, NEW Q, NEW K, NEW objects, NEW kinds \in SUBSET P, NEW strict,
         HeldLive(Mid(P, Q, K)), objects \subseteq Mid(P, Q, K).live
  PROVE  Runs(strict, Mid(P, Q, K), Keep(objects, kinds), Mid(P, Q, K \cup kinds))
BY QuietRuns DEF Keep

LEMMA RequireRuns ==
  ASSUME NEW P, NEW Q, NEW K, NEW condition, NEW strict, HeldLive(Mid(P, Q, K))
  PROVE  Runs(strict, Mid(P, Q, K), Require(condition), Mid(P, Q, K))
<1>1. NewOnes({}) = {} /\ K \cup {} = K /\ {} \in SUBSET P /\ {} \subseteq Mid(P, Q, K).live
  BY DEF NewOnes
<1>2. Runs(strict, Mid(P, Q, K), <<Call({}, {}, {}, NewOnes({}), "throws")>>,
           Mid(P, Q, K \cup {}))
  BY <1>1, QuietRuns
<1>3. Runs(strict, Mid(P, Q, K), << >>, Mid(P, Q, K))
  BY RunsNothing
<1> QED
  BY <1>1, <1>2, <1>3 DEF Require

\* What an object of this kind is made from is held.
HasParents(k) == \A p \in ParentKinds(k) : held[p] # Null

LEMMA PartRuns ==
  ASSUME Typed, Clean(Now), NEW k \in Kinds, NEW P, NEW Q \in SUBSET Owned, NEW K \in SUBSET P,
         NEW keeps \in SUBSET (P \cup {k}), NEW uses,
         k \notin P, ParentKinds(k) \cap Q = {}, HasParents(k),
         uses \subseteq Mid(P, Q, K).live
  PROVE  Runs(TRUE, Mid(P, Q, K), Part(k, uses, keeps), Mid(P \cup {k}, Q, K \cup keeps))
<1> DEFINE all == uses \cup Held(ParentKinds(k))
           c   == Call(all, {New(k)}, {}, NewOnes(keeps), "may throw")
           a   == Mid(P, Q, K)
<1>1. ParentKinds(k) \in SUBSET Kinds
  BY ObjectTypes DEF Typed
<1>2. HeldLive(Now)
  BY DEF Clean
<1>3. HeldLive(a) /\ Held(ParentKinds(k)) \subseteq a.live
  BY <1>1, <1>2, LiveInMid
<1>4. c.uses \cup c.frees \subseteq a.live
  <2>1. c.uses = all /\ c.frees = {}
    BY DEF Call
  <2> HIDE DEF c
  <2> QED
    BY <1>3, <2>1
<1>5. New(k) \in Objects /\ New(k)[1] = k
  BY NewOfKind, ObjectTypes DEF Typed
<1>6. New(k) \notin a.live
  <2>1. New(k) \notin live
    BY NewIsNew
  <2>2. New(k) \notin NewOnes(P)
    BY NewOfKind DEF NewOnes
  <2>3. a.live = (live \ FreedOf(Q)) \cup NewOnes(P)
    BY DEF Mid
  <2> QED
    BY <2>1, <2>2, <2>3
<1>7. ASSUME NEW p \in ParentKinds(k)
      PROVE  \E q \in a.live : q[1] = p
  <2>1. p \in Kinds /\ held[p] # Null
    BY <1>1 DEF HasParents
  <2>2. held[p] \in a.live
    BY <1>3, <2>1 DEF Held
  <2>3. held[p][1] = p
    BY <2>1 DEF Typed, HeldTyped
  <2> QED
    BY <2>2, <2>3
<1>8. TreeStep(a, c)
  <2>1. c.makes = {New(k)} /\ c.frees = {}
    BY DEF Call
  <2> HIDE DEF a, c
  <2> QED
    BY <1>5, <1>6, <1>7, <2>1 DEF TreeStep
<1>9. Good(TRUE, a, c)
  BY <1>3, <1>4, <1>8 DEF Good
<1>10. After(a, c) = Mid(P \cup {k}, Q, K \cup keeps)
  <2>1. NewOnes({k}) = {New(k)}
    BY DEF NewOnes
  <2> DEFINE N == {k}
             way == "may throw"
  <2> HIDE DEF all, N, way
  <2>2. After(a, Call(all, NewOnes(N), {}, NewOnes(keeps), way))
          = Mid(P \cup N, Q, K \cup keeps)
    BY AfterMaking
  <2> USE DEF N, way
  <2> HIDE DEF a
  <2> QED
    BY <2>1, <2>2
<1>11. Part(k, uses, keeps) = <<c>>
  BY DEF Part
<1> HIDE DEF c, a
<1>12. Runs(TRUE, a, <<c>>, After(a, c))
  BY <1>9, RunsOne
<1> QED
  BY <1>10, <1>11, <1>12 DEF a

\* To free what is held of a kind: it and its parents are there still, and when nothing
\* has failed what was made from it goes with it.
LEMMA FreeRuns ==
  ASSUME Typed, NEW strict, NEW k \in Kinds, NEW P, NEW Q \in SUBSET Kinds, NEW K \in SUBSET P,
         \A n \in P : New(n) \notin live,
         P = {} \/ k \notin Pools,
         k \notin Q, k \notin Allocated, ParentKinds(k) \cap Q = {},
         held[k] # Null => held[k] \in live /\ Held(ParentKinds(k)) \subseteq live,
         held[k] # Null /\ strict =>
           \A x \in Mid(P, Q, K).live : k \in ParentKinds(x[1]) => Pooled(k, x[1])
  PROVE  Runs(strict, Mid(P, Q, K), Free(k), Mid(P, Q \cup {k}, K))
<1> DEFINE c == Call(Held(ParentKinds(k)), {}, {held[k]}, {}, "returns")
           a == Mid(P, Q, K)
           b == Mid(P, Q \cup {k}, K)
<1>0. \A q \in Kinds : held[q] # Null => held[q][1] = q
  BY DEF Typed, HeldTyped
<1>1. a.live = (live \ FreedOf(Q)) \cup NewOnes(P)
  BY DEF Mid
<1>2. CASE held[k] = Null
  <2>1. Held(Q \cup {k}) = Held(Q)
    BY <1>2 DEF Held
  <2>2. FreedOf(Q \cup {k}) = FreedOf(Q)
    BY <2>1 DEF FreedOf
  <2>3. \A q \in Kinds : q \in Q \cup {k} /\ q \in Owned /\ q \notin Q => held[q] = Null
    BY <1>2
  <2>4. \A q \in Kinds :
          (IF q \in K THEN New(q) ELSE IF q \in Q \cup {k} /\ q \in Owned THEN Null ELSE held[q])
          = (IF q \in K THEN New(q) ELSE IF q \in Q /\ q \in Owned THEN Null ELSE held[q])
    BY <2>3
  <2>5. b = a
    BY <2>2, <2>4 DEF Mid
  <2>6. Free(k) = << >>
    BY <1>2 DEF Free
  <2>7. Runs(strict, a, << >>, a)
    BY RunsNothing
  <2> HIDE DEF a, b
  <2>8. Runs(strict, a, Free(k), b)
    BY <2>5, <2>6, <2>7
  <2> QED
    BY <2>8 DEF a, b
<1>3. CASE held[k] # Null
  <2>1. c.uses = Held(ParentKinds(k)) /\ c.makes = {} /\ c.frees = {held[k]} /\ c.keeps = {}
        /\ c.outcome = "returns"
    BY DEF Call
  <2>2. Free(k) = <<c>>
    BY <1>3 DEF Free
  <2> HIDE DEF c
  <2>3. ParentKinds(k) \in SUBSET Kinds
    BY ObjectTypes DEF Typed
  <2>4. ASSUME NEW q \in Kinds, q \notin Q, q \notin Allocated, held[q] # Null, held[q] \in live
        PROVE  held[q] \in a.live
    <3>1. held[q] \notin Held(Q)
      BY <1>0, <2>4 DEF Held
    <3>2. held[q] \notin PooledOf(Held(Q), live)
      BY <1>0, <2>4, ParentsNamed DEF PooledOf
    <3> QED
      BY <1>1, <2>4, <3>1, <3>2 DEF FreedOf
  <2>5. Held(ParentKinds(k)) \subseteq a.live
    <3> SUFFICES ASSUME NEW q \in ParentKinds(k), held[q] # Null
                 PROVE  held[q] \in a.live
      BY DEF Held
    <3>1. q \in Kinds /\ q \notin Q /\ q \notin Allocated
      BY <2>3, ParentsNamed
    <3>2. held[q] \in live
      BY <1>3 DEF Held
    <3> HIDE DEF a
    <3> QED
      BY <2>4, <3>1, <3>2
  <2>6. held[k] \in a.live
    <3>1. held[k] \in live
      BY <1>3
    <3> HIDE DEF a
    <3> QED
      BY <1>3, <2>4, <3>1
  <2>7. held[k][1] = k
    BY <1>0, <1>3
  <2>8. strict => TreeStep(a, c)
    <3>1. strict => \A x \in a.live : held[k][1] \in ParentKinds(x[1]) => Pooled(held[k][1], x[1])
      BY <1>3, <2>7
    <3> HIDE DEF a
    <3> QED
      BY <2>1, <2>6, <3>1 DEF TreeStep
  <2>9. Good(strict, a, c)
    <3> HIDE DEF a
    <3> QED
      BY <2>1, <2>5, <2>6, <2>8 DEF Good
  <2>10. \A n \in P : New(n) # held[k]
    BY <1>3
  <2>11. (a.live \ (c.frees \cup PooledOf(c.frees, a.live))) \cup c.makes = b.live
    <3>1. b.live = (live \ FreedOf(Q \cup {k})) \cup NewOnes(P)
      BY DEF Mid
    <3>2. Held(Q \cup {k}) = Held(Q) \cup {held[k]}
      BY <1>3 DEF Held
    <3>3. PooledOf(Held(Q \cup {k}), live) = PooledOf(Held(Q), live) \cup PooledOf({held[k]}, live)
      BY <3>2 DEF PooledOf
    <3>4. FreedOf(Q \cup {k}) = FreedOf(Q) \cup {held[k]} \cup PooledOf({held[k]}, live)
      BY <3>2, <3>3 DEF FreedOf
    <3>5. held[k] \notin NewOnes(P)
      BY <2>10 DEF NewOnes
    <3>6. PooledOf({held[k]}, a.live) \cap NewOnes(P) = {}
      <4>1. CASE P = {}
        BY <4>1 DEF NewOnes
      <4>2. CASE k \notin Pools
        BY <2>7, <4>2, ParentsNamed DEF PooledOf
      <4> QED
        BY <4>1, <4>2
    <3>7. PooledOf({held[k]}, a.live)
            = (PooledOf({held[k]}, live) \ FreedOf(Q)) \cup PooledOf({held[k]}, NewOnes(P))
      BY <1>1 DEF PooledOf
    <3>8. PooledOf({held[k]}, NewOnes(P)) \subseteq PooledOf({held[k]}, a.live) \cap NewOnes(P)
      BY <1>1 DEF PooledOf
    <3>9. PooledOf({held[k]}, live) \cap NewOnes(P) = {}
      BY <3>8, <3>6 DEF PooledOf
    <3> DEFINE A == FreedOf(Q)
               B == NewOnes(P)
               D == PooledOf({held[k]}, live)
               E == PooledOf({held[k]}, a.live)
               F == FreedOf(Q \cup {k})
    <3> HIDE DEF A, B, D, E, F
    <3>10. a.live = (live \ A) \cup B /\ b.live = (live \ F) \cup B
      BY <1>1, <3>1 DEF A, B, F
    <3>11. F = A \cup {held[k]} \cup D /\ held[k] \notin B /\ D \cap B = {} /\ E = D \ A
      BY <3>4, <3>5, <3>6, <3>7, <3>8, <3>9 DEF A, B, D, E, F
    <3>12. c.frees = {held[k]} /\ c.makes = {} /\ PooledOf(c.frees, a.live) = E
      BY <2>1 DEF E
    <3> HIDE DEF a, b
    <3> QED
      BY <3>10, <3>11, <3>12
  <2>12. ASSUME NEW q \in Kinds
         PROVE  (IF Kept(c, q) # {} THEN CHOOSE o \in Kept(c, q) : TRUE
                 ELSE IF q \in Owned /\ a.held[q] \in c.frees THEN Null
                 ELSE a.held[q])
                = b.held[q]
    <3>1. Kept(c, q) = {}
      BY <2>1 DEF Kept
    <3>2. a.held[q] = IF q \in K THEN New(q)
                      ELSE IF q \in Q /\ q \in Owned THEN Null ELSE held[q]
      BY DEF Mid
    <3>3. b.held[q] = IF q \in K THEN New(q)
                      ELSE IF q \in Q \cup {k} /\ q \in Owned THEN Null ELSE held[q]
      BY DEF Mid
    <3>4. q # k => held[q] # held[k]
      BY <1>0, <1>3
    <3> HIDE DEF a, b
    <3>5. a.held[q] \in c.frees <=> q = k /\ q \notin K
      BY <1>3, <2>1, <2>10, <3>2, <3>4
    <3>6. (IF q \in Owned /\ a.held[q] \in c.frees THEN Null ELSE a.held[q]) = b.held[q]
      BY <3>2, <3>3, <3>5
    <3> QED
      BY <3>1, <3>6
  <2>13. After(a, c) = b
    <3>1. b = [live |-> b.live, held |-> [q \in Kinds |-> b.held[q]]]
      BY DEF Mid
    <3> HIDE DEF a, b
    <3> QED
      BY <2>11, <2>12, <3>1 DEF After
  <2> HIDE DEF a, b
  <2>14. Runs(strict, a, <<c>>, After(a, c))
    BY <2>9, RunsOne
  <2>15. Runs(strict, a, Free(k), b)
    BY <2>2, <2>13, <2>14
  <2> QED
    BY <2>15 DEF a, b
<1> QED
  BY <1>2, <1>3

-----------------------------------------------------------------------------
(* Functions, one call after the other.                                     *)

Leads(strict, a, s, b) == s \in Seq(Calls) /\ Runs(strict, a, s, b)

LEMMA Then ==
  ASSUME NEW strict, NEW a, NEW b, NEW d, NEW s, NEW t,
         Leads(strict, a, s, b), Leads(strict, b, t, d)
  PROVE  Leads(strict, a, s \o t, d)
BY RunsBoth, Chained DEF Leads

\* Nothing was done yet.
LEMMA NowIsMid ==
  ASSUME Typed
  PROVE  Mid({}, {}, {}) = Now
<1>1. Held({}) = {} /\ NewOnes({}) = {}
  BY DEF Held, NewOnes
<1>2. PooledOf({}, live) = {}
  BY DEF PooledOf
<1>3. FreedOf({}) = {}
  BY <1>1, <1>2 DEF FreedOf
<1>4. held = [k \in Kinds |-> held[k]]
  BY DEF Typed
<1> QED
  BY <1>1, <1>3, <1>4 DEF Mid, Now

\* Nothing is made from these.
Leaf(k) == k \notin {"instance", "device", "surface"} \cup Pools \cup Allocated

\* What is held of a kind can be freed.
Freeable(k) == held[k] # Null => held[k] \in live /\ Held(ParentKinds(k)) \subseteq live

AllFresh(P) == \A n \in P : New(n) \notin live

LEMMA FreeLeaf ==
  ASSUME Typed, NEW strict, NEW k \in Kinds, NEW P, NEW Q \in SUBSET Kinds, NEW K \in SUBSET P,
         AllFresh(P), Leaf(k), k \notin Q, ParentKinds(k) \cap Q = {}, Freeable(k)
  PROVE  Leads(strict, Mid(P, Q, K), Free(k), Mid(P, Q \cup {k}, K))
<1>1. \A x : k \notin ParentKinds(x)
  BY ParentsNamed DEF Leaf
<1>2. k \notin Pools /\ k \notin Allocated
  BY DEF Leaf
<1>3. Runs(strict, Mid(P, Q, K), Free(k), Mid(P, Q \cup {k}, K))
  BY <1>1, <1>2, FreeRuns DEF AllFresh, Freeable
<1>4. Free(k) \in Seq(Calls)
  BY CallsTyped DEF Typed
<1> QED
  BY <1>3, <1>4 DEF Leads

\* DestroySwapchain, on its own or at the end of LoadSwapchain.
LEMMA SwapchainDestroyed ==
  ASSUME Typed, NEW strict, NEW P, NEW Q \in SUBSET Kinds, NEW K \in SUBSET P,
         AllFresh(P), Q \cap Swapchain = {}, "device" \notin Q, "surface" \notin Q,
         \A k \in Swapchain : Freeable(k)
  PROVE  Leads(strict, Mid(P, Q, K), DestroySwapchain, Mid(P, Q \cup Swapchain, K))
<1> USE KindNames
<1>0. \A k \in Swapchain : /\ k \in Kinds /\ Leaf(k)
                           /\ ParentKinds(k) \subseteq {"device", "surface"}
  BY DEF Swapchain, Leaf, Pools, Allocated, ParentKinds
<1> DEFINE Q1 == Q  \cup {"image_acquired"}
           Q2 == Q1 \cup {"depth_image"}
           Q3 == Q2 \cup {"depth_view"}
           Q4 == Q3 \cup {"depth_memory"}
           Q5 == Q4 \cup {"views"}
           Q6 == Q5 \cup {"swapchain"}
<1>q. Q6 = Q \cup Swapchain
  BY DEF Swapchain
<1>n. /\ "image_acquired" \in Swapchain \ Q /\ "depth_image" \in Swapchain \ Q1
      /\ "depth_view" \in Swapchain \ Q2 /\ "depth_memory" \in Swapchain \ Q3
      /\ "views" \in Swapchain \ Q4 /\ "swapchain" \in Swapchain \ Q5
  BY DEF Swapchain
<1>k. /\ Q1 \in SUBSET Kinds /\ Q2 \in SUBSET Kinds /\ Q3 \in SUBSET Kinds
      /\ Q4 \in SUBSET Kinds /\ Q5 \in SUBSET Kinds
  OBVIOUS
<1>p. /\ {"device", "surface"} \cap Q1 = {} /\ {"device", "surface"} \cap Q2 = {}
      /\ {"device", "surface"} \cap Q3 = {} /\ {"device", "surface"} \cap Q4 = {}
      /\ {"device", "surface"} \cap Q5 = {} /\ {"device", "surface"} \cap Q = {}
  OBVIOUS
<1> DEFINE From(R) == Mid(P, R, K)
<1>f. ASSUME NEW R \in SUBSET Kinds, NEW k \in Swapchain, k \notin R,
             {"device", "surface"} \cap R = {}
      PROVE  Leads(strict, From(R), Free(k), From(R \cup {k}))
  <2>1. k \in Kinds /\ Leaf(k) /\ ParentKinds(k) \cap R = {}
    BY <1>0, <1>f
  <2> QED
    BY <1>f, <2>1, FreeLeaf
<1> HIDE DEF From
<1>1. Leads(strict, From(Q), Free("image_acquired"), From(Q1))
  BY <1>f, <1>n, <1>p
<1>2. Leads(strict, From(Q1), Free("depth_image"), From(Q2))
  BY <1>f, <1>n, <1>k, <1>p DEF Q2
<1>3. Leads(strict, From(Q2), Free("depth_view"), From(Q3))
  BY <1>f, <1>n, <1>k, <1>p DEF Q3
<1>4. Leads(strict, From(Q3), Free("depth_memory"), From(Q4))
  BY <1>f, <1>n, <1>k, <1>p DEF Q4
<1>5. Leads(strict, From(Q4), Free("views"), From(Q5))
  BY <1>f, <1>n, <1>k, <1>p DEF Q5
<1>6. Leads(strict, From(Q5), Free("swapchain"), From(Q6))
  BY <1>f, <1>n, <1>k, <1>p DEF Q6
<1> HIDE DEF Q1, Q2, Q3, Q4, Q5, Q6
<1>7. Leads(strict, From(Q), Free("image_acquired") \o Free("depth_image"), From(Q2))
  BY <1>1, <1>2, Then
<1>8. Leads(strict, From(Q),
            Free("image_acquired") \o Free("depth_image") \o Free("depth_view"), From(Q3))
  BY <1>7, <1>3, Then
<1>9. Leads(strict, From(Q),
            Free("image_acquired") \o Free("depth_image") \o Free("depth_view") \o
            Free("depth_memory"), From(Q4))
  BY <1>8, <1>4, Then
<1>10. Leads(strict, From(Q),
             Free("image_acquired") \o Free("depth_image") \o Free("depth_view") \o
             Free("depth_memory") \o Free("views"), From(Q5))
  BY <1>9, <1>5, Then
<1>11. Leads(strict, From(Q), DestroySwapchain, From(Q6))
  BY <1>10, <1>6, Then DEF DestroySwapchain
<1> QED
  BY <1>11, <1>q DEF From

-----------------------------------------------------------------------------
(* Loading.  What a function that loads frees is the leaves it replaces.    *)

Loading(P, Q, K) ==
  /\ P \in SUBSET Kinds /\ Q \in SUBSET Owned /\ K \in SUBSET P
  /\ Q \cap {"instance", "device", "surface"} = {}

LEMMA ThereInMid ==
  ASSUME Typed, Clean(Now), NEW P, NEW Q, NEW K, Loading(P, Q, K)
  PROVE  /\ HeldLive(Mid(P, Q, K))
         /\ Mid(P, Q, K).live \in SUBSET Objects
         /\ \A kinds \in SUBSET Kinds :
              kinds \cap Q = {} => Held(kinds) \subseteq Mid(P, Q, K).live
         /\ \A k \in P : New(k) \in Mid(P, Q, K).live
         /\ \A kinds \in SUBSET P : NewOnes(kinds) \subseteq Mid(P, Q, K).live
<1>1. HeldLive(Now) /\ Q \in SUBSET Owned /\ K \in SUBSET P /\ P \in SUBSET Kinds
  BY DEF Clean, Loading
<1>2. HeldLive(Mid(P, Q, K)) /\ \A kinds \in SUBSET Kinds :
        kinds \cap Q = {} => Held(kinds) \subseteq Mid(P, Q, K).live
  BY <1>1, LiveInMid
<1>3. Mid(P, Q, K).live = (live \ FreedOf(Q)) \cup NewOnes(P)
  BY DEF Mid
<1>4. live \subseteq Objects /\ NewOnes(P) \subseteq Objects
  BY <1>1, ObjectTypes DEF Typed
<1>5. Mid(P, Q, K).live \in SUBSET Objects
  BY <1>3, <1>4
<1> QED
  BY <1>2, <1>5, NewInMid

LEMMA LoadUse ==
  ASSUME Typed, Clean(Now), NEW P, NEW Q, NEW K, Loading(P, Q, K),
         NEW objects, objects \subseteq Mid(P, Q, K).live
  PROVE  Leads(TRUE, Mid(P, Q, K), Use(objects), Mid(P, Q, K))
<1>1. HeldLive(Mid(P, Q, K)) /\ objects \in SUBSET Objects
  BY ThereInMid
<1>2. Runs(TRUE, Mid(P, Q, K), Use(objects), Mid(P, Q, K))
  BY <1>1, UseRuns
<1>3. Use(objects) \in Seq(Calls)
  BY <1>1, CallsTyped DEF Typed
<1> QED
  BY <1>2, <1>3 DEF Leads

LEMMA LoadKeep ==
  ASSUME Typed, Clean(Now), NEW P, NEW Q, NEW K, Loading(P, Q, K),
         NEW objects, objects \subseteq Mid(P, Q, K).live, NEW kinds \in SUBSET P
  PROVE  Leads(TRUE, Mid(P, Q, K), Keep(objects, kinds), Mid(P, Q, K \cup kinds))
<1>1. HeldLive(Mid(P, Q, K)) /\ objects \in SUBSET Objects /\ kinds \in SUBSET Kinds
  BY ThereInMid DEF Loading
<1>2. Runs(TRUE, Mid(P, Q, K), Keep(objects, kinds), Mid(P, Q, K \cup kinds))
  BY <1>1, KeepRuns
<1>3. Keep(objects, kinds) \in Seq(Calls)
  BY <1>1, CallsTyped DEF Typed
<1> QED
  BY <1>2, <1>3 DEF Leads

LEMMA LoadRequire ==
  ASSUME Typed, Clean(Now), NEW P, NEW Q, NEW K, Loading(P, Q, K), NEW condition
  PROVE  Leads(TRUE, Mid(P, Q, K), Require(condition), Mid(P, Q, K))
<1>1. HeldLive(Mid(P, Q, K))
  BY ThereInMid
<1>2. Runs(TRUE, Mid(P, Q, K), Require(condition), Mid(P, Q, K))
  BY <1>1, RequireRuns
<1>3. Require(condition) \in Seq(Calls)
  BY CallsTyped DEF Typed
<1> QED
  BY <1>2, <1>3 DEF Leads

LEMMA LoadPart ==
  ASSUME Typed, Clean(Now), NEW P, NEW Q, NEW K, Loading(P, Q, K),
         NEW k \in Kinds, k \notin P, HasParents(k), NEW keeps \in SUBSET (P \cup {k}),
         NEW uses, uses \subseteq Mid(P, Q, K).live
  PROVE  Leads(TRUE, Mid(P, Q, K), Part(k, uses, keeps), Mid(P \cup {k}, Q, K \cup keeps))
<1>1. uses \in SUBSET Objects /\ keeps \in SUBSET Kinds
  BY ThereInMid DEF Loading
<1>2. Q \in SUBSET Owned /\ K \in SUBSET P /\ ParentKinds(k) \cap Q = {}
  BY ParentsNamed DEF Loading
<1>3. Runs(TRUE, Mid(P, Q, K), Part(k, uses, keeps), Mid(P \cup {k}, Q, K \cup keeps))
  BY <1>2, PartRuns
<1>4. Part(k, uses, keeps) \in Seq(Calls)
  BY <1>1, CallsTyped DEF Typed
<1> QED
  BY <1>3, <1>4 DEF Leads

LEMMA LoadMake ==
  ASSUME Typed, Clean(Now), NEW P, NEW Q, NEW K, Loading(P, Q, K),
         NEW k \in Kinds, k \notin P, HasParents(k), NEW uses, uses \subseteq Mid(P, Q, K).live
  PROVE  Leads(TRUE, Mid(P, Q, K), Make(k, uses), Mid(P \cup {k}, Q, K \cup {k}))
<1>1. {k} \in SUBSET (P \cup {k})
  OBVIOUS
<1> QED
  BY <1>1, LoadPart DEF Make

LEMMA LoadFree ==
  ASSUME Typed, Clean(Now), NEW P, NEW Q, NEW K, Loading(P, Q, K),
         NEW k \in Owned, Leaf(k), k \notin Q
  PROVE  Leads(TRUE, Mid(P, Q, K), Free(k), Mid(P, Q \cup {k}, K))
<1>1. k \in Kinds /\ Q \in SUBSET Kinds /\ K \in SUBSET P /\ P \in SUBSET Kinds
  BY DEF Loading, Kinds
<1>2. ParentKinds(k) \cap Q = {}
  BY ParentsNamed DEF Loading
<1>3. AllFresh(P)
  BY <1>1, NewIsNew DEF AllFresh
<1>4. Freeable(k)
  <2>1. \A q \in Kinds : held[q] # Null => held[q] \in live
    BY DEF Clean, HeldLive, Now
  <2>2. ParentKinds(k) \subseteq Kinds
    BY ObjectTypes DEF Typed
  <2> QED
    BY <1>1, <2>1, <2>2 DEF Freeable, Held
<1> QED
  BY <1>1, <1>2, <1>3, <1>4, FreeLeaf

\* Who can be made once these are held.
LEMMA Parented ==
  /\ HasParents("instance") /\ HasParents("os_window")
  /\ held["instance"] # Null =>
       HasParents("debug_callback") /\ HasParents("surface") /\ HasParents("device")
  /\ held["device"] # Null =>
       /\ \A k \in Kinds \ {"instance", "os_window", "debug_callback", "surface", "device",
                             "swapchain", "command_buffers", "descriptor_sets"} : HasParents(k)
       /\ held["surface"] # Null => HasParents("swapchain")
       /\ held["command_pool"] # Null => HasParents("command_buffers")
       /\ held["descriptor_pool"] # Null => HasParents("descriptor_sets")
<1>1. ParentKinds("instance") = {} /\ ParentKinds("os_window") = {}
  BY DEF ParentKinds
<1>2. /\ ParentKinds("debug_callback") = {"instance"}
      /\ ParentKinds("surface") = {"instance"} /\ ParentKinds("device") = {"instance"}
  BY DEF ParentKinds
<1>3. \A k \in Kinds \ {"instance", "os_window", "debug_callback", "surface", "device",
                         "swapchain", "command_buffers", "descriptor_sets"} :
        ParentKinds(k) = {"device"}
  BY DEF ParentKinds
<1>4. /\ ParentKinds("swapchain") = {"device", "surface"}
      /\ ParentKinds("command_buffers") = {"device", "command_pool"}
      /\ ParentKinds("descriptor_sets") = {"device", "descriptor_pool"}
  BY DEF ParentKinds
<1> QED
  BY <1>1, <1>2, <1>3, <1>4 DEF HasParents

\* What a function makes and keeps and frees nothing for.
Made(N) == Mid(N, {}, N)

LEMMA MadeIsLoading ==
  ASSUME Typed, Clean(Now), NEW N \in SUBSET Kinds
  PROVE  /\ Loading(N, {}, N)
         /\ \A kinds \in SUBSET Kinds : Held(kinds) \subseteq Made(N).live
         /\ \A k \in N : New(k) \in Made(N).live
<1>1. Loading(N, {}, N)
  BY DEF Loading
<1>2. /\ \A kinds \in SUBSET Kinds : kinds \cap {} = {} => Held(kinds) \subseteq Mid(N, {}, N).live
      /\ \A k \in N : New(k) \in Mid(N, {}, N).live
  BY <1>1, ThereInMid
<1> QED
  BY <1>1, <1>2 DEF Made

LEMMA MadeNothing ==
  ASSUME Typed
  PROVE  Made({}) = Now
BY NowIsMid DEF Made

LEMMA OneMore ==
  ASSUME Typed, Clean(Now), NEW N \in SUBSET Kinds, NEW k \in Kinds, k \notin N, HasParents(k),
         NEW uses, uses \subseteq Made(N).live
  PROVE  Leads(TRUE, Made(N), Make(k, uses), Made(N \cup {k}))
<1>1. Loading(N, {}, N)
  BY MadeIsLoading
<1> QED
  BY <1>1, LoadMake DEF Made

LEMMA MadeUse ==
  ASSUME Typed, Clean(Now), NEW N \in SUBSET Kinds, NEW objects, objects \subseteq Made(N).live
  PROVE  Leads(TRUE, Made(N), Use(objects), Made(N))
BY MadeIsLoading, LoadUse DEF Made

LEMMA MadeRequire ==
  ASSUME Typed, Clean(Now), NEW N \in SUBSET Kinds, NEW condition
  PROVE  Leads(TRUE, Made(N), Require(condition), Made(N))
BY MadeIsLoading, LoadRequire DEF Made

\* The only object a function makes.
LEMMA OneMade ==
  ASSUME Typed, Clean(Now), NEW k \in Kinds, HasParents(k), NEW kinds \in SUBSET Kinds
  PROVE  Leads(TRUE, Now, Make(k, Held(kinds)), Made({k}))
<1>1. {} \in SUBSET Kinds /\ k \notin {} /\ {} \cup {k} = {k}
  OBVIOUS
<1>2. Held(kinds) \subseteq Made({}).live
  BY <1>1, MadeIsLoading
<1>3. Leads(TRUE, Made({}), Make(k, Held(kinds)), Made({} \cup {k}))
  BY <1>1, <1>2, OneMore
<1> QED
  BY <1>1, <1>3, MadeNothing

LEMMA NoneHeld == Held({}) = {}
BY DEF Held

-----------------------------------------------------------------------------
(* The functions that load, each from what it finds held.                   *)

LEMMA InstanceLoads ==
  ASSUME Typed, Clean(Now)
  PROVE  Leads(TRUE, Now, VulkanInstance, Made({"instance"}))
<1>1. {} \in SUBSET Kinds /\ {} \subseteq Made({}).live
  OBVIOUS
<1>2. Leads(TRUE, Made({}), Use({}), Made({}))
  BY <1>1, MadeUse
<1>3. Leads(TRUE, Now, Use({}), Now)
  BY <1>2, MadeNothing
<1>4. Leads(TRUE, Now, Make("instance", {}), Made({"instance"}))
  BY <1>1, KindNames, NoneHeld, OneMade, Parented
<1>5. Leads(TRUE, Now, Use({}) \o Use({}), Now)
  BY <1>3, Then
<1> QED
  BY <1>4, <1>5, Then DEF VulkanInstance

LEMMA ArgumentsChecked ==
  ASSUME Typed, Clean(Now)
  PROVE  Leads(TRUE, Now, CheckArguments, Made({}))
<1>1. {} \in SUBSET Kinds /\ Now = Made({}) /\ Made({}) = Mid({}, {}, {}) /\ {} \in SUBSET {}
      /\ {} \cup {} = {} /\ NewOnes({}) = {} /\ {} \subseteq Mid({}, {}, {}).live
  BY MadeNothing DEF Made, NewOnes
<1>2. HeldLive(Mid({}, {}, {}))
  BY <1>1 DEF Clean
<1>3. Runs(TRUE, Now, <<Call({}, {}, {}, {}, "exits")>>, Made({}))
  <2>1. Runs(TRUE, Mid({}, {}, {}), <<Call({}, {}, {}, NewOnes({}), "exits")>>,
             Mid({}, {}, {} \cup {}))
    BY <1>1, <1>2, QuietRuns
  <2> QED
    BY <1>1, <2>1
<1>4. Runs(TRUE, Now, << >>, Made({}))
  BY <1>1, RunsNothing
<1>5. CheckArguments \in Seq(Calls)
  BY ScriptsTyped DEF FunctionNames, Script, Typed
<1> QED
  BY <1>3, <1>4, <1>5 DEF Leads, CheckArguments

LEMMA ProviderLoads ==
  ASSUME Typed, Clean(Now)
  PROVE  Leads(TRUE, Now, Provider, Made({}))
<1>1. {} \in SUBSET Kinds
  OBVIOUS
<1>2. Leads(TRUE, Made({}), Require(machine.readable), Made({}))
  BY <1>1, MadeRequire
<1> QED
  BY <1>2, MadeNothing DEF Provider

LEMMA DebuggerLoads ==
  ASSUME Typed, Clean(Now), held["instance"] # Null
  PROVE  Leads(TRUE, Now, StartDebugger, Made(IF machine.debug THEN {"debug_callback"} ELSE {}))
<1>1. Leads(TRUE, Now, Make("debug_callback", {}), Made({"debug_callback"}))
  BY KindNames, NoneHeld, OneMade, Parented
<1>2. Leads(TRUE, Now, << >>, Made({}))
  BY MadeNothing, RunsNothing, NoCall DEF Leads
<1> QED
  BY <1>1, <1>2 DEF StartDebugger

LEMMA GPUsLoad ==
  ASSUME Typed, Clean(Now)
  PROVE  Leads(TRUE, Now, LoadGPUs, Made({}))
<1>1. {} \in SUBSET Kinds /\ {"instance"} \in SUBSET Kinds
  BY KindNames
<1>2. Leads(TRUE, Made({}), Use(Held({"instance"})), Made({}))
  BY <1>1, MadeIsLoading, MadeUse
<1>3. Leads(TRUE, Made({}), Require(machine.gpu), Made({}))
  BY <1>1, MadeRequire
<1>4. Leads(TRUE, Made({}), LoadGPUs, Made({}))
  BY <1>2, <1>3, Then DEF LoadGPUs
<1> QED
  BY <1>4, MadeNothing

LEMMA WindowLoads ==
  ASSUME Typed, Clean(Now), held["instance"] # Null
  PROVE  Leads(TRUE, Now, LoadWindow, Made({"os_window", "surface"}))
<1> USE KindNames
<1> DEFINE P0 == {}
           P1 == P0 \cup {"os_window"}
           P2 == P1 \cup {"surface"}
           K1 == {} \cup {}
<1>1. /\ Loading(P0, {}, {}) /\ Loading(P1, {}, {}) /\ Loading(P2, {}, {})
      /\ {} \cup {} = {} /\ P2 = Window /\ P2 = {"os_window", "surface"}
      /\ {} \cup Window = {"os_window", "surface"}
  BY DEF Loading, Window
<1>2. "os_window" \in P1 /\ "surface" \in P2 /\ "os_window" \notin P0 /\ "surface" \notin P1
  OBVIOUS
<1> HIDE DEF P0, P1, P2
<1>3. Leads(TRUE, Mid(P0, {}, {}), Part("os_window", {}, {}), Mid(P1, {}, {}))
  <2>1. {} \in SUBSET (P0 \cup {"os_window"}) /\ {} \subseteq Mid(P0, {}, {}).live
    OBVIOUS
  <2>2. Leads(TRUE, Mid(P0, {}, {}), Part("os_window", {}, {}),
              Mid(P0 \cup {"os_window"}, {}, {} \cup {}))
    BY <1>1, <1>2, <2>1, LoadPart, Parented
  <2> QED
    BY <1>1, <2>2 DEF P1
<1>4. Leads(TRUE, Mid(P1, {}, {}), Part("surface", {New("os_window")}, {}), Mid(P2, {}, {}))
  <2>1. {} \in SUBSET (P1 \cup {"surface"})
    OBVIOUS
  <2>2. {New("os_window")} \subseteq Mid(P1, {}, {}).live
    BY <1>1, <1>2, ThereInMid
  <2>3. Leads(TRUE, Mid(P1, {}, {}), Part("surface", {New("os_window")}, {}),
              Mid(P1 \cup {"surface"}, {}, {} \cup {}))
    BY <1>1, <1>2, <2>1, <2>2, LoadPart, Parented
  <2> QED
    BY <1>1, <2>3 DEF P2
<1>5. {New("surface")} \subseteq Mid(P2, {}, {}).live
  BY <1>1, <1>2, ThereInMid
<1>6. Leads(TRUE, Mid(P2, {}, {}), Use({New("surface")}), Mid(P2, {}, {}))
  BY <1>1, <1>5, LoadUse
<1>7. Leads(TRUE, Mid(P2, {}, {}), Keep({New("surface")}, Window), Mid(P2, {}, {} \cup Window))
  BY <1>1, <1>5, LoadKeep
<1>8. Leads(TRUE, Mid(P0, {}, {}),
            Part("os_window", {}, {}) \o Part("surface", {New("os_window")}, {}), Mid(P2, {}, {}))
  BY <1>3, <1>4, Then
<1>9. Leads(TRUE, Mid(P0, {}, {}),
            Part("os_window", {}, {}) \o Part("surface", {New("os_window")}, {}) \o
            Use({New("surface")}), Mid(P2, {}, {}))
  BY <1>6, <1>8, Then
<1>10. Leads(TRUE, Mid(P0, {}, {}), LoadWindow, Mid(P2, {}, {} \cup Window))
  BY <1>7, <1>9, Then DEF LoadWindow
<1> QED
  BY <1>1, <1>10, NowIsMid DEF Made, P0

LEMMA DeviceLoads ==
  ASSUME Typed, Clean(Now), held["instance"] # Null
  PROVE  Leads(TRUE, Now, LoadDevice, Made({"device"}))
<1>1. {} \in SUBSET Kinds /\ {"surface"} \in SUBSET Kinds
  BY KindNames
<1>2. Leads(TRUE, Made({}), Use(Held({"surface"})), Made({}))
  BY <1>1, MadeIsLoading, MadeUse
<1>3. Leads(TRUE, Now, Make("device", {}), Made({"device"}))
  BY KindNames, NoneHeld, OneMade, Parented
<1> QED
  BY <1>2, <1>3, MadeNothing, Then DEF LoadDevice

\* InitializeDepthImage in the middle of LoadSwapchain.
LEMMA DepthImageLoads ==
  ASSUME Typed, Clean(Now), held["device"] # Null
  PROVE  Leads(TRUE, Mid({"swapchain", "views"}, {}, {}), InitializeDepthImage,
               Mid(Swapchain \ {"image_acquired"}, {}, {}))
<1> USE KindNames
<1> DEFINE P2 == {"swapchain", "views"}
           P3 == P2 \cup {"depth_image"}
           P4 == P3 \cup {"depth_memory"}
           P5 == P4 \cup {"depth_view"}
<1>1. /\ Loading(P2, {}, {}) /\ Loading(P3, {}, {}) /\ Loading(P4, {}, {})
      /\ {} \cup {} = {} /\ P5 = Swapchain \ {"image_acquired"}
  BY DEF Loading, Swapchain
<1>2. /\ "depth_image" \notin P2 /\ "depth_memory" \notin P3 /\ "depth_view" \notin P4
      /\ "depth_image" \in P3 /\ "depth_image" \in P4 /\ "depth_memory" \in P4
  OBVIOUS
<1>3. HasParents("depth_image") /\ HasParents("depth_memory") /\ HasParents("depth_view")
  BY Parented
<1> HIDE DEF P2, P3, P4, P5
<1>4. Leads(TRUE, Mid(P2, {}, {}), Use({}), Mid(P2, {}, {}))
  <2>1. {} \subseteq Mid(P2, {}, {}).live
    OBVIOUS
  <2> QED
    BY <1>1, <2>1, LoadUse
<1>5. Leads(TRUE, Mid(P2, {}, {}), Part("depth_image", {}, {}), Mid(P3, {}, {}))
  <2>1. {} \in SUBSET (P2 \cup {"depth_image"}) /\ {} \subseteq Mid(P2, {}, {}).live
    OBVIOUS
  <2>2. Leads(TRUE, Mid(P2, {}, {}), Part("depth_image", {}, {}),
              Mid(P2 \cup {"depth_image"}, {}, {} \cup {}))
    BY <1>1, <1>2, <1>3, <2>1, LoadPart
  <2> QED
    BY <1>1, <2>2 DEF P3
<1> DEFINE fits == CanFindMemoryTypeFromProperties(machine, {"device_local"})
<1> HIDE DEF fits
<1>6. Leads(TRUE, Mid(P3, {}, {}), Require(fits), Mid(P3, {}, {}))
  BY <1>1, LoadRequire
<1>7. Leads(TRUE, Mid(P3, {}, {}), Part("depth_memory", {New("depth_image")}, {}),
            Mid(P4, {}, {}))
  <2>1. {} \in SUBSET (P3 \cup {"depth_memory"})
    OBVIOUS
  <2>2. {New("depth_image")} \subseteq Mid(P3, {}, {}).live
    BY <1>1, <1>2, ThereInMid
  <2>3. Leads(TRUE, Mid(P3, {}, {}), Part("depth_memory", {New("depth_image")}, {}),
              Mid(P3 \cup {"depth_memory"}, {}, {} \cup {}))
    BY <1>1, <1>2, <1>3, <2>1, <2>2, LoadPart
  <2> QED
    BY <1>1, <2>3 DEF P4
<1>8. Leads(TRUE, Mid(P4, {}, {}), Use({New("depth_image"), New("depth_memory")}),
            Mid(P4, {}, {}))
  <2>1. {New("depth_image"), New("depth_memory")} \subseteq Mid(P4, {}, {}).live
    BY <1>1, <1>2, ThereInMid
  <2> QED
    BY <1>1, <2>1, LoadUse
<1>9. Leads(TRUE, Mid(P4, {}, {}), Part("depth_view", {New("depth_image")}, {}),
            Mid(P5, {}, {}))
  <2>1. {} \in SUBSET (P4 \cup {"depth_view"})
    OBVIOUS
  <2>2. {New("depth_image")} \subseteq Mid(P4, {}, {}).live
    BY <1>1, <1>2, ThereInMid
  <2>3. Leads(TRUE, Mid(P4, {}, {}), Part("depth_view", {New("depth_image")}, {}),
              Mid(P4 \cup {"depth_view"}, {}, {} \cup {}))
    BY <1>1, <1>2, <1>3, <2>1, <2>2, LoadPart
  <2> QED
    BY <1>1, <2>3 DEF P5
<1>10. Leads(TRUE, Mid(P2, {}, {}), Use({}) \o Part("depth_image", {}, {}), Mid(P3, {}, {}))
  BY <1>4, <1>5, Then
<1>11. Leads(TRUE, Mid(P2, {}, {}), Use({}) \o Part("depth_image", {}, {}) \o Require(fits),
             Mid(P3, {}, {}))
  BY <1>6, <1>10, Then
<1>12. Leads(TRUE, Mid(P2, {}, {}),
             Use({}) \o Part("depth_image", {}, {}) \o Require(fits) \o
             Part("depth_memory", {New("depth_image")}, {}), Mid(P4, {}, {}))
  BY <1>7, <1>11, Then
<1>13. Leads(TRUE, Mid(P2, {}, {}),
             Use({}) \o Part("depth_image", {}, {}) \o Require(fits) \o
             Part("depth_memory", {New("depth_image")}, {}) \o
             Use({New("depth_image"), New("depth_memory")}), Mid(P4, {}, {}))
  BY <1>8, <1>12, Then
<1>14. Leads(TRUE, Mid(P2, {}, {}), InitializeDepthImage, Mid(P5, {}, {}))
  BY <1>9, <1>13, Then DEF InitializeDepthImage, fits
<1> QED
  BY <1>1, <1>14 DEF P2

\* The first or another: the old one, if any, is used for the new and destroyed after it.
LEMMA SwapchainLoads ==
  ASSUME Typed, Clean(Now), held["device"] # Null, held["surface"] # Null
  PROVE  Leads(TRUE, Now, LoadSwapchain, Mid(Swapchain, Swapchain, Swapchain))
<1> USE KindNames
<1> DEFINE P0 == {}
           P1 == P0 \cup {"swapchain"}
           P2 == P1 \cup {"views"}
           P5 == Swapchain \ {"image_acquired"}
           P6 == P5 \cup {"image_acquired"}
<1>1. /\ Loading(P0, {}, {}) /\ Loading(P1, {}, {}) /\ Loading(P2, {}, {})
      /\ Loading(P5, {}, {})
      /\ {} \cup {} = {} /\ {} \cup Swapchain = Swapchain
      /\ P2 = {"swapchain", "views"} /\ P6 = Swapchain
  BY DEF Loading, Swapchain
<1>2. /\ "swapchain" \notin P0 /\ "views" \notin P1 /\ "image_acquired" \notin P5
      /\ "swapchain" \in P1
  OBVIOUS
<1>3. HasParents("swapchain") /\ HasParents("views") /\ HasParents("image_acquired")
  BY Parented
<1>4. {"surface"} \in SUBSET Kinds /\ {"swapchain"} \in SUBSET Kinds
      /\ {"surface"} \cap {} = {} /\ {"swapchain"} \cap {} = {}
  OBVIOUS
<1> HIDE DEF P0, P1, P2, P5, P6
<1>5. Leads(TRUE, Mid(P0, {}, {}), Use(Held({"surface"})), Mid(P0, {}, {}))
  <2>1. Held({"surface"}) \subseteq Mid(P0, {}, {}).live
    BY <1>1, <1>4, ThereInMid
  <2> QED
    BY <1>1, <2>1, LoadUse
<1>6. Leads(TRUE, Mid(P0, {}, {}), Part("swapchain", Held({"swapchain"}), {}), Mid(P1, {}, {}))
  <2>1. {} \in SUBSET (P0 \cup {"swapchain"})
    OBVIOUS
  <2>2. Held({"swapchain"}) \subseteq Mid(P0, {}, {}).live
    BY <1>1, <1>4, ThereInMid
  <2>3. Leads(TRUE, Mid(P0, {}, {}), Part("swapchain", Held({"swapchain"}), {}),
              Mid(P0 \cup {"swapchain"}, {}, {} \cup {}))
    BY <1>1, <1>2, <1>3, <2>1, <2>2, LoadPart
  <2> QED
    BY <1>1, <2>3 DEF P1
<1>7. Leads(TRUE, Mid(P1, {}, {}), Part("views", {New("swapchain")}, {}), Mid(P2, {}, {}))
  <2>1. {} \in SUBSET (P1 \cup {"views"})
    OBVIOUS
  <2>2. {New("swapchain")} \subseteq Mid(P1, {}, {}).live
    BY <1>1, <1>2, ThereInMid
  <2>3. Leads(TRUE, Mid(P1, {}, {}), Part("views", {New("swapchain")}, {}),
              Mid(P1 \cup {"views"}, {}, {} \cup {}))
    BY <1>1, <1>2, <1>3, <2>1, <2>2, LoadPart
  <2> QED
    BY <1>1, <2>3 DEF P2
<1>8. Leads(TRUE, Mid(P2, {}, {}), InitializeDepthImage, Mid(P5, {}, {}))
  BY <1>1, DepthImageLoads DEF P5
<1>9. Leads(TRUE, Mid(P5, {}, {}), Part("image_acquired", {}, Swapchain),
            Mid(Swapchain, {}, Swapchain))
  <2>1. Swapchain \in SUBSET (P5 \cup {"image_acquired"}) /\ {} \subseteq Mid(P5, {}, {}).live
    BY <1>1 DEF P6
  <2>2. Leads(TRUE, Mid(P5, {}, {}), Part("image_acquired", {}, Swapchain),
              Mid(P5 \cup {"image_acquired"}, {}, {} \cup Swapchain))
    BY <1>1, <1>2, <1>3, <2>1, LoadPart
  <2> QED
    BY <1>1, <2>2 DEF P6
<1>10. Leads(TRUE, Mid(Swapchain, {}, Swapchain), DestroySwapchain,
             Mid(Swapchain, Swapchain, Swapchain))
  <2>1. AllFresh(Swapchain)
    <3>1. Swapchain \subseteq Kinds
      BY DEF Swapchain
    <3> QED
      BY <3>1, NewIsNew DEF AllFresh
  <2>2. \A k \in Swapchain : Freeable(k)
    <3>1. \A q \in Kinds : held[q] # Null => held[q] \in live
      BY DEF Clean, HeldLive, Now
    <3>2. \A k : ParentKinds(k) \subseteq Kinds
      BY ObjectTypes DEF Typed
    <3>3. Swapchain \subseteq Kinds
      BY DEF Swapchain
    <3> QED
      BY <3>1, <3>2, <3>3 DEF Freeable, Held
  <2>3. {} \in SUBSET Kinds /\ Swapchain \in SUBSET Swapchain /\ {} \cap Swapchain = {}
        /\ "device" \notin {} /\ "surface" \notin {}
    OBVIOUS
  <2>4. Leads(TRUE, Mid(Swapchain, {}, Swapchain), DestroySwapchain,
              Mid(Swapchain, {} \cup Swapchain, Swapchain))
    BY <2>1, <2>2, <2>3, SwapchainDestroyed
  <2> QED
    BY <1>1, <2>4
<1>11. Leads(TRUE, Mid(P0, {}, {}),
             Use(Held({"surface"})) \o Part("swapchain", Held({"swapchain"}), {}),
             Mid(P1, {}, {}))
  BY <1>5, <1>6, Then
<1>12. Leads(TRUE, Mid(P0, {}, {}),
             Use(Held({"surface"})) \o Part("swapchain", Held({"swapchain"}), {}) \o
             Part("views", {New("swapchain")}, {}), Mid(P2, {}, {}))
  BY <1>7, <1>11, Then
<1>13. Leads(TRUE, Mid(P0, {}, {}),
             Use(Held({"surface"})) \o Part("swapchain", Held({"swapchain"}), {}) \o
             Part("views", {New("swapchain")}, {}) \o InitializeDepthImage, Mid(P5, {}, {}))
  BY <1>8, <1>12, Then
<1>14. Leads(TRUE, Mid(P0, {}, {}),
             Use(Held({"surface"})) \o Part("swapchain", Held({"swapchain"}), {}) \o
             Part("views", {New("swapchain")}, {}) \o InitializeDepthImage \o
             Part("image_acquired", {}, Swapchain), Mid(Swapchain, {}, Swapchain))
  BY <1>9, <1>13, Then
<1>15. Leads(TRUE, Mid(P0, {}, {}), LoadSwapchain, Mid(Swapchain, Swapchain, Swapchain))
  BY <1>10, <1>14, Then DEF LoadSwapchain
<1> QED
  BY <1>15, NowIsMid DEF P0

LEMMA ShaderModulesLoad ==
  ASSUME Typed, Clean(Now), held["device"] # Null
  PROVE  Leads(TRUE, Now, LoadShaderModules, Made({"vertex_module", "fragment_module"}))
<1> USE KindNames
<1> DEFINE there == GetContentsSPIRV(machine, "DrawCube", "vertices.spv") # "empty"
           N1 == {"vertex_module"}
<1>1. {} \in SUBSET Kinds /\ N1 \in SUBSET Kinds /\ "fragment_module" \notin N1
      /\ N1 \cup {"fragment_module"} = {"vertex_module", "fragment_module"}
      /\ {} \subseteq Made(N1).live
  OBVIOUS
<1> HIDE DEF there, N1
<1>2. Leads(TRUE, Now, Require(there), Now)
  BY <1>1, MadeRequire, MadeNothing
<1>3. Leads(TRUE, Now, Make("vertex_module", {}), Made(N1))
  BY <1>1, NoneHeld, OneMade, Parented DEF N1
<1>4. Leads(TRUE, Made(N1), Make("fragment_module", {}), Made(N1 \cup {"fragment_module"}))
  BY <1>1, OneMore, Parented
<1>5. Leads(TRUE, Now, Require(there) \o Make("vertex_module", {}), Made(N1))
  BY <1>2, <1>3, Then
<1>6. Leads(TRUE, Now, LoadShaderModules, Made(N1 \cup {"fragment_module"}))
  BY <1>4, <1>5, Then DEF LoadShaderModules, there
<1> QED
  BY <1>1, <1>6

LEMMA VertexBufferLoads ==
  ASSUME Typed, Clean(Now), held["device"] # Null
  PROVE  Leads(TRUE, Now, LoadVertexBuffer, Made({"vertex_buffer", "vertex_memory"}))
<1> USE KindNames
<1> DEFINE N1 == {"vertex_buffer"}
           N2 == N1 \cup {"vertex_memory"}
<1>1. /\ {} \in SUBSET Kinds /\ N1 \in SUBSET Kinds /\ N2 \in SUBSET Kinds
      /\ "vertex_memory" \notin N1 /\ N2 = {"vertex_buffer", "vertex_memory"}
      /\ "vertex_buffer" \in N1 /\ "vertex_buffer" \in N2 /\ "vertex_memory" \in N2
  OBVIOUS
<1> HIDE DEF N1, N2
<1>2. /\ {New("vertex_buffer")} \subseteq Made(N1).live
      /\ {New("vertex_memory")} \subseteq Made(N2).live
      /\ {New("vertex_buffer"), New("vertex_memory")} \subseteq Made(N2).live
  BY <1>1, MadeIsLoading
<1>3. Leads(TRUE, Now, Make("vertex_buffer", {}), Made(N1))
  BY <1>1, NoneHeld, OneMade, Parented DEF N1
<1>4. Leads(TRUE, Made(N1), Make("vertex_memory", {New("vertex_buffer")}), Made(N2))
  BY <1>1, <1>2, OneMore, Parented DEF N2
<1>5. Leads(TRUE, Made(N2), Use({New("vertex_memory")}), Made(N2))
  BY <1>1, <1>2, MadeUse
<1>6. Leads(TRUE, Made(N2), Use({New("vertex_buffer"), New("vertex_memory")}), Made(N2))
  BY <1>1, <1>2, MadeUse
<1>7. Leads(TRUE, Now, Make("vertex_buffer", {}) \o Make("vertex_memory", {New("vertex_buffer")}),
            Made(N2))
  BY <1>3, <1>4, Then
<1>8. Leads(TRUE, Now, Make("vertex_buffer", {}) \o Make("vertex_memory", {New("vertex_buffer")}) \o
            Use({New("vertex_memory")}), Made(N2))
  BY <1>5, <1>7, Then
<1>9. Leads(TRUE, Now, LoadVertexBuffer, Made(N2))
  BY <1>6, <1>8, Then DEF LoadVertexBuffer
<1> QED
  BY <1>1, <1>9

LEMMA UniformBufferLoads ==
  ASSUME Typed, Clean(Now), held["device"] # Null
  PROVE  Leads(TRUE, Now, LoadUniformBuffer, Made({"uniform_buffer", "uniform_memory"}))
<1> USE KindNames
<1> DEFINE P0 == {}
           P1 == P0 \cup {"uniform_buffer"}
           P2 == P1 \cup {"uniform_memory"}
<1>1. /\ Loading(P0, {}, {}) /\ Loading(P1, {}, {}) /\ Loading(P2, {}, {})
      /\ Loading(P2, {}, Uniform)
      /\ {} \cup {} = {} /\ {} \cup Uniform = Uniform
      /\ P2 = Uniform /\ Uniform = {"uniform_buffer", "uniform_memory"}
  BY DEF Loading, Uniform
<1>2. /\ "uniform_buffer" \notin P0 /\ "uniform_memory" \notin P1
      /\ "uniform_buffer" \in P1 /\ "uniform_memory" \in P2
  OBVIOUS
<1>3. HasParents("uniform_buffer") /\ HasParents("uniform_memory")
  BY Parented
<1>4. {"swapchain"} \in SUBSET Kinds /\ {"swapchain"} \cap {} = {}
  OBVIOUS
<1> HIDE DEF P0, P1, P2
<1>5. Leads(TRUE, Mid(P0, {}, {}), Part("uniform_buffer", {}, {}), Mid(P1, {}, {}))
  <2>1. {} \in SUBSET (P0 \cup {"uniform_buffer"}) /\ {} \subseteq Mid(P0, {}, {}).live
    OBVIOUS
  <2>2. Leads(TRUE, Mid(P0, {}, {}), Part("uniform_buffer", {}, {}),
              Mid(P0 \cup {"uniform_buffer"}, {}, {} \cup {}))
    BY <1>1, <1>2, <1>3, <2>1, LoadPart
  <2> QED
    BY <1>1, <2>2 DEF P1
<1>6. Leads(TRUE, Mid(P1, {}, {}), Part("uniform_memory", {New("uniform_buffer")}, {}),
            Mid(P2, {}, {}))
  <2>1. {} \in SUBSET (P1 \cup {"uniform_memory"})
    OBVIOUS
  <2>2. {New("uniform_buffer")} \subseteq Mid(P1, {}, {}).live
    BY <1>1, <1>2, ThereInMid
  <2>3. Leads(TRUE, Mid(P1, {}, {}), Part("uniform_memory", {New("uniform_buffer")}, {}),
              Mid(P1 \cup {"uniform_memory"}, {}, {} \cup {}))
    BY <1>1, <1>2, <1>3, <2>1, <2>2, LoadPart
  <2> QED
    BY <1>1, <2>3 DEF P2
<1>7. Leads(TRUE, Mid(P2, {}, {}), Keep(NewOnes(Uniform), Uniform), Mid(P2, {}, Uniform))
  <2>1. Uniform \in SUBSET P2
    BY <1>1
  <2>2. NewOnes(Uniform) \subseteq Mid(P2, {}, {}).live
    BY <1>1, <2>1, ThereInMid
  <2>3. Leads(TRUE, Mid(P2, {}, {}), Keep(NewOnes(Uniform), Uniform),
              Mid(P2, {}, {} \cup Uniform))
    BY <1>1, <2>1, <2>2, LoadKeep
  <2> QED
    BY <1>1, <2>3
<1>8. Leads(TRUE, Mid(P2, {}, Uniform), UpdateUniformBuffers({New("uniform_memory")}),
            Mid(P2, {}, Uniform))
  <2>1. {New("uniform_memory")} \cup Held({"swapchain"}) \subseteq Mid(P2, {}, Uniform).live
    BY <1>1, <1>2, <1>4, ThereInMid
  <2> QED
    BY <1>1, <2>1, LoadUse DEF UpdateUniformBuffers
<1>9. Leads(TRUE, Mid(P0, {}, {}),
            Part("uniform_buffer", {}, {}) \o Part("uniform_memory", {New("uniform_buffer")}, {}),
            Mid(P2, {}, {}))
  BY <1>5, <1>6, Then
<1>10. Leads(TRUE, Mid(P0, {}, {}),
             Part("uniform_buffer", {}, {}) \o
             Part("uniform_memory", {New("uniform_buffer")}, {}) \o
             Keep(NewOnes(Uniform), Uniform), Mid(P2, {}, Uniform))
  BY <1>7, <1>9, Then
<1>11. Leads(TRUE, Mid(P0, {}, {}), LoadUniformBuffer, Mid(P2, {}, Uniform))
  BY <1>8, <1>10, Then DEF LoadUniformBuffer
<1> QED
  BY <1>1, <1>11, NowIsMid DEF Made, P0

LEMMA DescriptorPoolLoads ==
  ASSUME Typed, Clean(Now), held["device"] # Null
  PROVE  Leads(TRUE, Now, LoadDescriptorPool, Made({"descriptor_pool"}))
BY KindNames, NoneHeld, OneMade, Parented DEF LoadDescriptorPool

LEMMA DescriptorSetsLoad ==
  ASSUME Typed, Clean(Now), held["device"] # Null, held["descriptor_pool"] # Null
  PROVE  Leads(TRUE, Now, LoadDescriptorSets, Made({"descriptor_set_layout", "descriptor_sets"}))
<1> USE KindNames
<1> DEFINE N1 == {"descriptor_set_layout"}
           N2 == N1 \cup {"descriptor_sets"}
<1>1. /\ {} \in SUBSET Kinds /\ N1 \in SUBSET Kinds /\ N2 \in SUBSET Kinds
      /\ "descriptor_sets" \notin N1 /\ N2 = {"descriptor_set_layout", "descriptor_sets"}
      /\ "descriptor_set_layout" \in N1 /\ "descriptor_sets" \in N2
      /\ {"uniform_buffer"} \in SUBSET Kinds
  OBVIOUS
<1> HIDE DEF N1, N2
<1>2. /\ {New("descriptor_set_layout")} \subseteq Made(N1).live
      /\ {New("descriptor_sets")} \cup Held({"uniform_buffer"}) \subseteq Made(N2).live
  BY <1>1, MadeIsLoading
<1>3. Leads(TRUE, Now, Make("descriptor_set_layout", {}), Made(N1))
  BY <1>1, NoneHeld, OneMade, Parented DEF N1
<1>4. Leads(TRUE, Made(N1), Make("descriptor_sets", {New("descriptor_set_layout")}), Made(N2))
  BY <1>1, <1>2, OneMore, Parented DEF N2
<1>5. Leads(TRUE, Made(N2), Use({New("descriptor_sets")} \cup Held({"uniform_buffer"})), Made(N2))
  BY <1>1, <1>2, MadeUse
<1>6. Leads(TRUE, Now, Make("descriptor_set_layout", {}) \o
                       Make("descriptor_sets", {New("descriptor_set_layout")}), Made(N2))
  BY <1>3, <1>4, Then
<1>7. Leads(TRUE, Now, LoadDescriptorSets, Made(N2))
  BY <1>5, <1>6, Then DEF LoadDescriptorSets
<1> QED
  BY <1>1, <1>7

LEMMA RenderPassLoads ==
  ASSUME Typed, Clean(Now), held["device"] # Null
  PROVE  Leads(TRUE, Now, LoadRenderPass, Mid({"render_pass"}, {"render_pass"}, {"render_pass"}))
<1> USE KindNames
<1> DEFINE N == {"render_pass"}
<1>1. /\ Loading(N, {}, N) /\ {} \cup N = N
  BY DEF Loading
<1>2. "render_pass" \in Owned /\ Leaf("render_pass") /\ "render_pass" \notin {}
  BY DEF Owned, Leaf, Pools, Allocated
<1>3. Leads(TRUE, Now, Make("render_pass", {}), Mid(N, {}, N))
  BY NoneHeld, OneMade, Parented DEF Made
<1>4. Leads(TRUE, Mid(N, {}, N), Free("render_pass"), Mid(N, {} \cup N, N))
  BY <1>1, <1>2, LoadFree
<1> HIDE DEF N
<1>5. Leads(TRUE, Now, LoadRenderPass, Mid(N, N, N))
  BY <1>1, <1>3, <1>4, Then DEF LoadRenderPass, DestroyRenderPass
<1> QED
  BY <1>5 DEF N

LEMMA FrameBuffersLoad ==
  ASSUME Typed, Clean(Now), held["device"] # Null
  PROVE  Leads(TRUE, Now, LoadFrameBuffers,
               Mid({"framebuffers"}, {"framebuffers"}, {"framebuffers"}))
<1> USE KindNames
<1> DEFINE N == {"framebuffers"}
           kinds == {"views", "depth_view", "render_pass"}
<1>1. /\ Loading({}, {}, {}) /\ Loading({}, N, {}) /\ {} \cup N = N
      /\ kinds \in SUBSET Kinds /\ kinds \cap N = {} /\ "framebuffers" \notin {}
  BY DEF Loading, Owned
<1>2. "framebuffers" \in Owned /\ Leaf("framebuffers")
  BY DEF Owned, Leaf, Pools, Allocated
<1>3. HasParents("framebuffers")
  BY Parented
<1>4. Leads(TRUE, Mid({}, {}, {}), Free("framebuffers"), Mid({}, {} \cup N, {}))
  BY <1>1, <1>2, LoadFree
<1> HIDE DEF kinds
<1>5. Held(kinds) \subseteq Mid({}, N, {}).live
  <2> HIDE DEF N
  <2> QED
    BY <1>1, ThereInMid
<1>6. Leads(TRUE, Mid({}, N, {}), Make("framebuffers", Held(kinds)), Mid({} \cup N, N, {} \cup N))
  BY <1>1, <1>3, <1>5, LoadMake
<1> HIDE DEF N
<1>7. Leads(TRUE, Mid({}, {}, {}), LoadFrameBuffers, Mid(N, N, N))
  BY <1>1, <1>4, <1>6, Then DEF LoadFrameBuffers, DestroyFramebuffers, kinds
<1> QED
  BY <1>7, NowIsMid DEF N

LEMMA PipelineCacheLoads ==
  ASSUME Typed, Clean(Now), held["device"] # Null
  PROVE  Leads(TRUE, Now, LoadPipelineCache, Made({"pipeline_cache"}))
BY KindNames, NoneHeld, OneMade, Parented DEF LoadPipelineCache

LEMMA PipelineLayoutLoads ==
  ASSUME Typed, Clean(Now), held["device"] # Null
  PROVE  Leads(TRUE, Now, LoadPipelineLayout, Made({"pipeline_layout"}))
<1>1. {"descriptor_set_layout"} \in SUBSET Kinds
  BY KindNames
<1> QED
  BY <1>1, KindNames, OneMade, Parented DEF LoadPipelineLayout

LEMMA PipelineLoads ==
  ASSUME Typed, Clean(Now), held["device"] # Null
  PROVE  Leads(TRUE, Now, LoadPipeline, Made({"pipeline"}))
<1> DEFINE kinds == {"pipeline_cache", "pipeline_layout", "vertex_module", "fragment_module",
                     "render_pass"}
<1>1. kinds \in SUBSET Kinds
  BY KindNames
<1> HIDE DEF kinds
<1>2. HasParents("pipeline") /\ "pipeline" \in Kinds
  BY KindNames, Parented
<1>3. Leads(TRUE, Now, Make("pipeline", Held(kinds)), Made({"pipeline"}))
  BY <1>1, <1>2, OneMade
<1> QED
  BY <1>3 DEF LoadPipeline, kinds

LEMMA CommandPoolLoads ==
  ASSUME Typed, Clean(Now), held["device"] # Null
  PROVE  Leads(TRUE, Now, LoadCommandPool, Made({"command_pool"}))
BY KindNames, NoneHeld, OneMade, Parented DEF LoadCommandPool

LEMMA CommandBuffersLoad ==
  ASSUME Typed, Clean(Now), held["device"] # Null, held["command_pool"] # Null,
         held["command_buffers"] = Null
  PROVE  Leads(TRUE, Now, LoadCommandBuffers, Made({"command_buffers"}))
<1>1. Leads(TRUE, Now, Make("command_buffers", {}), Made({"command_buffers"}))
  BY KindNames, NoneHeld, OneMade, Parented
<1>2. Leads(TRUE, Now, Free("command_buffers"), Now)
  BY RunsNothing, NoCall DEF Leads, Free
<1> QED
  BY <1>1, <1>2, Then DEF LoadCommandBuffers

LEMMA SemaphoresLoad ==
  ASSUME Typed, Clean(Now), held["device"] # Null
  PROVE  Leads(TRUE, Now, LoadSemaphores, Made({"render_finished"}))
BY KindNames, NoneHeld, OneMade, Parented DEF LoadSemaphores

-----------------------------------------------------------------------------
(* The functions of the frame loop that only use what is held.              *)

LEMMA HeldUsed ==
  ASSUME Typed, HeldLive(Now), NEW strict, NEW kinds \in SUBSET Kinds
  PROVE  Leads(strict, Now, Use(Held(kinds)), Now)
<1>1. Now = Mid({}, {}, {})
  BY NowIsMid
<1>2. Held(kinds) \subseteq Now.live
  BY DEF Held, HeldLive, Now
<1>3. Runs(strict, Now, Use(Held(kinds)), Now)
  BY <1>1, <1>2, UseRuns
<1>4. Held(kinds) \in SUBSET Objects
  BY ObjectTypes DEF Typed
<1>5. Use(Held(kinds)) \in Seq(Calls)
  BY <1>4, CallsTyped DEF Typed
<1> QED
  BY <1>3, <1>5 DEF Leads

LEMMA LoopUses ==
  ASSUME Typed, HeldLive(Now), NEW strict
  PROVE  /\ Leads(strict, Now, BeginRender, Now)
         /\ Leads(strict, Now, Draw, Now)
         /\ Leads(strict, Now, EndRender, Now)
         /\ Leads(strict, Now, WaitIdle, Now)
         /\ Leads(strict, Now, UpdateUniformBuffers(Held({"uniform_memory"})), Now)
<1> USE KindNames
<1>1. Leads(strict, Now, BeginRender, Now)
  <2>1. {"swapchain", "image_acquired"} \in SUBSET Kinds /\ {"device"} \in SUBSET Kinds
    OBVIOUS
  <2>2. Leads(strict, Now, Use(Held({"swapchain", "image_acquired"})), Now)
    BY <2>1, HeldUsed
  <2>3. Leads(strict, Now, Use(Held({"device"})), Now)
    BY <2>1, HeldUsed
  <2> QED
    BY <2>2, <2>3, Then DEF BeginRender
<1>2. Leads(strict, Now, Draw, Now)
  <2> DEFINE kinds == {"render_pass", "framebuffers", "command_buffers", "vertex_buffer",
                       "pipeline", "pipeline_layout", "descriptor_sets", "image_acquired",
                       "render_finished"}
  <2>1. kinds \in SUBSET Kinds
    OBVIOUS
  <2> HIDE DEF kinds
  <2>2. Leads(strict, Now, Use(Held(kinds)), Now)
    BY <2>1, HeldUsed
  <2> QED
    BY <2>2 DEF Draw, kinds
<1>3. Leads(strict, Now, EndRender, Now)
  <2>1. {"swapchain", "render_finished"} \in SUBSET Kinds
    OBVIOUS
  <2> QED
    BY <2>1, HeldUsed DEF EndRender
<1>4. Leads(strict, Now, WaitIdle, Now)
  <2>1. {"device"} \in SUBSET Kinds
    OBVIOUS
  <2> QED
    BY <2>1, HeldUsed DEF WaitIdle
<1>5. Leads(strict, Now, UpdateUniformBuffers(Held({"uniform_memory"})), Now)
  <2>1. /\ {"uniform_memory", "swapchain"} \in SUBSET Kinds
        /\ Held({"uniform_memory"}) \cup Held({"swapchain"}) = Held({"uniform_memory", "swapchain"})
    BY DEF Held
  <2>2. Leads(strict, Now, Use(Held({"uniform_memory", "swapchain"})), Now)
    BY <2>1, HeldUsed
  <2> QED
    BY <2>1, <2>2 DEF UpdateUniformBuffers
<1> QED
  BY <1>1, <1>2, <1>3, <1>4, <1>5

-----------------------------------------------------------------------------
(* What a function that loads leaves.                                       *)

LEMMA NewVersion ==
  ASSUME Typed, Clean(Now), NEW k \in Kinds
  PROVE  /\ held[k] = Null => New(k) = <<k, 0>>
         /\ held[k] = <<k, 0>> => New(k) = <<k, 1>>
         /\ held[k] = <<k, 1>> => New(k) = <<k, 0>>
<1>1. \A o \in live : held[o[1]] = o
  BY DEF Clean, Now
<1>2. <<k, 0>> \in live => held[k] = <<k, 0>>
  BY <1>1
<1>3. k # "null"
  BY DEF Kinds, Owned, Swapchain, Window, Uniform
<1>4. <<k, 0>> # Null
  BY <1>3 DEF Null
<1>5. held[k] = <<k, 0>> => <<k, 0>> \in live
  BY <1>4 DEF Clean, HeldLive, Now
<1>6. <<k, 0>> # <<k, 1>>
  OBVIOUS
<1> QED
  BY <1>2, <1>4, <1>5, <1>6 DEF New

LEMMA NotNull == \A o \in Objects : o # Null /\ o[1] \in Kinds
<1>1. "null" \notin Kinds
  BY DEF Kinds, Owned, Swapchain, Window, Uniform
<1> QED
  BY <1>1 DEF Objects, Null

\* Every kind it made and kept was replaced or missing: all is held again.
LEMMA LoadedClean ==
  ASSUME Typed, Clean(Now), NEW N, NEW Q \in SUBSET N, Loading(N, Q, N),
         \A k \in N \ Q : held[k] = Null
  PROVE  /\ Clean(Mid(N, Q, N))
         /\ \A k \in Kinds : Mid(N, Q, N).held[k] = IF k \in N THEN New(k) ELSE held[k]
<1> DEFINE b == Mid(N, Q, N)
<1>1. HeldLive(b)
  BY ThereInMid
<1>2. b.live = (live \ FreedOf(Q)) \cup NewOnes(N)
  BY DEF Mid
<1>3. \A k \in Kinds : b.held[k] = IF k \in N THEN New(k) ELSE held[k]
  BY DEF Mid
<1>4. \A o \in live : held[o[1]] = o /\ o # Null /\ o[1] \in Kinds
  BY NotNull DEF Clean, Now, Typed
<1>5. ASSUME NEW o \in live, o \notin FreedOf(Q)
      PROVE  b.held[o[1]] = o
  <2>1. o[1] \notin N
    <3>1. o[1] \notin Q
      BY <1>4, <1>5 DEF FreedOf, Held
    <3> QED
      BY <1>4, <3>1
  <2> HIDE DEF b
  <2> QED
    BY <1>3, <1>4, <2>1
<1>6. ASSUME NEW o \in NewOnes(N)
      PROVE  b.held[o[1]] = o
  <2>1. PICK k \in N : o = New(k)
    BY DEF NewOnes
  <2>2. k \in Kinds /\ o[1] = k
    BY <2>1, NewOfKind DEF Loading
  <2> HIDE DEF b
  <2> QED
    BY <1>3, <2>1, <2>2
<1> HIDE DEF b
<1>7. Clean(b)
  BY <1>1, <1>2, <1>5, <1>6 DEF Clean
<1> QED
  BY <1>3, <1>7 DEF b

-----------------------------------------------------------------------------
(* Destroying.                                                              *)

\* What may remain of a program that is taken down: what is held by members that free it,
\* and what that was made from.
Dismantled(a) ==
  \A k \in Owned : a.held[k] # Null =>
    /\ a.held[k] \in a.live
    /\ \A p \in ParentKinds(k) : a.held[p] # Null => a.held[p] \in a.live

Remains == {"instance", "debug_callback"}

\* What ~DrawCube leaves when nothing failed.
OnlyRemains(a) ==
  /\ a.live = {a.held[k] : k \in Remains} \ {Null}
  /\ \A k \in Owned \ Remains : a.held[k] = Null

LEMMA HeldFreeable ==
  ASSUME Typed, HeldLive(Now)
  PROVE  (\A k \in Kinds : Freeable(k)) /\ Dismantled(Now)
<1>1. \A k \in Kinds : held[k] # Null => held[k] \in live
  BY DEF HeldLive, Now
<1>2. \A k : ParentKinds(k) \subseteq Kinds
  BY ObjectTypes DEF Typed
<1>3. Owned \subseteq Kinds
  BY DEF Kinds
<1>4. Now.held = held /\ Now.live = live
  BY DEF Now
<1> QED
  BY <1>1, <1>2, <1>3, <1>4 DEF Freeable, Dismantled, Held

LEMMA DismantledFreeable ==
  ASSUME Dismantled(Now)
  PROVE  \A k \in Owned : Freeable(k)
<1>1. Now.held = held /\ Now.live = live
  BY DEF Now
<1> QED
  BY <1>1 DEF Freeable, Dismantled, Held

\* Frees, with nothing made before.
Gone(Q) == Mid({}, Q, {})

LEMMA GoneLeaf ==
  ASSUME Typed, NEW strict, NEW k \in Kinds, NEW Q \in SUBSET Kinds, Leaf(k), k \notin Q,
         ParentKinds(k) \cap Q = {}, Freeable(k)
  PROVE  Leads(strict, Gone(Q), Free(k), Gone(Q \cup {k}))
<1>1. AllFresh({}) /\ {} \in SUBSET {}
  BY DEF AllFresh
<1> QED
  BY <1>1, FreeLeaf DEF Gone

LEMMA GoneParent ==
  ASSUME Typed, NEW strict, NEW k \in Kinds, NEW Q \in SUBSET Kinds, k \notin Allocated,
         k \notin Q, ParentKinds(k) \cap Q = {}, Freeable(k),
         held[k] # Null /\ strict =>
           \A x \in Gone(Q).live : k \in ParentKinds(x[1]) => Pooled(k, x[1])
  PROVE  Leads(strict, Gone(Q), Free(k), Gone(Q \cup {k}))
<1>1. {} \in SUBSET {} /\ \A n \in {} : New(n) \notin live
  OBVIOUS
<1>2. Runs(strict, Gone(Q), Free(k), Gone(Q \cup {k}))
  BY <1>1, FreeRuns DEF Gone, Freeable
<1>3. Free(k) \in Seq(Calls)
  BY CallsTyped DEF Typed
<1> QED
  BY <1>2, <1>3 DEF Leads

\* A pool goes with what was allocated from it.
LEMMA GonePool ==
  ASSUME Typed, NEW strict, NEW k \in Pools, NEW Q \in SUBSET Kinds,
         k \notin Q, "device" \notin Q, Freeable(k)
  PROVE  Leads(strict, Gone(Q), Free(k), Gone(Q \cup {k}))
<1>1. k \in Kinds /\ k \notin Allocated
  BY KindNames DEF Pools, Allocated
<1>2. ParentKinds(k) = {"device"}
  BY DEF ParentKinds, Pools
<1>3. \A x : k \in ParentKinds(x) => Pooled(k, x)
  BY DEF ParentKinds, Pooled, Pools
<1> QED
  BY <1>1, <1>2, <1>3, GoneParent

LEMMA GoneSwapchain ==
  ASSUME Typed, NEW strict, NEW Q \in SUBSET Kinds, Q \cap Swapchain = {},
         "device" \notin Q, "surface" \notin Q, \A k \in Swapchain : Freeable(k)
  PROVE  Leads(strict, Gone(Q), DestroySwapchain, Gone(Q \cup Swapchain))
<1>1. AllFresh({}) /\ {} \in SUBSET {}
  BY DEF AllFresh
<1> QED
  BY <1>1, SwapchainDestroyed DEF Gone

\* What is there still, of what was held.
LEMMA GoneLive ==
  ASSUME NEW Q
  PROVE  /\ Gone(Q).live = live \ FreedOf(Q)
         /\ \A k \in Kinds : Gone(Q).held[k] = IF k \in Q /\ k \in Owned THEN Null ELSE held[k]
<1>1. NewOnes({}) = {}
  BY DEF NewOnes
<1> QED
  BY <1>1 DEF Gone, Mid

\* What is made from the device alone and nothing is made from.
Plain == {"render_pass", "framebuffers", "uniform_buffer", "uniform_memory", "vertex_module",
          "fragment_module", "vertex_buffer", "vertex_memory", "descriptor_set_layout",
          "pipeline_cache", "pipeline_layout", "pipeline", "render_finished"}

LEMMA GonePlain ==
  ASSUME Typed, NEW strict, NEW k \in Plain, NEW Q \in SUBSET Kinds, k \notin Q,
         "device" \notin Q, Freeable(k)
  PROVE  Leads(strict, Gone(Q), Free(k), Gone(Q \cup {k})) /\ Q \cup {k} \in SUBSET Kinds
<1>1. k \in Kinds
  BY KindNames DEF Plain
<1>2. Leaf(k)
  BY DEF Plain, Leaf, Pools, Allocated
<1>3. ParentKinds(k) = {"device"}
  BY DEF ParentKinds, Plain
<1> QED
  BY <1>1, <1>2, <1>3, GoneLeaf

LEMMA UniformDestroyed ==
  ASSUME Typed, NEW strict, NEW Q \in SUBSET Kinds, Q \cap Uniform = {}, "device" \notin Q,
         \A k \in Uniform : Freeable(k)
  PROVE  Leads(strict, Gone(Q), DestroyUniform, Gone(Q \cup Uniform))
<1> DEFINE Q1 == Q \cup {"uniform_buffer"}
           Q2 == Q1 \cup {"uniform_memory"}
<1>1. /\ Q2 = Q \cup Uniform
      /\ "uniform_buffer" \in Uniform /\ "uniform_memory" \in Uniform
      /\ "uniform_buffer" \notin Q /\ "uniform_memory" \notin Q1 /\ "device" \notin Q1
      /\ "uniform_buffer" \in Plain /\ "uniform_memory" \in Plain /\ Q1 \in SUBSET Kinds
  BY KindNames DEF Uniform, Plain
<1> HIDE DEF Q1, Q2
<1>2. Leads(strict, Gone(Q), Free("uniform_buffer"), Gone(Q1))
  BY <1>1, GonePlain DEF Q1
<1>3. Leads(strict, Gone(Q1), Free("uniform_memory"), Gone(Q2))
  BY <1>1, GonePlain DEF Q2
<1> QED
  BY <1>1, <1>2, <1>3, Then DEF DestroyUniform

\* The surface after the swapchain, the window of the operating system after both.
LEMMA WindowDestroyed ==
  ASSUME Typed, NEW strict, NEW Q \in SUBSET Kinds, Q \cap Window = {}, "instance" \notin Q,
         \A k \in Window : Freeable(k),
         held["surface"] # Null /\ strict =>
           \A x \in Gone(Q).live : "surface" \in ParentKinds(x[1]) => Pooled("surface", x[1])
  PROVE  Leads(strict, Gone(Q), DestroyWindow, Gone(Q \cup Window))
<1> DEFINE Q1 == Q \cup {"surface"}
           Q2 == Q1 \cup {"os_window"}
<1>1. /\ Q2 = Q \cup Window
      /\ "surface" \in Window /\ "os_window" \in Window
      /\ "surface" \notin Q /\ "os_window" \notin Q1 /\ Q1 \in SUBSET Kinds
      /\ "surface" \in Kinds /\ "os_window" \in Kinds
  BY KindNames DEF Window
<1>2. /\ "surface" \notin Allocated /\ Leaf("os_window")
      /\ ParentKinds("surface") = {"instance"} /\ ParentKinds("os_window") = {}
  BY DEF Allocated, Leaf, Pools, ParentKinds
<1> HIDE DEF Q1, Q2
<1>3. Leads(strict, Gone(Q), Free("surface"), Gone(Q1))
  <2>1. ParentKinds("surface") \cap Q = {}
    BY <1>2
  <2> QED
    BY <1>1, <1>2, <2>1, GoneParent DEF Q1
<1>4. Leads(strict, Gone(Q1), Free("os_window"), Gone(Q2))
  <2>1. ParentKinds("os_window") \cap Q1 = {}
    BY <1>2
  <2> QED
    BY <1>1, <1>2, <2>1, GoneLeaf DEF Q2
<1> QED
  BY <1>1, <1>3, <1>4, Then DEF DestroyWindow

\* What ~DrawCube frees, as far as the device.
DrawCubeFrees ==
  Plain \cup Pools \cup Swapchain \cup Window \cup {"device"}

LEMMA DrawCubeGone ==
  ASSUME Typed, HeldLive(Now), NEW strict,
         strict => Clean(Now) /\ \A pool \in Pools : held[pool] # Null
  PROVE  Leads(strict, Gone({}), DestroyDrawCube, Gone(DrawCubeFrees))
<1> USE KindNames
<1> DEFINE Q1  == {}  \cup {"render_finished"}
           Q2  == Q1  \cup {"pipeline"}
           Q3  == Q2  \cup {"pipeline_layout"}
           Q4  == Q3  \cup {"pipeline_cache"}
           Q5  == Q4  \cup {"descriptor_set_layout"}
           Q6  == Q5  \cup {"descriptor_pool"}
           Q7  == Q6  \cup {"framebuffers"}
           Q8  == Q7  \cup {"render_pass"}
           Q10 == Q8  \cup Uniform
           Q11 == Q10 \cup {"vertex_buffer"}
           Q12 == Q11 \cup {"vertex_memory"}
           Q13 == Q12 \cup {"vertex_module"}
           Q14 == Q13 \cup {"fragment_module"}
           Q15 == Q14 \cup Swapchain
           Q16 == Q15 \cup {"command_pool"}
           Q18 == Q16 \cup Window
           Q19 == Q18 \cup {"device"}
<1>f. \A k \in Kinds : Freeable(k)
  BY HeldFreeable
<1>p. /\ Plain \subseteq Kinds /\ Pools \subseteq Kinds /\ Swapchain \subseteq Kinds
      /\ Window \subseteq Kinds /\ Uniform \subseteq Kinds
  BY DEF Plain, Pools, Swapchain, Window, Uniform
<1>k. /\ Q1 \in SUBSET Kinds /\ Q2 \in SUBSET Kinds /\ Q3 \in SUBSET Kinds
      /\ Q4 \in SUBSET Kinds /\ Q5 \in SUBSET Kinds /\ Q6 \in SUBSET Kinds
      /\ Q7 \in SUBSET Kinds /\ Q8 \in SUBSET Kinds /\ Q10 \in SUBSET Kinds
      /\ Q11 \in SUBSET Kinds /\ Q12 \in SUBSET Kinds /\ Q13 \in SUBSET Kinds
      /\ Q14 \in SUBSET Kinds /\ Q15 \in SUBSET Kinds /\ Q16 \in SUBSET Kinds
      /\ Q18 \in SUBSET Kinds
  BY <1>p
<1>n. /\ "pipeline" \notin Q1 /\ "pipeline_layout" \notin Q2 /\ "pipeline_cache" \notin Q3
      /\ "descriptor_set_layout" \notin Q4 /\ "descriptor_pool" \notin Q5
      /\ "framebuffers" \notin Q6 /\ "render_pass" \notin Q7 /\ Q8 \cap Uniform = {}
      /\ "vertex_buffer" \notin Q10 /\ "vertex_memory" \notin Q11
      /\ "vertex_module" \notin Q12 /\ "fragment_module" \notin Q13
      /\ Q14 \cap Swapchain = {} /\ "command_pool" \notin Q15 /\ Q16 \cap Window = {}
      /\ "device" \notin Q18 /\ "instance" \notin Q18 /\ "surface" \notin Q14
  BY DEF Uniform, Swapchain, Window
<1>d. /\ "device" \notin Q16 /\ "device" \notin Q15 /\ "device" \notin Q14 /\ "device" \notin Q13
      /\ "device" \notin Q12 /\ "device" \notin Q11 /\ "device" \notin Q10 /\ "device" \notin Q8
      /\ "device" \notin Q7 /\ "device" \notin Q6 /\ "device" \notin Q5 /\ "device" \notin Q4
      /\ "device" \notin Q3 /\ "device" \notin Q2 /\ "device" \notin Q1 /\ "instance" \notin Q16
  BY <1>n
<1>e. /\ Q19 = DrawCubeFrees /\ Swapchain \subseteq Q16
      /\ Plain \cup Pools \cup Swapchain \cup Window \subseteq Q18
  BY DEF DrawCubeFrees, Plain, Pools, Uniform
<1>l. /\ {"render_finished", "pipeline", "pipeline_layout", "pipeline_cache",
          "descriptor_set_layout", "framebuffers", "render_pass", "vertex_buffer",
          "vertex_memory", "vertex_module", "fragment_module"} \subseteq Plain
      /\ "descriptor_pool" \in Pools /\ "command_pool" \in Pools
  BY DEF Plain, Pools
<1>s. /\ {} \in SUBSET Kinds /\ "render_finished" \notin {} /\ "device" \notin {}
  OBVIOUS
<1>c. strict => /\ \A o \in live : held[o[1]] = o /\ o # Null /\ o[1] \in Kinds
                /\ \A pool \in Pools : held[pool] # Null /\ held[pool][1] = pool
  BY <1>p, NotNull DEF Clean, Now, Typed, HeldTyped
<1> HIDE DEF Q1, Q2, Q3, Q4, Q5, Q6, Q7, Q8, Q10, Q11, Q12, Q13, Q14, Q15, Q16, Q18, Q19
<1>1. Leads(strict, Gone({}), Free("render_finished"), Gone(Q1))
  BY <1>f, <1>l, <1>s, GonePlain DEF Q1
<1>2. Leads(strict, Gone(Q1), Free("pipeline"), Gone(Q2))
  BY <1>f, <1>k, <1>n, <1>d, <1>l, GonePlain DEF Q2
<1>3. Leads(strict, Gone(Q2), Free("pipeline_layout"), Gone(Q3))
  BY <1>f, <1>k, <1>n, <1>d, <1>l, GonePlain DEF Q3
<1>4. Leads(strict, Gone(Q3), Free("pipeline_cache"), Gone(Q4))
  BY <1>f, <1>k, <1>n, <1>d, <1>l, GonePlain DEF Q4
<1>5. Leads(strict, Gone(Q4), Free("descriptor_set_layout"), Gone(Q5))
  BY <1>f, <1>k, <1>n, <1>d, <1>l, GonePlain DEF Q5
<1>6. Leads(strict, Gone(Q5), Free("descriptor_pool"), Gone(Q6))
  BY <1>f, <1>k, <1>n, <1>d, <1>l, <1>p, GonePool DEF Q6
<1>7. Leads(strict, Gone(Q6), DestroyFramebuffers, Gone(Q7))
  BY <1>f, <1>k, <1>n, <1>d, <1>l, GonePlain DEF Q7, DestroyFramebuffers
<1>8. Leads(strict, Gone(Q7), DestroyRenderPass, Gone(Q8))
  BY <1>f, <1>k, <1>n, <1>d, <1>l, GonePlain DEF Q8, DestroyRenderPass
<1>9. Leads(strict, Gone(Q8), DestroyUniform, Gone(Q10))
  BY <1>f, <1>k, <1>n, <1>d, <1>p, UniformDestroyed DEF Q10
<1>10. Leads(strict, Gone(Q10), DestroyVertexBuffer, Gone(Q12))
  <2>1. Leads(strict, Gone(Q10), Free("vertex_buffer"), Gone(Q11))
    BY <1>f, <1>k, <1>n, <1>d, <1>l, GonePlain DEF Q11
  <2>2. Leads(strict, Gone(Q11), Free("vertex_memory"), Gone(Q12))
    BY <1>f, <1>k, <1>n, <1>d, <1>l, GonePlain DEF Q12
  <2> QED
    BY <2>1, <2>2, Then DEF DestroyVertexBuffer
<1>11. Leads(strict, Gone(Q12), DestroyShaderModules, Gone(Q14))
  <2>1. Leads(strict, Gone(Q12), Free("vertex_module"), Gone(Q13))
    BY <1>f, <1>k, <1>n, <1>d, <1>l, GonePlain DEF Q13
  <2>2. Leads(strict, Gone(Q13), Free("fragment_module"), Gone(Q14))
    BY <1>f, <1>k, <1>n, <1>d, <1>l, GonePlain DEF Q14
  <2> QED
    BY <2>1, <2>2, Then DEF DestroyShaderModules
<1>12. Leads(strict, Gone(Q14), DestroySwapchain, Gone(Q15))
  BY <1>f, <1>k, <1>n, <1>d, <1>p, GoneSwapchain DEF Q15
<1>13. Leads(strict, Gone(Q15), Free("command_pool"), Gone(Q16))
  BY <1>f, <1>k, <1>n, <1>d, <1>l, <1>p, GonePool DEF Q16
<1>14. Leads(strict, Gone(Q16), DestroyWindow, Gone(Q18))
  <2>1. ASSUME strict, NEW x \in Gone(Q16).live, "surface" \in ParentKinds(x[1])
        PROVE  FALSE
    <3>1. x \in live /\ x \notin FreedOf(Q16)
      BY <2>1, GoneLive
    <3>2. x[1] = "swapchain"
      BY <2>1 DEF ParentKinds
    <3>3. x[1] \in Q16
      BY <1>e, <3>2 DEF Swapchain
    <3>4. x \in Held(Q16)
      BY <1>c, <2>1, <3>1, <3>3 DEF Held
    <3> QED
      BY <3>1, <3>4 DEF FreedOf
  <2>2. \A k \in Window : Freeable(k)
    BY <1>f, <1>p
  <2> QED
    BY <1>k, <1>n, <1>d, <2>1, <2>2, WindowDestroyed DEF Q18
<1>15. Leads(strict, Gone(Q18), Free("device"), Gone(Q19))
  <2>1. ASSUME strict, NEW x \in Gone(Q18).live, "device" \in ParentKinds(x[1])
        PROVE  FALSE
    <3>1. x \in live /\ x \notin FreedOf(Q18)
      BY <2>1, GoneLive
    <3>2. x[1] \in Kinds /\ held[x[1]] = x /\ x # Null
      BY <1>c, <2>1, <3>1
    <3>3. x[1] \in Plain \cup Pools \cup Swapchain \cup Window \cup Allocated
      <4>1. x[1] \notin {"instance", "debug_callback", "device"}
        BY <2>1 DEF ParentKinds
      <4> QED
        BY <3>2, <4>1 DEF Kinds, Owned, Plain, Pools, Swapchain, Window, Uniform, Allocated
    <3>4. CASE x[1] \in Plain \cup Pools \cup Swapchain \cup Window
      <4>1. x \in Held(Q18)
        BY <1>e, <3>2, <3>4 DEF Held
      <4> QED
        BY <3>1, <4>1 DEF FreedOf
    <3>5. CASE x[1] \in Allocated
      <4>1. \E pool \in Pools : Pooled(pool, x[1])
        BY <3>5 DEF Pooled, Pools, Allocated
      <4>2. PICK pool \in Pools : Pooled(pool, x[1])
        BY <4>1
      <4>3. held[pool] # Null /\ held[pool][1] = pool
        BY <1>c, <2>1
      <4>4. held[pool] \in Held(Q18)
        BY <1>e, <4>3 DEF Held
      <4>5. x \in PooledOf(Held(Q18), live)
        BY <3>1, <4>2, <4>3, <4>4 DEF PooledOf
      <4> QED
        BY <3>1, <4>5 DEF FreedOf
    <3> QED
      BY <3>3, <3>4, <3>5
  <2>2. "device" \in Kinds /\ "device" \notin Allocated /\ ParentKinds("device") = {"instance"}
    BY DEF Allocated, ParentKinds
  <2>3. ParentKinds("device") \cap Q18 = {}
    BY <1>n, <2>2
  <2> QED
    BY <1>f, <1>k, <1>n, <2>1, <2>2, <2>3, GoneParent DEF Q19
<1>21. Leads(strict, Gone({}), Free("render_finished") \o Free("pipeline"), Gone(Q2))
  BY <1>1, <1>2, Then
<1>22. Leads(strict, Gone({}), Free("render_finished") \o Free("pipeline") \o
             Free("pipeline_layout"), Gone(Q3))
  BY <1>3, <1>21, Then
<1>23. Leads(strict, Gone({}), Free("render_finished") \o Free("pipeline") \o
             Free("pipeline_layout") \o Free("pipeline_cache"), Gone(Q4))
  BY <1>4, <1>22, Then
<1>24. Leads(strict, Gone({}), Free("render_finished") \o Free("pipeline") \o
             Free("pipeline_layout") \o Free("pipeline_cache") \o
             Free("descriptor_set_layout"), Gone(Q5))
  BY <1>5, <1>23, Then
<1> DEFINE S6 == Free("render_finished") \o Free("pipeline") \o Free("pipeline_layout") \o
                 Free("pipeline_cache") \o Free("descriptor_set_layout") \o
                 Free("descriptor_pool")
           S7  == S6  \o DestroyFramebuffers
           S8  == S7  \o DestroyRenderPass
           S10 == S8  \o DestroyUniform
           S12 == S10 \o DestroyVertexBuffer
           S14 == S12 \o DestroyShaderModules
           S15 == S14 \o DestroySwapchain
           S16 == S15 \o Free("command_pool")
           S18 == S16 \o DestroyWindow
<1>25. DestroyDrawCube = S18 \o Free("device")
  BY DEF DestroyDrawCube
<1>26. Leads(strict, Gone({}), S6, Gone(Q6))
  BY <1>6, <1>24, Then
<1> HIDE DEF S6, S7, S8, S10, S12, S14, S15, S16, S18
<1>27. Leads(strict, Gone({}), S7, Gone(Q7))
  BY <1>7, <1>26, Then DEF S7
<1>28. Leads(strict, Gone({}), S8, Gone(Q8))
  BY <1>8, <1>27, Then DEF S8
<1>29. Leads(strict, Gone({}), S10, Gone(Q10))
  BY <1>9, <1>28, Then DEF S10
<1>30. Leads(strict, Gone({}), S12, Gone(Q12))
  BY <1>10, <1>29, Then DEF S12
<1>31. Leads(strict, Gone({}), S14, Gone(Q14))
  BY <1>11, <1>30, Then DEF S14
<1>32. Leads(strict, Gone({}), S15, Gone(Q15))
  BY <1>12, <1>31, Then DEF S15
<1>33. Leads(strict, Gone({}), S16, Gone(Q16))
  BY <1>13, <1>32, Then DEF S16
<1>34. Leads(strict, Gone({}), S18, Gone(Q18))
  BY <1>14, <1>33, Then DEF S18
<1> QED
  BY <1>15, <1>25, <1>34, <1>e, Then

LEMMA DrawCubeDestroyed ==
  ASSUME Typed, HeldLive(Now), NEW strict,
         strict => Clean(Now) /\ \A pool \in Pools : held[pool] # Null
  PROVE  \E b : /\ Leads(strict, Now, DestroyDrawCube, b)
                /\ Dismantled(b)
                /\ strict => OnlyRemains(b)
<1> DEFINE Q == DrawCubeFrees
           b == Gone(Q)
<1>1. Leads(strict, Now, DestroyDrawCube, b)
  BY DrawCubeGone, NowIsMid DEF Gone
<1>2. /\ Owned \ Q = Remains /\ Remains \subseteq Kinds /\ Remains \cap Q = {}
      /\ Q \subseteq Kinds /\ Kinds \ (Q \cup Allocated) = Remains /\ Pools \subseteq Q
      /\ Owned \subseteq Kinds
  BY DEF Owned, DrawCubeFrees, Remains, Plain, Pools, Swapchain, Window, Uniform, Kinds,
         Allocated
<1>3. /\ b.live = live \ FreedOf(Q)
      /\ \A k \in Kinds : b.held[k] = IF k \in Q /\ k \in Owned THEN Null ELSE held[k]
  BY GoneLive
<1>4. \A k \in Kinds : held[k] # Null => held[k] \in live /\ held[k][1] = k
  BY DEF HeldLive, Now, Typed, HeldTyped
<1> HIDE DEF b, Q
<1>5. \A k \in Remains : b.held[k] = held[k]
  BY <1>2, <1>3
<1>6. \A k \in Owned \ Remains : b.held[k] = Null
  BY <1>2, <1>3
<1>7. ASSUME NEW k \in Remains, held[k] # Null
      PROVE  held[k] \in b.live
  <2>1. k \in Kinds /\ k \notin Q /\ k \notin Allocated
    BY <1>2 DEF Remains, Allocated
  <2>2. held[k] \notin Held(Q)
    BY <1>2, <1>4, <1>7, <2>1 DEF Held
  <2>3. held[k] \notin PooledOf(Held(Q), live)
    BY <1>4, <1>7, <2>1, ParentsNamed DEF PooledOf
  <2> QED
    BY <1>3, <1>4, <1>7, <2>1, <2>2, <2>3 DEF FreedOf
<1>8. Dismantled(b)
  <2> SUFFICES ASSUME NEW k \in Owned, b.held[k] # Null
               PROVE  /\ b.held[k] \in b.live
                      /\ \A p \in ParentKinds(k) : b.held[p] # Null => b.held[p] \in b.live
    BY DEF Dismantled
  <2>1. k \in Remains
    BY <1>6
  <2>2. ParentKinds(k) \subseteq Remains
    BY <2>1 DEF ParentKinds, Remains
  <2> QED
    BY <1>5, <1>7, <2>1, <2>2
<1>9. ASSUME strict
      PROVE  OnlyRemains(b)
  <2>1. \A o \in live : held[o[1]] = o /\ o # Null /\ o[1] \in Kinds
    BY <1>9, NotNull DEF Clean, Now, Typed
  <2>2. ASSUME NEW x \in b.live
        PROVE  x[1] \in Remains /\ held[x[1]] = x /\ x # Null
    <3>1. x \in live /\ x \notin Held(Q) /\ x \notin PooledOf(Held(Q), live)
      BY <1>3 DEF FreedOf
    <3>2. held[x[1]] = x /\ x # Null /\ x[1] \in Kinds
      BY <2>1, <3>1
    <3>3. x[1] \notin Q
      BY <3>1, <3>2 DEF Held
    <3>4. x[1] \notin Allocated
      <4> SUFFICES ASSUME x[1] \in Allocated
                   PROVE  FALSE
        OBVIOUS
      <4>1. \E pool \in Pools : Pooled(pool, x[1])
        BY DEF Pooled, Pools, Allocated
      <4>2. PICK pool \in Pools : Pooled(pool, x[1])
        BY <4>1
      <4>3. pool \in Kinds /\ held[pool] # Null /\ held[pool][1] = pool /\ pool \in Q
        BY <1>2, <1>4, <1>9
      <4>4. held[pool] \in Held(Q)
        BY <4>3 DEF Held
      <4> QED
        BY <3>1, <4>2, <4>3, <4>4 DEF PooledOf
    <3> QED
      BY <1>2, <3>2, <3>3, <3>4
  <2>3. b.live = {b.held[k] : k \in Remains} \ {Null}
    BY <1>5, <1>7, <2>2
  <2> QED
    BY <1>6, <2>3 DEF OnlyRemains
<1> QED
  BY <1>1, <1>8, <1>9

\* A window whose constructor threw is freed, if there was one.
LEMMA LocalsDestroyed ==
  ASSUME Typed, HeldLive(Now)
  PROVE  \E b : Leads(FALSE, Now, DestroyLocals, b) /\ Dismantled(b)
<1> DEFINE o == <<"os_window", 0>>
           c == Call({}, {}, {o}, {}, "returns")
           b == After(Now, c)
<1>1. DestroyLocals \in Seq(Calls)
  BY ScriptsTyped DEF FunctionNames, Script, Typed
<1>2. CASE ~ (held["os_window"] = Null /\ o \in live)
  <2>1. DestroyLocals = << >>
    BY <1>2 DEF DestroyLocals
  <2>2. Runs(FALSE, Now, << >>, Now)
    BY RunsNothing
  <2> QED
    BY <1>1, <2>1, <2>2, HeldFreeable DEF Leads
<1>3. CASE held["os_window"] = Null /\ o \in live
  <2>1. c.uses = {} /\ c.makes = {} /\ c.frees = {o} /\ c.keeps = {} /\ c.outcome = "returns"
    BY DEF Call
  <2>2. DestroyLocals = <<c>>
    BY <1>3 DEF DestroyLocals
  <2> HIDE DEF c
  <2>3. Good(FALSE, Now, c)
    BY <1>3, <2>1 DEF Good, Now
  <2>4. Leads(FALSE, Now, DestroyLocals, b)
    BY <1>1, <2>2, <2>3, RunsOne DEF Leads
  <2>5. \A k \in Kinds : held[k] # Null => held[k] \in live /\ held[k][1] = k
    BY DEF HeldLive, Now, Typed, HeldTyped
  <2>6. PooledOf({o}, live) = {}
    BY ParentsNamed DEF PooledOf, Pools
  <2>7. b.live = live \ {o}
    BY <2>1, <2>6 DEF After, Now
  <2>8. \A k \in Kinds : Kept(c, k) = {}
    BY <2>1 DEF Kept
  <2>9. \A k \in Kinds : held[k] # o
    BY <1>3, <2>5 DEF Null
  <2>10. \A k \in Kinds : b.held[k] = held[k]
    BY <2>1, <2>8, <2>9 DEF After, Now
  <2> HIDE DEF b, o
  <2>11. \A k \in Kinds : b.held[k] # Null => b.held[k] \in b.live
    BY <2>5, <2>7, <2>9, <2>10
  <2>12. Dismantled(b)
    <3>1. Owned \subseteq Kinds /\ \A k : ParentKinds(k) \subseteq Kinds
      BY ObjectTypes DEF Kinds, Typed
    <3> QED
      BY <2>11, <3>1 DEF Dismantled
  <2> QED
    BY <2>4, <2>12
<1> QED
  BY <1>2, <1>3

\* The members, in the reverse of their declaration.
MembersFree == {"render_pass"} \cup Uniform \cup Swapchain \cup Window \cup Remains

LEMMA MembersDestroyed ==
  ASSUME Typed, Dismantled(Now), NEW strict, strict => OnlyRemains(Now)
  PROVE  \E b : /\ Leads(strict, Now, DestroyMembers, b)
                /\ strict => b.live = {}
<1> USE KindNames
<1> DEFINE Q1 == {} \cup {"render_pass"}
           Q2 == Q1 \cup Uniform
           Q3 == Q2 \cup Swapchain
           Q4 == Q3 \cup Window
           Q5 == Q4 \cup {"debug_callback"}
           Q6 == Q5 \cup {"instance"}
<1>f. \A k \in Owned : Freeable(k)
  BY DismantledFreeable
<1>p. /\ Swapchain \subseteq Owned /\ Window \subseteq Owned /\ Uniform \subseteq Owned
      /\ {"render_pass", "debug_callback", "instance"} \subseteq Owned /\ Owned \subseteq Kinds
  BY DEF Owned, Kinds
<1>k. /\ {} \in SUBSET Kinds /\ Q1 \in SUBSET Kinds /\ Q2 \in SUBSET Kinds
      /\ Q3 \in SUBSET Kinds /\ Q4 \in SUBSET Kinds /\ Q5 \in SUBSET Kinds
  BY <1>p
<1>n. /\ "render_pass" \notin {} /\ "device" \notin {} /\ Q1 \cap Uniform = {}
      /\ "device" \notin Q1 /\ Q2 \cap Swapchain = {} /\ "device" \notin Q2
      /\ "surface" \notin Q2 /\ Q3 \cap Window = {} /\ "instance" \notin Q3
      /\ "debug_callback" \notin Q4 /\ "instance" \notin Q4 /\ "instance" \notin Q5
  BY DEF Uniform, Swapchain, Window
<1>e. Q6 = MembersFree /\ "debug_callback" \in Q5 /\ Remains \subseteq Q6
  BY DEF MembersFree, Remains
<1>s. strict => /\ live = Held(Remains)
                /\ \A k \in Owned \ Remains : held[k] = Null
  BY DEF OnlyRemains, Now, Held
<1> HIDE DEF Q1, Q2, Q3, Q4, Q5, Q6
<1>1. Leads(strict, Gone({}), DestroyRenderPass, Gone(Q1))
  <2>1. "render_pass" \in Plain /\ Freeable("render_pass")
    BY <1>f, <1>p DEF Plain
  <2> QED
    BY <1>k, <1>n, <2>1, GonePlain DEF Q1, DestroyRenderPass
<1>2. Leads(strict, Gone(Q1), DestroyUniform, Gone(Q2))
  BY <1>f, <1>p, <1>k, <1>n, UniformDestroyed DEF Q2
<1>3. Leads(strict, Gone(Q2), DestroySwapchain, Gone(Q3))
  BY <1>f, <1>p, <1>k, <1>n, GoneSwapchain DEF Q3
<1>4. Leads(strict, Gone(Q3), DestroyWindow, Gone(Q4))
  <2>1. \A k \in Window : Freeable(k)
    BY <1>f, <1>p
  <2>2. strict => held["surface"] = Null
    BY <1>s DEF Owned, Window, Remains
  <2> QED
    BY <1>k, <1>n, <2>1, <2>2, WindowDestroyed DEF Q4
<1>5. Leads(strict, Gone(Q4), Free("debug_callback"), Gone(Q5))
  <2>1. /\ Leaf("debug_callback") /\ ParentKinds("debug_callback") = {"instance"}
        /\ Freeable("debug_callback")
    BY <1>f, <1>p DEF Leaf, Pools, Allocated, ParentKinds
  <2>2. ParentKinds("debug_callback") \cap Q4 = {}
    BY <1>n, <2>1
  <2> QED
    BY <1>k, <1>n, <2>1, <2>2, GoneLeaf DEF Q5
<1>6. Leads(strict, Gone(Q5), Free("instance"), Gone(Q6))
  <2>1. /\ "instance" \notin Allocated /\ ParentKinds("instance") = {}
        /\ Freeable("instance")
    BY <1>f, <1>p DEF Allocated, ParentKinds
  <2>2. ASSUME strict, NEW x \in Gone(Q5).live, "instance" \in ParentKinds(x[1])
        PROVE  FALSE
    <3>1. x \in live /\ x \notin Held(Q5)
      BY <2>2, GoneLive DEF FreedOf
    <3>2. PICK k \in Remains : x = held[k] /\ held[k] # Null
      BY <1>s, <2>2, <3>1 DEF Held
    <3>3. x[1] = k
      BY <1>p, <3>2 DEF Typed, HeldTyped, Remains
    <3>4. k # "instance"
      BY <2>1, <2>2, <3>3
    <3>5. k = "debug_callback"
      BY <3>4 DEF Remains
    <3>6. x \in Held(Q5)
      BY <1>e, <3>2, <3>5 DEF Held
    <3> QED
      BY <3>1, <3>6
  <2>3. ParentKinds("instance") \cap Q5 = {}
    BY <2>1
  <2> QED
    BY <1>k, <1>n, <2>1, <2>2, <2>3, GoneParent DEF Q6
<1>7. Leads(strict, Gone({}), DestroyRenderPass \o DestroyUniform, Gone(Q2))
  BY <1>1, <1>2, Then
<1>8. Leads(strict, Gone({}), DestroyRenderPass \o DestroyUniform \o DestroySwapchain, Gone(Q3))
  BY <1>3, <1>7, Then
<1>9. Leads(strict, Gone({}), DestroyRenderPass \o DestroyUniform \o DestroySwapchain \o
            DestroyWindow, Gone(Q4))
  BY <1>4, <1>8, Then
<1>10. Leads(strict, Gone({}), DestroyRenderPass \o DestroyUniform \o DestroySwapchain \o
             DestroyWindow \o Free("debug_callback"), Gone(Q5))
  BY <1>5, <1>9, Then
<1>11. Leads(strict, Gone({}), DestroyMembers, Gone(Q6))
  BY <1>6, <1>10, Then DEF DestroyMembers
<1>12. strict => Gone(Q6).live = {}
  <2>1. Gone(Q6).live = live \ FreedOf(Q6)
    BY GoneLive
  <2>2. Held(Remains) \subseteq Held(Q6)
    BY <1>e DEF Held
  <2> QED
    BY <1>s, <2>1, <2>2 DEF FreedOf
<1>13. Leads(strict, Now, DestroyMembers, Gone(Q6))
  BY <1>11, NowIsMid DEF Gone
<1> QED
  BY <1>12, <1>13

-----------------------------------------------------------------------------
(* The inductive invariant: what runs will lead to a state in which the     *)
(* functions that are still to be called find what they expect.             *)

\* The place in DrawCube of the function that loads what a kind is of.
Rank(k) ==
  CASE k = "instance"                              -> 1
    [] k = "debug_callback"                        -> 4
    [] k \in Window                                -> 6
    [] k = "device"                                -> 7
    [] k \in Swapchain                             -> 8
    [] k \in {"vertex_module", "fragment_module"}  -> 9
    [] k \in {"vertex_buffer", "vertex_memory"}    -> 10
    [] k \in Uniform                               -> 11
    [] k = "descriptor_pool"                       -> 12
    [] k \in {"descriptor_set_layout", "descriptor_sets"} -> 13
    [] k = "render_pass"                           -> 14
    [] k = "framebuffers"                          -> 15
    [] k = "pipeline_cache"                        -> 16
    [] k = "pipeline_layout"                       -> 17
    [] k = "pipeline"                              -> 18
    [] k = "command_pool"                          -> 19
    [] k = "command_buffers"                       -> 20
    [] k = "render_finished"                       -> 21

\* A release build reports nothing.
Built(k) == k = "debug_callback" => machine.debug

\* Loading: the functions called so far have loaded what they load.
LoadStage(b) ==
  /\ Clean(b)
  /\ \E n \in 0..21 :
       /\ functions = SubSeq(DrawCube, n + 1, 21)
       /\ \A k \in Kinds : b.held[k] = IF Rank(k) <= n /\ Built(k) THEN <<k, 0>> ELSE Null

\* All is held, but for a window that was closed.
AllHeld(b) == \A k \in Kinds \ {"os_window"} : b.held[k] # Null <=> Built(k)

\* These were made after the swapchain, and the others that hang on it before.
Agree(b, kinds) ==
  \E v \in {0, 1} :
    /\ \A k \in Swapchain \cup kinds : b.held[k] = <<k, v>>
    /\ \A k \in {"render_pass", "framebuffers"} \ kinds : b.held[k] = <<k, 1 - v>>

\* What may be left of a frame or a reload before the swapchain is another one.
Plans ==
  {<< >>, <<"UpdateUniformBuffers">>,
   <<"BeginRender", "Draw", "EndRender">>, <<"Draw", "EndRender">>, <<"EndRender">>,
   <<"BeginRender", "Draw", "EndRender", "WaitIdle", "LoadSwapchain", "LoadRenderPass",
     "LoadFrameBuffers">>,
   <<"Draw", "EndRender", "WaitIdle", "LoadSwapchain", "LoadRenderPass", "LoadFrameBuffers">>,
   <<"EndRender", "WaitIdle", "LoadSwapchain", "LoadRenderPass", "LoadFrameBuffers">>,
   <<"WaitIdle", "LoadSwapchain", "LoadRenderPass", "LoadFrameBuffers">>,
   <<"LoadSwapchain", "LoadRenderPass", "LoadFrameBuffers">>}

LoopStage(b) ==
  /\ Clean(b) /\ AllHeld(b)
  /\ \/ functions \in Plans /\ Agree(b, {"render_pass", "framebuffers"})
     \/ functions = <<"LoadRenderPass", "LoadFrameBuffers">> /\ Agree(b, {})
     \/ functions = <<"LoadFrameBuffers">> /\ Agree(b, {"render_pass"})

UnloadStage(b) ==
  \/ /\ functions \in {<<"WaitIdle", "DestroyDrawCube", "DestroyMembers">>,
                       <<"DestroyDrawCube", "DestroyMembers">>}
     /\ HeldLive(b)
     /\ ~ failed => Clean(b) /\ AllHeld(b)
  \/ functions = <<"DestroyLocals", "DestroyMembers">> /\ failed /\ HeldLive(b)
  \/ functions = <<"DestroyMembers">> /\ Dismantled(b) /\ (~ failed => OnlyRemains(b))
  \/ functions = << >> /\ (~ failed => b.live = {})

Stage(b) ==
  /\ pc = "load" => LoadStage(b)
  /\ pc = "loop" => LoopStage(b)
  /\ pc = "unload" => UnloadStage(b)
  /\ pc = "gone" /\ ~ failed => b.live = {}
  /\ failed => pc \notin {"load", "loop"}
  /\ pc \in {"gone", "exited", "terminated"} => functions = << >> /\ calls = << >>

OInv == \E b : Leads(~ failed, Now, calls, b) /\ Stage(b)

LEMMA Ranked == \A k \in Kinds : Rank(k) \in 1..21
BY DEF Kinds, Owned, Swapchain, Window, Uniform, Rank

\* What the n-th function loads.
Gains(n) == {k \in Kinds : Rank(k) = n /\ Built(k)}

LEMMA GainsNamed ==
  /\ Gains(1) = {"instance"}
  /\ Gains(2) = {} /\ Gains(3) = {}
  /\ Gains(4) = IF machine.debug THEN {"debug_callback"} ELSE {}
  /\ Gains(5) = {}
  /\ Gains(6) = {"os_window", "surface"}
  /\ Gains(7) = {"device"}
  /\ Gains(8) = Swapchain
  /\ Gains(9) = {"vertex_module", "fragment_module"}
  /\ Gains(10) = {"vertex_buffer", "vertex_memory"}
  /\ Gains(11) = {"uniform_buffer", "uniform_memory"}
  /\ Gains(12) = {"descriptor_pool"}
  /\ Gains(13) = {"descriptor_set_layout", "descriptor_sets"}
  /\ Gains(14) = {"render_pass"}
  /\ Gains(15) = {"framebuffers"}
  /\ Gains(16) = {"pipeline_cache"}
  /\ Gains(17) = {"pipeline_layout"}
  /\ Gains(18) = {"pipeline"}
  /\ Gains(19) = {"command_pool"}
  /\ Gains(20) = {"command_buffers"}
  /\ Gains(21) = {"render_finished"}
BY DEF Gains, Built, Kinds, Owned, Swapchain, Window, Uniform, Rank

LEMMA LoadOrder ==
  /\ DrawCube \in Seq(FunctionNames) /\ Len(DrawCube) = 21
  /\ DrawCube[1] = "VulkanInstance" /\ DrawCube[2] = "CheckArguments"
  /\ DrawCube[3] = "Provider" /\ DrawCube[4] = "StartDebugger" /\ DrawCube[5] = "LoadGPUs"
  /\ DrawCube[6] = "LoadWindow" /\ DrawCube[7] = "LoadDevice"
  /\ DrawCube[8] = "LoadSwapchain" /\ DrawCube[9] = "LoadShaderModules"
  /\ DrawCube[10] = "LoadVertexBuffer" /\ DrawCube[11] = "LoadUniformBuffer"
  /\ DrawCube[12] = "LoadDescriptorPool" /\ DrawCube[13] = "LoadDescriptorSets"
  /\ DrawCube[14] = "LoadRenderPass" /\ DrawCube[15] = "LoadFrameBuffers"
  /\ DrawCube[16] = "LoadPipelineCache" /\ DrawCube[17] = "LoadPipelineLayout"
  /\ DrawCube[18] = "LoadPipeline" /\ DrawCube[19] = "LoadCommandPool"
  /\ DrawCube[20] = "LoadCommandBuffers" /\ DrawCube[21] = "LoadSemaphores"
<1> DEFINE s == <<"VulkanInstance", "CheckArguments", "Provider">>
           t == LoadGraphics
<1>1. s \in Seq(FunctionNames) /\ Len(s) = 3
      /\ s[1] = "VulkanInstance" /\ s[2] = "CheckArguments" /\ s[3] = "Provider"
  BY DEF FunctionNames
<1>2. t \in Seq(FunctionNames) /\ Len(t) = 18
  BY DEF LoadGraphics, FunctionNames
<1>3. /\ t[1] = "StartDebugger" /\ t[2] = "LoadGPUs" /\ t[3] = "LoadWindow"
      /\ t[4] = "LoadDevice" /\ t[5] = "LoadSwapchain" /\ t[6] = "LoadShaderModules"
      /\ t[7] = "LoadVertexBuffer" /\ t[8] = "LoadUniformBuffer"
      /\ t[9] = "LoadDescriptorPool" /\ t[10] = "LoadDescriptorSets"
      /\ t[11] = "LoadRenderPass" /\ t[12] = "LoadFrameBuffers"
      /\ t[13] = "LoadPipelineCache" /\ t[14] = "LoadPipelineLayout"
      /\ t[15] = "LoadPipeline" /\ t[16] = "LoadCommandPool"
      /\ t[17] = "LoadCommandBuffers" /\ t[18] = "LoadSemaphores"
  BY DEF LoadGraphics
<1>4. DrawCube = s \o t
  BY DEF DrawCube
<1> HIDE DEF s, t
<1>5. /\ Len(DrawCube) = 21 /\ DrawCube \in Seq(FunctionNames)
      /\ \A i \in 1..21 : DrawCube[i] = IF i <= 3 THEN s[i] ELSE t[i - 3]
  <2>1. s \in Seq(FunctionNames) /\ t \in Seq(FunctionNames)
    BY <1>1, <1>2
  <2> HIDE DEF s, t
  <2>2. /\ s \o t \in Seq(FunctionNames) /\ Len(s \o t) = Len(s) + Len(t)
        /\ \A i \in 1..(Len(s) + Len(t)) :
             (s \o t)[i] = IF i <= Len(s) THEN s[i] ELSE t[i - Len(s)]
    BY <2>1, ConcatProperties
  <2>3. Len(s) = 3 /\ Len(t) = 18 /\ Len(s) + Len(t) = 21
    BY <1>1, <1>2
  <2> QED
    BY <1>4, <2>2, <2>3
<1>6. /\ DrawCube[1] = s[1] /\ DrawCube[2] = s[2] /\ DrawCube[3] = s[3]
      /\ DrawCube[4] = t[1] /\ DrawCube[5] = t[2] /\ DrawCube[6] = t[3]
      /\ DrawCube[7] = t[4] /\ DrawCube[8] = t[5] /\ DrawCube[9] = t[6]
      /\ DrawCube[10] = t[7] /\ DrawCube[11] = t[8] /\ DrawCube[12] = t[9]
      /\ DrawCube[13] = t[10] /\ DrawCube[14] = t[11] /\ DrawCube[15] = t[12]
      /\ DrawCube[16] = t[13] /\ DrawCube[17] = t[14] /\ DrawCube[18] = t[15]
      /\ DrawCube[19] = t[16] /\ DrawCube[20] = t[17] /\ DrawCube[21] = t[18]
  BY <1>5
<1> QED
  BY <1>1, <1>3, <1>5, <1>6

\* The tuples of the frame loop.
LEMMA PlansRest ==
  /\ Frame = <<"BeginRender", "Draw", "EndRender">>
  /\ ReloadSwapchain = <<"WaitIdle", "LoadSwapchain", "LoadRenderPass", "LoadFrameBuffers">>
  /\ Frame \o ReloadSwapchain =
       <<"BeginRender", "Draw", "EndRender", "WaitIdle", "LoadSwapchain", "LoadRenderPass",
         "LoadFrameBuffers">>
<1> DEFINE s == <<"BeginRender", "Draw", "EndRender">>
           t == <<"WaitIdle", "LoadSwapchain", "LoadRenderPass", "LoadFrameBuffers">>
           u == <<"BeginRender", "Draw", "EndRender", "WaitIdle", "LoadSwapchain",
                  "LoadRenderPass", "LoadFrameBuffers">>
<1>1. Frame = s /\ ReloadSwapchain = t
  BY DEF Frame, ReloadSwapchain
<1>2. /\ s \in Seq(FunctionNames) /\ Len(s) = 3
      /\ s[1] = "BeginRender" /\ s[2] = "Draw" /\ s[3] = "EndRender"
  BY DEF FunctionNames
<1>3. /\ t \in Seq(FunctionNames) /\ Len(t) = 4
      /\ t[1] = "WaitIdle" /\ t[2] = "LoadSwapchain" /\ t[3] = "LoadRenderPass"
      /\ t[4] = "LoadFrameBuffers"
  BY DEF FunctionNames
<1>4. /\ u \in Seq(FunctionNames) /\ Len(u) = 7
      /\ u[1] = "BeginRender" /\ u[2] = "Draw" /\ u[3] = "EndRender" /\ u[4] = "WaitIdle"
      /\ u[5] = "LoadSwapchain" /\ u[6] = "LoadRenderPass" /\ u[7] = "LoadFrameBuffers"
  BY DEF FunctionNames
<1> HIDE DEF s, t, u
<1>5. /\ s \o t \in Seq(FunctionNames) /\ Len(s \o t) = Len(s) + Len(t)
      /\ \A i \in 1..(Len(s) + Len(t)) :
           (s \o t)[i] = IF i <= Len(s) THEN s[i] ELSE t[i - Len(s)]
  BY <1>2, <1>3, ConcatProperties
<1>6. Len(s \o t) = 7 /\ \A i \in 1..7 : (s \o t)[i] = IF i <= 3 THEN s[i] ELSE t[i - 3]
  BY <1>2, <1>3, <1>5
<1>7. \A i \in 1..7 : (s \o t)[i] = u[i]
  <2>1. /\ (s \o t)[1] = s[1] /\ (s \o t)[2] = s[2] /\ (s \o t)[3] = s[3]
        /\ (s \o t)[4] = t[1] /\ (s \o t)[5] = t[2] /\ (s \o t)[6] = t[3]
        /\ (s \o t)[7] = t[4]
    BY <1>6
  <2>2. \A i \in {1, 2, 3, 4, 5, 6, 7} : (s \o t)[i] = u[i]
    BY <1>2, <1>3, <1>4, <2>1
  <2>3. 1..7 = {1, 2, 3, 4, 5, 6, 7}
    OBVIOUS
  <2> QED
    BY <2>2, <2>3
<1>8. s \o t = u
  <2>1. s \o t \in Seq(FunctionNames) /\ u \in Seq(FunctionNames) /\ Len(s \o t) = Len(u)
        /\ \A i \in 1..Len(s \o t) : (s \o t)[i] = u[i]
    BY <1>4, <1>5, <1>6, <1>7
  <2> HIDE DEF s, t, u
  <2> QED
    BY <2>1, SeqEqual
<1> QED
  BY <1>1, <1>8 DEF s, t, u

\* The script of each function.
LEMMA Scripts ==
  /\ Script("VulkanInstance") = VulkanInstance /\ Script("CheckArguments") = CheckArguments
  /\ Script("Provider") = Provider /\ Script("StartDebugger") = StartDebugger
  /\ Script("LoadGPUs") = LoadGPUs /\ Script("LoadWindow") = LoadWindow
  /\ Script("LoadDevice") = LoadDevice /\ Script("LoadSwapchain") = LoadSwapchain
  /\ Script("LoadShaderModules") = LoadShaderModules
  /\ Script("LoadVertexBuffer") = LoadVertexBuffer
  /\ Script("LoadUniformBuffer") = LoadUniformBuffer
  /\ Script("LoadDescriptorPool") = LoadDescriptorPool
  /\ Script("LoadDescriptorSets") = LoadDescriptorSets /\ Script("LoadRenderPass") = LoadRenderPass
  /\ Script("LoadFrameBuffers") = LoadFrameBuffers
  /\ Script("LoadPipelineCache") = LoadPipelineCache
  /\ Script("LoadPipelineLayout") = LoadPipelineLayout /\ Script("LoadPipeline") = LoadPipeline
  /\ Script("LoadCommandPool") = LoadCommandPool
  /\ Script("LoadCommandBuffers") = LoadCommandBuffers
  /\ Script("LoadSemaphores") = LoadSemaphores /\ Script("BeginRender") = BeginRender
  /\ Script("Draw") = Draw /\ Script("EndRender") = EndRender
  /\ Script("WaitIdle") = WaitIdle /\ Script("DestroyLocals") = DestroyLocals
  /\ Script("DestroyDrawCube") = DestroyDrawCube /\ Script("DestroyMembers") = DestroyMembers
  /\ Script("UpdateUniformBuffers") = UpdateUniformBuffers(Held({"uniform_memory"}))
BY DEF Script

\* The n-th function finds what it needs and loads what it is to load.
LEMMA LoadStep ==
  ASSUME Typed, Clean(Now), NEW n \in 1..21,
         \A k \in Kinds : held[k] = IF Rank(k) <= n - 1 /\ Built(k) THEN <<k, 0>> ELSE Null
  PROVE  \E Q \in SUBSET Gains(n) :
           /\ Loading(Gains(n), Q, Gains(n))
           /\ Leads(TRUE, Now, Script(DrawCube[n]), Mid(Gains(n), Q, Gains(n)))
<1> DEFINE G == Gains(n)
<1>1. Loading(G, {}, G)
  BY DEF Loading, Gains
<1>2. ASSUME NEW k \in Kinds, Rank(k) <= n - 1, k # "debug_callback"
      PROVE  held[k] # Null
  <2>1. <<k, 0>> # Null
    BY NotNull DEF Objects
  <2> QED
    BY <1>2, <2>1 DEF Built
<1>3. /\ n >= 2 => held["instance"] # Null
      /\ n >= 8 => held["device"] # Null /\ held["surface"] # Null
      /\ n = 13 => held["descriptor_pool"] # Null
      /\ n = 20 => held["command_pool"] # Null
  <2>1. /\ Rank("instance") = 1 /\ Rank("device") = 7 /\ Rank("surface") = 6
        /\ Rank("descriptor_pool") = 12 /\ Rank("command_pool") = 19
    BY DEF Rank, Window, Swapchain, Uniform
  <2>2. /\ n >= 2 => 1 <= n - 1
        /\ n >= 8 => 7 <= n - 1 /\ 6 <= n - 1
        /\ n = 13 => 12 <= n - 1
        /\ n = 20 => 19 <= n - 1
    OBVIOUS
  <2>3. \A k \in {"instance", "device", "surface", "descriptor_pool", "command_pool"} :
          k \in Kinds /\ k # "debug_callback"
    BY KindNames
  <2> QED
    BY <1>2, <2>1, <2>2, <2>3
<1>4. n = 20 => held["command_buffers"] = Null
  <2>1. "command_buffers" \in Kinds /\ Rank("command_buffers") = 20
    BY KindNames DEF Rank, Window, Swapchain, Uniform
  <2>2. n = 20 => ~ (20 <= n - 1)
    OBVIOUS
  <2>3. held["command_buffers"] = IF 20 <= n - 1 /\ Built("command_buffers")
                                   THEN <<"command_buffers", 0>> ELSE Null
    BY <2>1
  <2> QED
    BY <2>2, <2>3
<1>5. ASSUME Leads(TRUE, Now, Script(DrawCube[n]), Made(G))
      PROVE  \E Q \in SUBSET G :
               Loading(G, Q, G) /\ Leads(TRUE, Now, Script(DrawCube[n]), Mid(G, Q, G))
  BY <1>1, <1>5 DEF Made
<1>6. ASSUME NEW kinds, G = kinds, kinds \in SUBSET Owned,
             kinds \cap {"instance", "device", "surface"} = {},
             Leads(TRUE, Now, Script(DrawCube[n]), Mid(kinds, kinds, kinds))
      PROVE  \E Q \in SUBSET G :
               Loading(G, Q, G) /\ Leads(TRUE, Now, Script(DrawCube[n]), Mid(G, Q, G))
  <2>1. Loading(G, G, G)
    BY <1>1, <1>6 DEF Loading
  <2> HIDE DEF G
  <2> QED
    BY <1>6, <2>1
<1> HIDE DEF G
<1>7. CASE n = 1
  <2>1. Script(DrawCube[n]) = VulkanInstance
    BY <1>7, LoadOrder, Scripts
  <2>2. Leads(TRUE, Now, VulkanInstance, Made(G))
    BY <1>7, InstanceLoads, GainsNamed DEF G
  <2> QED
    BY <1>5, <2>1, <2>2 DEF G
<1>8. CASE n = 2
  <2>1. Script(DrawCube[n]) = CheckArguments
    BY <1>8, LoadOrder, Scripts
  <2>2. Leads(TRUE, Now, CheckArguments, Made(G))
    BY <1>8, ArgumentsChecked, GainsNamed DEF G
  <2> QED
    BY <1>5, <2>1, <2>2 DEF G
<1>9. CASE n = 3
  <2>1. Script(DrawCube[n]) = Provider
    BY <1>9, LoadOrder, Scripts
  <2>2. Leads(TRUE, Now, Provider, Made(G))
    BY <1>9, ProviderLoads, GainsNamed DEF G
  <2> QED
    BY <1>5, <2>1, <2>2 DEF G
<1>10. CASE n = 4
  <2>0. held["instance"] # Null
    <3>1. n >= 2
      BY <1>10
    <3> QED
      BY <3>1, <1>3
  <2>1. Script(DrawCube[n]) = StartDebugger
    BY <1>10, LoadOrder, Scripts
  <2>2. Leads(TRUE, Now, StartDebugger, Made(G))
    BY <1>10, <2>0, DebuggerLoads, GainsNamed DEF G
  <2> QED
    BY <1>5, <2>1, <2>2 DEF G
<1>11. CASE n = 5
  <2>1. Script(DrawCube[n]) = LoadGPUs
    BY <1>11, LoadOrder, Scripts
  <2>2. Leads(TRUE, Now, LoadGPUs, Made(G))
    BY <1>11, GPUsLoad, GainsNamed DEF G
  <2> QED
    BY <1>5, <2>1, <2>2 DEF G
<1>12. CASE n = 6
  <2>0. held["instance"] # Null
    <3>1. n >= 2
      BY <1>12
    <3> QED
      BY <3>1, <1>3
  <2>1. Script(DrawCube[n]) = LoadWindow
    BY <1>12, LoadOrder, Scripts
  <2>2. Leads(TRUE, Now, LoadWindow, Made(G))
    BY <1>12, <2>0, WindowLoads, GainsNamed DEF G
  <2> QED
    BY <1>5, <2>1, <2>2 DEF G
<1>13. CASE n = 7
  <2>0. held["instance"] # Null
    <3>1. n >= 2
      BY <1>13
    <3> QED
      BY <3>1, <1>3
  <2>1. Script(DrawCube[n]) = LoadDevice
    BY <1>13, LoadOrder, Scripts
  <2>2. Leads(TRUE, Now, LoadDevice, Made(G))
    BY <1>13, <2>0, DeviceLoads, GainsNamed DEF G
  <2> QED
    BY <1>5, <2>1, <2>2 DEF G
<1>14. CASE n = 8
  <2>0. held["device"] # Null /\ held["surface"] # Null
    <3>1. n >= 8
      BY <1>14
    <3> QED
      BY <1>14, <3>1, <1>3
  <2>1. Script(DrawCube[n]) = LoadSwapchain
    BY <1>14, LoadOrder, Scripts
  <2> DEFINE kinds == Swapchain
  <2>2. G = kinds
    BY <1>14, GainsNamed DEF G
  <2>3. kinds \in SUBSET Owned /\ kinds \cap {"instance", "device", "surface"} = {}
    BY DEF Owned, Swapchain
  <2>4. Leads(TRUE, Now, Script(DrawCube[n]), Mid(kinds, kinds, kinds))
    BY <2>0, <2>1, SwapchainLoads
  <2> HIDE DEF kinds
  <2> QED
    BY <1>6, <2>2, <2>3, <2>4 DEF G
<1>15. CASE n = 9
  <2>0. held["device"] # Null
    <3>1. n >= 8
      BY <1>15
    <3> QED
      BY <1>15, <3>1, <1>3
  <2>1. Script(DrawCube[n]) = LoadShaderModules
    BY <1>15, LoadOrder, Scripts
  <2>2. Leads(TRUE, Now, LoadShaderModules, Made(G))
    BY <1>15, <2>0, ShaderModulesLoad, GainsNamed DEF G
  <2> QED
    BY <1>5, <2>1, <2>2 DEF G
<1>16. CASE n = 10
  <2>0. held["device"] # Null
    <3>1. n >= 8
      BY <1>16
    <3> QED
      BY <1>16, <3>1, <1>3
  <2>1. Script(DrawCube[n]) = LoadVertexBuffer
    BY <1>16, LoadOrder, Scripts
  <2>2. Leads(TRUE, Now, LoadVertexBuffer, Made(G))
    BY <1>16, <2>0, VertexBufferLoads, GainsNamed DEF G
  <2> QED
    BY <1>5, <2>1, <2>2 DEF G
<1>17. CASE n = 11
  <2>0. held["device"] # Null
    <3>1. n >= 8
      BY <1>17
    <3> QED
      BY <1>17, <3>1, <1>3
  <2>1. Script(DrawCube[n]) = LoadUniformBuffer
    BY <1>17, LoadOrder, Scripts
  <2>2. Leads(TRUE, Now, LoadUniformBuffer, Made(G))
    BY <1>17, <2>0, UniformBufferLoads, GainsNamed DEF G
  <2> QED
    BY <1>5, <2>1, <2>2 DEF G
<1>18. CASE n = 12
  <2>0. held["device"] # Null
    <3>1. n >= 8
      BY <1>18
    <3> QED
      BY <1>18, <3>1, <1>3
  <2>1. Script(DrawCube[n]) = LoadDescriptorPool
    BY <1>18, LoadOrder, Scripts
  <2>2. Leads(TRUE, Now, LoadDescriptorPool, Made(G))
    BY <1>18, <2>0, DescriptorPoolLoads, GainsNamed DEF G
  <2> QED
    BY <1>5, <2>1, <2>2 DEF G
<1>19. CASE n = 13
  <2>0. held["device"] # Null /\ held["descriptor_pool"] # Null
    <3>1. n >= 8
      BY <1>19
    <3> QED
      BY <1>19, <3>1, <1>3
  <2>1. Script(DrawCube[n]) = LoadDescriptorSets
    BY <1>19, LoadOrder, Scripts
  <2>2. Leads(TRUE, Now, LoadDescriptorSets, Made(G))
    BY <1>19, <2>0, DescriptorSetsLoad, GainsNamed DEF G
  <2> QED
    BY <1>5, <2>1, <2>2 DEF G
<1>20. CASE n = 14
  <2>0. held["device"] # Null
    <3>1. n >= 8
      BY <1>20
    <3> QED
      BY <1>20, <3>1, <1>3
  <2>1. Script(DrawCube[n]) = LoadRenderPass
    BY <1>20, LoadOrder, Scripts
  <2> DEFINE kinds == {"render_pass"}
  <2>2. G = kinds
    BY <1>20, GainsNamed DEF G
  <2>3. kinds \in SUBSET Owned /\ kinds \cap {"instance", "device", "surface"} = {}
    BY DEF Owned, Swapchain
  <2>4. Leads(TRUE, Now, Script(DrawCube[n]), Mid(kinds, kinds, kinds))
    BY <2>0, <2>1, RenderPassLoads
  <2> HIDE DEF kinds
  <2> QED
    BY <1>6, <2>2, <2>3, <2>4 DEF G
<1>21. CASE n = 15
  <2>0. held["device"] # Null
    <3>1. n >= 8
      BY <1>21
    <3> QED
      BY <1>21, <3>1, <1>3
  <2>1. Script(DrawCube[n]) = LoadFrameBuffers
    BY <1>21, LoadOrder, Scripts
  <2> DEFINE kinds == {"framebuffers"}
  <2>2. G = kinds
    BY <1>21, GainsNamed DEF G
  <2>3. kinds \in SUBSET Owned /\ kinds \cap {"instance", "device", "surface"} = {}
    BY DEF Owned, Swapchain
  <2>4. Leads(TRUE, Now, Script(DrawCube[n]), Mid(kinds, kinds, kinds))
    BY <2>0, <2>1, FrameBuffersLoad
  <2> HIDE DEF kinds
  <2> QED
    BY <1>6, <2>2, <2>3, <2>4 DEF G
<1>22. CASE n = 16
  <2>0. held["device"] # Null
    <3>1. n >= 8
      BY <1>22
    <3> QED
      BY <1>22, <3>1, <1>3
  <2>1. Script(DrawCube[n]) = LoadPipelineCache
    BY <1>22, LoadOrder, Scripts
  <2>2. Leads(TRUE, Now, LoadPipelineCache, Made(G))
    BY <1>22, <2>0, PipelineCacheLoads, GainsNamed DEF G
  <2> QED
    BY <1>5, <2>1, <2>2 DEF G
<1>23. CASE n = 17
  <2>0. held["device"] # Null
    <3>1. n >= 8
      BY <1>23
    <3> QED
      BY <1>23, <3>1, <1>3
  <2>1. Script(DrawCube[n]) = LoadPipelineLayout
    BY <1>23, LoadOrder, Scripts
  <2>2. Leads(TRUE, Now, LoadPipelineLayout, Made(G))
    BY <1>23, <2>0, PipelineLayoutLoads, GainsNamed DEF G
  <2> QED
    BY <1>5, <2>1, <2>2 DEF G
<1>24. CASE n = 18
  <2>0. held["device"] # Null
    <3>1. n >= 8
      BY <1>24
    <3> QED
      BY <1>24, <3>1, <1>3
  <2>1. Script(DrawCube[n]) = LoadPipeline
    BY <1>24, LoadOrder, Scripts
  <2>2. Leads(TRUE, Now, LoadPipeline, Made(G))
    BY <1>24, <2>0, PipelineLoads, GainsNamed DEF G
  <2> QED
    BY <1>5, <2>1, <2>2 DEF G
<1>25. CASE n = 19
  <2>0. held["device"] # Null
    <3>1. n >= 8
      BY <1>25
    <3> QED
      BY <1>25, <3>1, <1>3
  <2>1. Script(DrawCube[n]) = LoadCommandPool
    BY <1>25, LoadOrder, Scripts
  <2>2. Leads(TRUE, Now, LoadCommandPool, Made(G))
    BY <1>25, <2>0, CommandPoolLoads, GainsNamed DEF G
  <2> QED
    BY <1>5, <2>1, <2>2 DEF G
<1>26. CASE n = 20
  <2>0. /\ held["device"] # Null /\ held["command_pool"] # Null
        /\ held["command_buffers"] = Null
    <3>1. n >= 8
      BY <1>26
    <3> QED
      BY <1>26, <3>1, <1>3, <1>4
  <2>1. Script(DrawCube[n]) = LoadCommandBuffers
    BY <1>26, LoadOrder, Scripts
  <2>2. Leads(TRUE, Now, LoadCommandBuffers, Made(G))
    BY <1>26, <2>0, CommandBuffersLoad, GainsNamed DEF G
  <2> QED
    BY <1>5, <2>1, <2>2 DEF G
<1>27. CASE n = 21
  <2>0. held["device"] # Null
    <3>1. n >= 8
      BY <1>27
    <3> QED
      BY <1>27, <3>1, <1>3
  <2>1. Script(DrawCube[n]) = LoadSemaphores
    BY <1>27, LoadOrder, Scripts
  <2>2. Leads(TRUE, Now, LoadSemaphores, Made(G))
    BY <1>27, <2>0, SemaphoresLoad, GainsNamed DEF G
  <2> QED
    BY <1>5, <2>1, <2>2 DEF G
<1>28. \/ n = 1 \/ n = 2 \/ n = 3 \/ n = 4 \/ n = 5 \/ n = 6 \/ n = 7 \/ n = 8
       \/ n = 9 \/ n = 10 \/ n = 11 \/ n = 12 \/ n = 13 \/ n = 14 \/ n = 15
       \/ n = 16 \/ n = 17 \/ n = 18 \/ n = 19 \/ n = 20 \/ n = 21
  OBVIOUS
<1> QED
  BY <1>7, <1>8, <1>9, <1>10, <1>11, <1>12, <1>13, <1>14, <1>15, <1>16, <1>17, <1>18,
     <1>19, <1>20, <1>21, <1>22, <1>23, <1>24, <1>25, <1>26, <1>27, <1>28

-----------------------------------------------------------------------------
(* The next function is called, in each of the stages.                      *)

LEMMA LoadEnter ==
  ASSUME TypeOK, LoadStage(Now), Enter
  PROVE  \E b : Leads(TRUE, Now, calls', b) /\ LoadStage(b)'
<1>1. Typed /\ Clean(Now) /\ Now.held = held
  BY TypedNow DEF LoadStage, Now
<1>2. PICK m \in 0..21 :
        /\ functions = SubSeq(DrawCube, m + 1, 21)
        /\ \A k \in Kinds : held[k] = IF Rank(k) <= m /\ Built(k) THEN <<k, 0>> ELSE Null
  BY <1>1 DEF LoadStage
<1>3. m # 21
  <2>1. SubSeq(DrawCube, 22, 21) = << >>
    BY SubSeqEmpty
  <2> QED
    BY <1>2, <2>1 DEF Enter
<1> DEFINE n == m + 1
           G == Gains(n)
<1>4. n \in 1..21 /\ n - 1 = m /\ n + 1 \in 0..22
  BY <1>3
<1>5. Head(functions) = DrawCube[n] /\ Tail(functions) = SubSeq(DrawCube, n + 1, 21)
  <2>1. DrawCube \in Seq(FunctionNames) /\ Len(DrawCube) = 21
    BY LoadOrder
  <2>2. n \in 1..Len(DrawCube) /\ 21 \in n..Len(DrawCube)
    BY <1>4, <2>1
  <2> HIDE DEF n
  <2>3. /\ Head(SubSeq(DrawCube, n, 21)) = DrawCube[n]
        /\ Tail(SubSeq(DrawCube, n, 21)) = SubSeq(DrawCube, n + 1, 21)
    BY <2>1, <2>2, HeadTailOfSubSeq
  <2> QED
    BY <1>2, <2>3 DEF n
<1> HIDE DEF n, G
<1>6. \A k \in Kinds : held[k] = IF Rank(k) <= n - 1 /\ Built(k) THEN <<k, 0>> ELSE Null
  BY <1>2, <1>4
<1>7. PICK Q \in SUBSET G : /\ Loading(G, Q, G)
                            /\ Leads(TRUE, Now, Script(DrawCube[n]), Mid(G, Q, G))
  BY <1>1, <1>4, <1>6, LoadStep DEF G
<1>8. \A k \in G : k \in Kinds /\ Rank(k) = n /\ Built(k) /\ held[k] = Null
  <2>1. ~ (n <= n - 1)
    BY <1>4
  <2> QED
    BY <1>6, <2>1 DEF G, Gains
<1>b. PICK b : b = Mid(G, Q, G)
  OBVIOUS
<1>9. Clean(b) /\ \A k \in Kinds : b.held[k] = IF k \in G THEN New(k) ELSE held[k]
  <2>1. /\ Clean(Mid(G, Q, G))
        /\ \A k \in Kinds : Mid(G, Q, G).held[k] = IF k \in G THEN New(k) ELSE held[k]
    BY <1>1, <1>7, <1>8, LoadedClean
  <2> QED
    BY <1>b, <2>1
<1>10. ASSUME NEW k \in Kinds
       PROVE  b.held[k] = IF Rank(k) <= n /\ Built(k) THEN <<k, 0>> ELSE Null
  <2>1. Rank(k) \in 1..21
    BY Ranked
  <2>2. CASE k \in G
    <3>1. New(k) = <<k, 0>>
      BY <1>1, <1>8, <2>2, NewVersion
    <3> QED
      BY <1>4, <1>8, <1>9, <2>2, <3>1
  <2>3. CASE k \notin G
    <3>1. ~ (Rank(k) = n /\ Built(k))
      BY <2>3 DEF G, Gains
    <3>2. Rank(k) <= n /\ Built(k) <=> Rank(k) <= n - 1 /\ Built(k)
      BY <1>4, <2>1, <3>1
    <3> QED
      BY <1>6, <1>9, <2>3, <3>2
  <2> QED
    BY <2>2, <2>3
<1>11. calls' = Script(DrawCube[n]) /\ functions' = SubSeq(DrawCube, n + 1, 21)
       /\ machine' = machine
  BY <1>5 DEF Enter
<1>12. LoadStage(b)'
  <2>1. n \in 0..21
    BY <1>4
  <2> QED
    BY <1>9, <1>10, <1>11, <2>1 DEF LoadStage, Built
<1> QED
  BY <1>b, <1>7, <1>11, <1>12

\* A reload: what it makes takes the place of what it frees.
LEMMA Reloaded ==
  ASSUME Typed, Clean(Now), AllHeld(Now), NEW N \in SUBSET (Swapchain \cup
           {"render_pass", "framebuffers"})
  PROVE  /\ Clean(Mid(N, N, N)) /\ AllHeld(Mid(N, N, N))
         /\ \A k \in Kinds : Mid(N, N, N).held[k] = IF k \in N THEN New(k) ELSE held[k]
<1> DEFINE b == Mid(N, N, N)
<1>1. Loading(N, N, N) /\ "debug_callback" \notin N /\ "os_window" \notin N
  BY DEF Loading, Owned, Kinds, Swapchain
<1>2. Clean(b) /\ \A k \in Kinds : b.held[k] = IF k \in N THEN New(k) ELSE held[k]
  BY <1>1, LoadedClean
<1>3. \A k \in Kinds : New(k) # Null
  BY ObjectTypes, NotNull DEF Typed
<1>4. \A k \in N : Built(k)
  BY <1>1 DEF Built
<1> HIDE DEF b
<1>5. AllHeld(b)
  <2>1. \A k \in Kinds \ {"os_window"} : held[k] # Null <=> Built(k)
    BY DEF AllHeld, Now
  <2> QED
    BY <1>2, <1>3, <1>4, <2>1 DEF AllHeld
<1> QED
  BY <1>2, <1>5 DEF b

\* The other version.
LEMMA Swapped ==
  ASSUME Typed, Clean(Now), NEW k \in Kinds, NEW v \in {0, 1}, held[k] = <<k, v>>
  PROVE  New(k) = <<k, 1 - v>>
<1>1. CASE v = 0
  <2>1. held[k] = <<k, 0>> /\ 1 - v = 1
    BY <1>1
  <2> QED
    BY <2>1, NewVersion
<1>2. CASE v = 1
  <2>1. held[k] = <<k, 1>> /\ 1 - v = 0
    BY <1>2
  <2> QED
    BY <2>1, NewVersion
<1> QED
  BY <1>1, <1>2

\* Shorter tuples.
LEMMA TailsOf ==
  ASSUME NEW a, NEW b, NEW c, NEW d, NEW e, NEW f
  PROVE  /\ Head(<<a>>) = a /\ Tail(<<a>>) = << >>
         /\ Head(<<a, b>>) = a /\ Tail(<<a, b>>) = <<b>>
         /\ Head(<<a, b, c>>) = a /\ Tail(<<a, b, c>>) = <<b, c>>
         /\ Head(<<a, b, c, d>>) = a /\ Tail(<<a, b, c, d>>) = <<b, c, d>>
         /\ Head(<<a, b, c, d, e>>) = a /\ Tail(<<a, b, c, d, e>>) = <<b, c, d, e>>
         /\ Head(<<a, b, c, d, e, f>>) = a /\ Tail(<<a, b, c, d, e, f>>) = <<b, c, d, e, f>>
OBVIOUS

LEMMA TailOf7 ==
  ASSUME NEW a, NEW b, NEW c, NEW d, NEW e, NEW f, NEW g
  PROVE  /\ Head(<<a, b, c, d, e, f, g>>) = a
         /\ Tail(<<a, b, c, d, e, f, g>>) = <<b, c, d, e, f, g>>
OBVIOUS

\* What only uses things leaves the stage as it is.
LEMMA LoopEnter ==
  ASSUME TypeOK, LoopStage(Now), Enter
  PROVE  \E b : Leads(TRUE, Now, calls', b) /\ LoopStage(b)'
<1>1. Typed /\ Clean(Now) /\ HeldLive(Now) /\ AllHeld(Now) /\ Now.held = held
  BY TypedNow DEF LoopStage, Clean, Now
<1>2. /\ functions # << >> /\ calls' = Script(Head(functions))
      /\ functions' = Tail(functions) /\ machine' = machine
  BY DEF Enter
<1>3. held["device"] # Null /\ held["surface"] # Null
  <2>1. \A k \in {"device", "surface"} : k \in Kinds \ {"os_window"} /\ Built(k)
    BY KindNames DEF Built
  <2> QED
    BY <1>1, <2>1 DEF AllHeld
<1>n. PICK now : now = Now
  OBVIOUS
<1>4. ASSUME Leads(TRUE, Now, calls', Now), functions' \in Plans,
             Agree(Now, {"render_pass", "framebuffers"})
      PROVE  \E b : Leads(TRUE, Now, calls', b) /\ LoopStage(b)'
  <2>1. /\ Clean(now) /\ AllHeld(now) /\ Agree(now, {"render_pass", "framebuffers"})
        /\ Leads(TRUE, Now, calls', now)
    BY <1>1, <1>4, <1>n
  <2>2. Clean(now)' /\ AllHeld(now)' /\ Agree(now, {"render_pass", "framebuffers"})'
    BY <1>2, <2>1 DEF Clean, HeldLive, AllHeld, Built, Agree
  <2>3. LoopStage(now)'
    BY <1>4, <2>2 DEF LoopStage, Plans
  <2> QED
    BY <2>1, <2>3
<1>5. ASSUME NEW N \in SUBSET (Swapchain \cup {"render_pass", "framebuffers"}),
             Leads(TRUE, Now, calls', Mid(N, N, N)),
             NEW kinds, Agree(Mid(N, N, N), kinds),
             \/ functions' \in Plans /\ kinds = {"render_pass", "framebuffers"}
             \/ functions' = <<"LoadRenderPass", "LoadFrameBuffers">> /\ kinds = {}
             \/ functions' = <<"LoadFrameBuffers">> /\ kinds = {"render_pass"}
      PROVE  \E b : Leads(TRUE, Now, calls', b) /\ LoopStage(b)'
  <2>1. PICK b : b = Mid(N, N, N)
    OBVIOUS
  <2>2. Clean(Mid(N, N, N)) /\ AllHeld(Mid(N, N, N))
    BY <1>1, Reloaded
  <2>3. Clean(b) /\ AllHeld(b) /\ Agree(b, kinds) /\ Leads(TRUE, Now, calls', b)
    BY <1>5, <2>1, <2>2
  <2>4. Clean(b)' /\ AllHeld(b)' /\ Agree(b, kinds)'
    BY <1>2, <2>3 DEF Clean, HeldLive, AllHeld, Built, Agree
  <2>5. LoopStage(b)'
    BY <1>5, <2>4 DEF LoopStage, Plans
  <2> QED
    BY <2>3, <2>5
<1>6. ASSUME NEW N \in SUBSET (Swapchain \cup {"render_pass", "framebuffers"})
      PROVE  \A k \in Kinds : Mid(N, N, N).held[k] = IF k \in N THEN New(k) ELSE held[k]
  BY <1>1, Reloaded
<1>7. Swapchain \cup {"render_pass", "framebuffers"} \subseteq Kinds
  BY KindNames DEF Swapchain
<1>8. CASE functions \in Plans /\ Agree(Now, {"render_pass", "framebuffers"})
  <2>1. CASE functions = <<"UpdateUniformBuffers">>
    <3>1. Head(functions) = "UpdateUniformBuffers" /\ Tail(functions) = << >>
      BY <2>1
    <3>2. functions' \in Plans
      BY <1>2, <3>1 DEF Plans
    <3>3. Leads(TRUE, Now, calls', Now)
      BY <1>1, <1>2, <3>1, LoopUses, Scripts
    <3> QED
      BY <1>4, <1>8, <3>2, <3>3
  <2>2. CASE functions = <<"BeginRender", "Draw", "EndRender">>
    <3>1. Head(functions) = "BeginRender" /\ Tail(functions) = <<"Draw", "EndRender">>
      BY <2>2, TailsOf
    <3>2. functions' \in Plans
      BY <1>2, <3>1 DEF Plans
    <3>3. Leads(TRUE, Now, calls', Now)
      BY <1>1, <1>2, <3>1, LoopUses, Scripts
    <3> QED
      BY <1>4, <1>8, <3>2, <3>3
  <2>3. CASE functions = <<"Draw", "EndRender">>
    <3>1. Head(functions) = "Draw" /\ Tail(functions) = <<"EndRender">>
      BY <2>3, TailsOf
    <3>2. functions' \in Plans
      BY <1>2, <3>1 DEF Plans
    <3>3. Leads(TRUE, Now, calls', Now)
      BY <1>1, <1>2, <3>1, LoopUses, Scripts
    <3> QED
      BY <1>4, <1>8, <3>2, <3>3
  <2>4. CASE functions = <<"EndRender">>
    <3>1. Head(functions) = "EndRender" /\ Tail(functions) = << >>
      BY <2>4, TailsOf
    <3>2. functions' \in Plans
      BY <1>2, <3>1 DEF Plans
    <3>3. Leads(TRUE, Now, calls', Now)
      BY <1>1, <1>2, <3>1, LoopUses, Scripts
    <3> QED
      BY <1>4, <1>8, <3>2, <3>3
  <2>5. CASE functions = <<"BeginRender", "Draw", "EndRender", "WaitIdle",
                          "LoadSwapchain", "LoadRenderPass", "LoadFrameBuffers">>
    <3>1. Head(functions) = "BeginRender" /\ Tail(functions) = 
            <<"Draw", "EndRender", "WaitIdle", "LoadSwapchain",
              "LoadRenderPass", "LoadFrameBuffers">>
      BY <2>5, TailOf7
    <3>2. functions' \in Plans
      BY <1>2, <3>1 DEF Plans
    <3>3. Leads(TRUE, Now, calls', Now)
      BY <1>1, <1>2, <3>1, LoopUses, Scripts
    <3> QED
      BY <1>4, <1>8, <3>2, <3>3
  <2>6. CASE functions = <<"Draw", "EndRender", "WaitIdle", "LoadSwapchain",
                          "LoadRenderPass", "LoadFrameBuffers">>
    <3>1. Head(functions) = "Draw" /\ Tail(functions) = 
            <<"EndRender", "WaitIdle", "LoadSwapchain",
              "LoadRenderPass", "LoadFrameBuffers">>
      BY <2>6, TailsOf
    <3>2. functions' \in Plans
      BY <1>2, <3>1 DEF Plans
    <3>3. Leads(TRUE, Now, calls', Now)
      BY <1>1, <1>2, <3>1, LoopUses, Scripts
    <3> QED
      BY <1>4, <1>8, <3>2, <3>3
  <2>7. CASE functions = <<"EndRender", "WaitIdle", "LoadSwapchain",
                          "LoadRenderPass", "LoadFrameBuffers">>
    <3>1. Head(functions) = "EndRender" /\ Tail(functions) = 
            <<"WaitIdle", "LoadSwapchain", "LoadRenderPass", "LoadFrameBuffers">>
      BY <2>7, TailsOf
    <3>2. functions' \in Plans
      BY <1>2, <3>1 DEF Plans
    <3>3. Leads(TRUE, Now, calls', Now)
      BY <1>1, <1>2, <3>1, LoopUses, Scripts
    <3> QED
      BY <1>4, <1>8, <3>2, <3>3
  <2>8. CASE functions = <<"WaitIdle", "LoadSwapchain", "LoadRenderPass",
                          "LoadFrameBuffers">>
    <3>1. Head(functions) = "WaitIdle" /\ Tail(functions) = 
            <<"LoadSwapchain", "LoadRenderPass", "LoadFrameBuffers">>
      BY <2>8, TailsOf
    <3>2. functions' \in Plans
      BY <1>2, <3>1 DEF Plans
    <3>3. Leads(TRUE, Now, calls', Now)
      BY <1>1, <1>2, <3>1, LoopUses, Scripts
    <3> QED
      BY <1>4, <1>8, <3>2, <3>3
  <2>9. CASE functions = <<"LoadSwapchain", "LoadRenderPass", "LoadFrameBuffers">>
    <3>1. /\ Head(functions) = "LoadSwapchain"
          /\ Tail(functions) = <<"LoadRenderPass", "LoadFrameBuffers">>
      BY <2>9, TailsOf
    <3>2. Leads(TRUE, Now, calls', Mid(Swapchain, Swapchain, Swapchain))
      BY <1>1, <1>2, <1>3, <3>1, Scripts, SwapchainLoads
    <3>3. Agree(Mid(Swapchain, Swapchain, Swapchain), {})
      <4>1. PICK v \in {0, 1} :
              \A k \in Swapchain \cup {"render_pass", "framebuffers"} : held[k] = <<k, v>>
        BY <1>1, <1>8 DEF Agree
      <4>2. 1 - v \in {0, 1} /\ 1 - (1 - v) = v
        OBVIOUS
      <4>3. \A k \in Swapchain : New(k) = <<k, 1 - v>>
        BY <1>1, <1>7, <4>1, Swapped
      <4>4. \A k \in Swapchain : Mid(Swapchain, Swapchain, Swapchain).held[k] = <<k, 1 - v>>
        BY <1>6, <1>7, <4>3
      <4>5. {"render_pass", "framebuffers"} \cap Swapchain = {}
        BY DEF Swapchain
      <4>6. \A k \in {"render_pass", "framebuffers"} :
              Mid(Swapchain, Swapchain, Swapchain).held[k] = <<k, v>>
        BY <1>6, <1>7, <4>1, <4>5
      <4> QED
        BY <4>2, <4>4, <4>6 DEF Agree
    <3> QED
      BY <1>2, <1>5, <3>1, <3>2, <3>3
  <2> QED
    BY <1>2, <1>8, <2>1, <2>2, <2>3, <2>4, <2>5, <2>6, <2>7, <2>8, <2>9 DEF Plans
<1>9. CASE functions = <<"LoadRenderPass", "LoadFrameBuffers">> /\ Agree(Now, {})
  <2> DEFINE N == {"render_pass"}
  <2>1. Head(functions) = "LoadRenderPass" /\ Tail(functions) = <<"LoadFrameBuffers">>
    BY <1>9, TailsOf
  <2>2. Leads(TRUE, Now, calls', Mid(N, N, N))
    BY <1>1, <1>2, <1>3, <2>1, Scripts, RenderPassLoads
  <2>3. Agree(Mid(N, N, N), N)
    <3>1. PICK v \in {0, 1} :
            /\ \A k \in Swapchain : held[k] = <<k, v>>
            /\ \A k \in {"render_pass", "framebuffers"} : held[k] = <<k, 1 - v>>
      BY <1>1, <1>9 DEF Agree
    <3>2. 1 - v \in {0, 1} /\ 1 - (1 - v) = v
      OBVIOUS
    <3>3. New("render_pass") = <<"render_pass", v>>
      BY <1>1, <1>7, <3>1, <3>2, Swapped
    <3>4. /\ \A k \in Swapchain : k \notin N
          /\ N \in SUBSET (Swapchain \cup {"render_pass", "framebuffers"})
          /\ "framebuffers" \notin N
      BY DEF Swapchain
    <3>5. \A k \in Swapchain \cup N : Mid(N, N, N).held[k] = <<k, v>>
      BY <1>6, <1>7, <3>1, <3>3, <3>4
    <3>6. \A k \in {"render_pass", "framebuffers"} \ N : Mid(N, N, N).held[k] = <<k, 1 - v>>
      BY <1>6, <1>7, <3>1, <3>4
    <3> QED
      BY <3>5, <3>6 DEF Agree
  <2>4. N \in SUBSET (Swapchain \cup {"render_pass", "framebuffers"}) /\ N = {"render_pass"}
    OBVIOUS
  <2> HIDE DEF N
  <2> QED
    BY <1>2, <1>5, <2>1, <2>2, <2>3, <2>4
<1>10. CASE functions = <<"LoadFrameBuffers">> /\ Agree(Now, {"render_pass"})
  <2> DEFINE N == {"framebuffers"}
             kinds == {"render_pass", "framebuffers"}
  <2>1. Head(functions) = "LoadFrameBuffers" /\ Tail(functions) = << >>
    BY <1>10, TailsOf
  <2>2. Leads(TRUE, Now, calls', Mid(N, N, N))
    BY <1>1, <1>2, <1>3, <2>1, Scripts, FrameBuffersLoad
  <2>3. Agree(Mid(N, N, N), kinds)
    <3>1. PICK v \in {0, 1} :
            /\ \A k \in Swapchain \cup {"render_pass"} : held[k] = <<k, v>>
            /\ held["framebuffers"] = <<"framebuffers", 1 - v>>
      BY <1>1, <1>10 DEF Agree
    <3>2. 1 - v \in {0, 1} /\ 1 - (1 - v) = v
      OBVIOUS
    <3>3. New("framebuffers") = <<"framebuffers", v>>
      BY <1>1, <1>7, <3>1, <3>2, Swapped
    <3>4. /\ \A k \in Swapchain \cup {"render_pass"} : k \notin N
          /\ N \in SUBSET (Swapchain \cup {"render_pass", "framebuffers"})
      BY DEF Swapchain
    <3>5. \A k \in Swapchain \cup kinds : Mid(N, N, N).held[k] = <<k, v>>
      BY <1>6, <1>7, <3>1, <3>3, <3>4
    <3> QED
      BY <3>5 DEF Agree
  <2>4. /\ N \in SUBSET (Swapchain \cup {"render_pass", "framebuffers"})
        /\ kinds = {"render_pass", "framebuffers"}
    OBVIOUS
  <2>5. functions' \in Plans
    BY <1>2, <2>1 DEF Plans
  <2> HIDE DEF N, kinds
  <2> QED
    BY <1>5, <2>2, <2>3, <2>4, <2>5
<1> QED
  BY <1>8, <1>9, <1>10 DEF LoopStage

LEMMA UnloadEnter ==
  ASSUME TypeOK, UnloadStage(Now), Enter
  PROVE  \E b : Leads(~ failed, Now, calls', b) /\ UnloadStage(b)'
<1>1. Typed /\ Now.held = held
  BY TypedNow DEF Now
<1>2. /\ functions # << >> /\ calls' = Script(Head(functions))
      /\ functions' = Tail(functions) /\ machine' = machine /\ failed' = failed
  BY DEF Enter
<1>n. PICK now : now = Now
  OBVIOUS
<1>3. AllHeld(Now) => \A pool \in Pools : held[pool] # Null
  <2>1. \A pool \in Pools : pool \in Kinds \ {"os_window"} /\ Built(pool)
    BY KindNames DEF Built, Pools
  <2> QED
    BY <1>1, <2>1 DEF AllHeld
<1>4. CASE /\ functions = <<"WaitIdle", "DestroyDrawCube", "DestroyMembers">>
           /\ HeldLive(Now) /\ (~ failed => Clean(Now) /\ AllHeld(Now))
  <2>1. Head(functions) = "WaitIdle" /\ Tail(functions) = <<"DestroyDrawCube", "DestroyMembers">>
    BY <1>4, TailsOf
  <2>2. Leads(~ failed, Now, calls', now)
    BY <1>1, <1>2, <1>4, <1>n, <2>1, LoopUses, Scripts
  <2>3. HeldLive(now)' /\ (~ failed => Clean(now)' /\ AllHeld(now)')
    BY <1>2, <1>4, <1>n DEF HeldLive, Clean, AllHeld, Built
  <2>4. UnloadStage(now)'
    BY <1>2, <2>1, <2>3 DEF UnloadStage
  <2> QED
    BY <2>2, <2>4
<1>5. CASE /\ functions = <<"DestroyDrawCube", "DestroyMembers">>
           /\ HeldLive(Now) /\ (~ failed => Clean(Now) /\ AllHeld(Now))
  <2>1. Head(functions) = "DestroyDrawCube" /\ Tail(functions) = <<"DestroyMembers">>
    BY <1>5, TailsOf
  <2>2. PICK b : /\ Leads(~ failed, Now, DestroyDrawCube, b) /\ Dismantled(b)
                 /\ ~ failed => OnlyRemains(b)
    BY <1>1, <1>3, <1>5, DrawCubeDestroyed
  <2>3. UnloadStage(b)'
    BY <1>2, <2>1, <2>2 DEF UnloadStage, Dismantled, OnlyRemains
  <2>4. calls' = DestroyDrawCube
    BY <1>2, <2>1, Scripts
  <2> QED
    BY <2>2, <2>3, <2>4
<1>6. CASE functions = <<"DestroyLocals", "DestroyMembers">> /\ failed /\ HeldLive(Now)
  <2>1. Head(functions) = "DestroyLocals" /\ Tail(functions) = <<"DestroyMembers">>
    BY <1>6, TailsOf
  <2>2. PICK b : Leads(FALSE, Now, DestroyLocals, b) /\ Dismantled(b)
    BY <1>1, <1>6, LocalsDestroyed
  <2>3. UnloadStage(b)'
    BY <1>2, <1>6, <2>1, <2>2 DEF UnloadStage, Dismantled
  <2>4. calls' = DestroyLocals
    BY <1>2, <2>1, Scripts
  <2>5. Leads(~ failed, Now, DestroyLocals, b)
    BY <1>6, <2>2 DEF Leads, Runs, Good
  <2> QED
    BY <2>3, <2>4, <2>5
<1>7. CASE /\ functions = <<"DestroyMembers">>
           /\ Dismantled(Now) /\ (~ failed => OnlyRemains(Now))
  <2>1. Head(functions) = "DestroyMembers" /\ Tail(functions) = << >>
    BY <1>7, TailsOf
  <2>2. PICK b : /\ Leads(~ failed, Now, DestroyMembers, b)
                 /\ ~ failed => b.live = {}
    BY <1>1, <1>7, MembersDestroyed
  <2>3. UnloadStage(b)'
    BY <1>2, <2>1, <2>2 DEF UnloadStage
  <2>4. calls' = DestroyMembers
    BY <1>2, <2>1, Scripts
  <2> QED
    BY <2>2, <2>3, <2>4
<1> QED
  BY <1>2, <1>4, <1>5, <1>6, <1>7 DEF UnloadStage

-----------------------------------------------------------------------------
(* The invariant.                                                           *)

\* Stages are read off these.
LEMMA StageSame ==
  ASSUME NEW b, Stage(b), UNCHANGED <<machine, pc, functions, calls, failed>>
  PROVE  Stage(b)'
<1>1. LoadStage(b) => LoadStage(b)'
  BY DEF LoadStage, Built
<1>2. LoopStage(b) => LoopStage(b)'
  BY DEF LoopStage, AllHeld, Built
<1>3. UnloadStage(b) => UnloadStage(b)'
  BY DEF UnloadStage, AllHeld, Built
<1> QED
  BY <1>1, <1>2, <1>3 DEF Stage

\* What is to be called next.
LEMMA NextCall ==
  ASSUME TypeOK, OInv, calls # << >>
  PROVE  /\ Good(~ failed, Now, Head(calls))
         /\ \E b : Leads(~ failed, After(Now, Head(calls)), Tail(calls), b) /\ Stage(b)
<1>1. PICK b : Leads(~ failed, Now, calls, b) /\ Stage(b)
  BY DEF OInv
<1>2. calls \in Seq(Calls)
  BY DEF TypeOK
<1> DEFINE strict == ~ failed
<1>3. Leads(strict, Now, calls, b)
  BY <1>1
<1> HIDE DEF strict
<1>4. /\ Good(strict, Now, Head(calls))
      /\ Runs(strict, After(Now, Head(calls)), Tail(calls), b)
  BY <1>2, <1>3, RunsRest DEF Leads
<1>5. Tail(calls) \in Seq(Calls)
  BY <1>2, HeadTailProperties
<1> QED
  BY <1>1, <1>4, <1>5 DEF Leads, strict

\* Nothing is to be called.
LEMMA NoNextCall ==
  ASSUME OInv, calls = << >>
  PROVE  Stage(Now)
<1>1. PICK b : Leads(~ failed, Now, calls, b) /\ Stage(b)
  BY DEF OInv
<1> DEFINE strict == ~ failed
<1>2. Leads(strict, Now, << >>, b)
  BY <1>1
<1> HIDE DEF strict
<1>3. b = Now
  BY <1>2, RanNothing DEF Leads
<1> QED
  BY <1>1, <1>3

\* A stage that starts.
LEMMA Starts ==
  ASSUME calls' = << >>, NEW now, Now' = now, Stage(now)'
  PROVE  OInv'
<1> DEFINE strict == (~ failed)'
<1>1. Leads(strict, now, << >>, now)
  <2> HIDE DEF strict
  <2> QED
    BY RunsNothing, NoCall DEF Leads
<1>2. Leads(~ failed, Now, calls, now)'
  BY <1>1
<1> QED
  BY <1>2 DEF OInv

LEMMA InitiallyOInv == Init => OInv
<1> SUFFICES ASSUME Init PROVE OInv
  OBVIOUS
<1>1. /\ pc = "load" /\ functions = DrawCube /\ calls = << >> /\ live = {} /\ failed = FALSE
      /\ held = [k \in Kinds |-> Null]
  BY DEF Init
<1>2. functions = SubSeq(DrawCube, 0 + 1, 21)
  <2>1. DrawCube = SubSeq(DrawCube, 1, 21)
    BY LoadOrder, SubSeqFull
  <2> QED
    BY <1>1, <2>1
<1>3. \A k \in Kinds : ~ (Rank(k) <= 0)
  BY Ranked
<1>4. Clean(Now)
  BY <1>1 DEF Clean, HeldLive, Now
<1>5. LoadStage(Now)
  BY <1>1, <1>2, <1>3, <1>4 DEF LoadStage, Now
<1>6. Stage(Now)
  BY <1>1, <1>5 DEF Stage
<1> DEFINE strict == ~ failed
<1>7. Leads(strict, Now, << >>, Now)
  <2> HIDE DEF strict
  <2> QED
    BY RunsNothing, NoCall DEF Leads
<1> QED
  BY <1>1, <1>6, <1>7 DEF OInv

LEMMA EnterKeeps ==
  ASSUME TypeOK, OInv, Enter
  PROVE  OInv'
<1>1. /\ calls = << >> /\ functions # << >>
      /\ UNCHANGED <<machine, pc, live, held, failed>>
  BY DEF Enter
<1>2. Stage(Now)
  BY <1>1, NoNextCall
<1>3. pc \in {"load", "loop", "unload"}
  BY <1>1, <1>2 DEF TypeOK, Stage
<1>4. Now' = Now
  BY <1>1 DEF Now
<1>5. ASSUME NEW b, Leads(~ failed, Now, calls', b), Stage(b)'
      PROVE  OInv'
  BY <1>1, <1>4, <1>5 DEF OInv
<1>6. CASE pc \in {"load", "loop"}
  <2>1. ~ failed
    BY <1>2, <1>6 DEF Stage
  <2>2. PICK b : /\ Leads(TRUE, Now, calls', b)
                 /\ pc = "load" => LoadStage(b)'
                 /\ pc = "loop" => LoopStage(b)'
    BY <1>2, <1>6, LoadEnter, LoopEnter DEF Stage
  <2>3. Stage(b)'
    BY <1>1, <1>6, <2>1, <2>2 DEF Stage
  <2>4. Leads(~ failed, Now, calls', b)
    BY <2>1, <2>2
  <2> QED
    BY <1>5, <2>3, <2>4
<1>7. CASE pc = "unload"
  <2>1. PICK b : Leads(~ failed, Now, calls', b) /\ UnloadStage(b)'
    BY <1>2, <1>7, UnloadEnter DEF Stage
  <2>2. Stage(b)'
    BY <1>1, <1>7, <2>1 DEF Stage
  <2> QED
    BY <1>5, <2>1, <2>2
<1> QED
  BY <1>3, <1>6, <1>7

\* What Return does is After.
LEMMA ReturnIsAfter ==
  ASSUME Return
  PROVE  Now' = After(Now, Head(calls))
<1> DEFINE call    == Head(calls)
           pooled  == {o \in live : \E pool \in call.frees : Pooled(pool[1], o[1])}
           kept(k) == {o \in call.keeps : o[1] = k}
<1>1. /\ live' = (live \ (call.frees \cup pooled)) \cup call.makes
      /\ held' = [k \in Kinds |->
                    IF kept(k) # {} THEN CHOOSE o \in kept(k) : TRUE
                    ELSE IF k \in Owned /\ held[k] \in call.frees THEN Null
                    ELSE held[k]]
  BY DEF Return
<1>2. pooled = PooledOf(call.frees, live) /\ \A k : kept(k) = Kept(call, k)
  BY DEF PooledOf, Kept
<1>3. After(Now, call) =
        [live |-> (live \ (call.frees \cup PooledOf(call.frees, live))) \cup call.makes,
         held |-> [k \in Kinds |->
                     IF Kept(call, k) # {} THEN CHOOSE o \in Kept(call, k) : TRUE
                     ELSE IF k \in Owned /\ held[k] \in call.frees THEN Null
                     ELSE held[k]]]
  BY DEF After, Now
<1>4. Now' = [live |-> live', held |-> held']
  BY DEF Now
<1> HIDE DEF call, pooled
<1>5. held' = [k \in Kinds |->
                 IF Kept(call, k) # {} THEN CHOOSE o \in Kept(call, k) : TRUE
                 ELSE IF k \in Owned /\ held[k] \in call.frees THEN Null
                 ELSE held[k]]
  BY <1>1 DEF Kept
<1> HIDE DEF kept
<1>6. Now' = After(Now, call)
  BY <1>1, <1>2, <1>3, <1>4, <1>5
<1> QED
  BY <1>6 DEF call

LEMMA ReturnKeeps ==
  ASSUME TypeOK, OInv, Return
  PROVE  OInv'
<1>1. /\ calls # << >> /\ calls' = Tail(calls)
      /\ UNCHANGED <<machine, pc, functions, failed>>
  BY DEF Return
<1>2. PICK b : Leads(~ failed, After(Now, Head(calls)), Tail(calls), b) /\ Stage(b)
  BY <1>1, NextCall
<1>3. Leads(~ failed, Now, calls, b)'
  BY <1>1, <1>2, ReturnIsAfter
<1>4. Stage(b)'
  <2>1. pc \notin {"gone", "exited", "terminated"}
    BY <1>1, <1>2 DEF Stage
  <2>2. /\ LoadStage(b) => LoadStage(b)'
        /\ LoopStage(b) => LoopStage(b)'
        /\ UnloadStage(b) => UnloadStage(b)'
    BY <1>1 DEF LoadStage, LoopStage, UnloadStage, AllHeld, Built
  <2> QED
    BY <1>1, <1>2, <2>1, <2>2 DEF Stage
<1> QED
  BY <1>3, <1>4 DEF OInv

LEMMA ThrowKeeps ==
  ASSUME TypeOK, OInv, Throw
  PROVE  OInv'
<1>1. /\ calls # << >> /\ Head(calls).outcome \in {"may throw", "throws"}
      /\ failed' = TRUE /\ calls' = << >>
      /\ UNCHANGED <<machine, live, held>>
      /\ \/ pc' = "terminated" /\ functions' = << >>
         \/ /\ pc' = "unload"
            /\ functions' \in {<<"DestroyLocals", "DestroyMembers">>,
                               <<"DestroyDrawCube", "DestroyMembers">>}
  BY DEF Throw
<1>2. HeldLive(Now)
  BY <1>1, NextCall DEF Good
<1>3. PICK now : now = Now
  OBVIOUS
<1>4. Now' = Now
  BY <1>1 DEF Now
<1>5. HeldLive(now)
  BY <1>2, <1>3
<1>6. CASE pc' = "terminated" /\ functions' = << >>
  <2>1. Stage(now)'
    BY <1>1, <1>6 DEF Stage
  <2> QED
    BY <1>1, <1>3, <1>4, <2>1, Starts
<1>7. CASE /\ pc' = "unload"
           /\ functions' \in {<<"DestroyLocals", "DestroyMembers">>,
                              <<"DestroyDrawCube", "DestroyMembers">>}
  <2>1. UnloadStage(now)'
    BY <1>1, <1>5, <1>7 DEF UnloadStage
  <2>2. Stage(now)'
    BY <1>1, <1>7, <2>1 DEF Stage
  <2> QED
    BY <1>1, <1>3, <1>4, <2>2, Starts
<1> QED
  BY <1>1, <1>6, <1>7

LEMMA ExitKeeps ==
  ASSUME Exit
  PROVE  OInv'
<1>1. PICK now : now = Now'
  OBVIOUS
<1>2. pc' = "exited" /\ functions' = << >> /\ calls' = << >>
  BY DEF Exit
<1>3. Stage(now)'
  BY <1>2 DEF Stage
<1> QED
  BY <1>1, <1>2, <1>3, Starts

LEMMA LoadedKeeps ==
  ASSUME TypeOK, OInv, Loaded
  PROVE  OInv'
<1>1. /\ pc = "load" /\ calls = << >> /\ functions = << >>
      /\ pc' = "loop" /\ UNCHANGED <<machine, functions, calls, live, held, failed>>
  BY DEF Loaded, Idle
<1>2. Stage(Now)
  BY <1>1, NoNextCall
<1>3. LoadStage(Now) /\ ~ failed
  BY <1>1, <1>2 DEF Stage
<1>4. PICK n \in 0..21 :
        /\ functions = SubSeq(DrawCube, n + 1, 21)
        /\ \A k \in Kinds : Now.held[k] = IF Rank(k) <= n /\ Built(k) THEN <<k, 0>> ELSE Null
  BY <1>3 DEF LoadStage
<1>5. n = 21
  <2>1. DrawCube \in Seq(FunctionNames) /\ Len(DrawCube) = 21
    BY LoadOrder
  <2>2. /\ n + 1 \in 1..22
        /\ n + 1 <= 21 => n + 1 \in 1..Len(DrawCube) /\ 21 \in (n + 1)..Len(DrawCube)
    BY <2>1
  <2>3. n + 1 <= 21 => SubSeq(DrawCube, n + 1, 21) # << >>
    <3> DEFINE m == n + 1
    <3> HIDE DEF m
    <3>1. ASSUME m <= 21, m \in 1..22, m \in 1..Len(DrawCube), 21 \in m..Len(DrawCube)
          PROVE  Len(SubSeq(DrawCube, m, 21)) = 21 - m + 1
      BY <2>1, <3>1, SubSeqProperties
    <3>2. ASSUME m <= 21, m \in 1..22, SubSeq(DrawCube, m, 21) = << >>
          PROVE  Len(SubSeq(DrawCube, m, 21)) # 21 - m + 1
      <4>1. Len(SubSeq(DrawCube, m, 21)) = 0
        BY <3>2, EmptySeq
      <4> QED
        BY <3>2, <4>1
    <3> QED
      BY <2>2, <3>1, <3>2 DEF m
  <2> QED
    BY <1>1, <1>4, <2>3
<1>6. ASSUME NEW k \in Kinds
      PROVE  Now.held[k] = IF Built(k) THEN <<k, 0>> ELSE Null
  <2>1. Rank(k) \in 1..21
    BY Ranked
  <2>2. Rank(k) <= n
    BY <1>5, <2>1
  <2> QED
    BY <1>4, <2>2
<1>7. PICK now : now = Now
  OBVIOUS
<1>8. AllHeld(now)
  <2>1. \A k \in Kinds : <<k, 0>> # Null
    BY NotNull DEF Objects
  <2> QED
    BY <1>6, <1>7, <2>1 DEF AllHeld
<1>9. Agree(now, {"render_pass", "framebuffers"})
  <2> DEFINE kinds == {"render_pass", "framebuffers"}
  <2>1. \A k \in Swapchain \cup kinds : k \in Kinds /\ Built(k)
    BY KindNames DEF Swapchain, Built
  <2>2. \A k \in Swapchain \cup kinds : now.held[k] = <<k, 0>>
    BY <1>6, <1>7, <2>1
  <2> QED
    BY <2>2 DEF Agree
<1>10. Clean(now)
  BY <1>3, <1>7 DEF LoadStage
<1>11. LoopStage(now)'
  BY <1>1, <1>8, <1>9, <1>10 DEF LoopStage, Plans, AllHeld, Built
<1>12. Stage(now)'
  BY <1>1, <1>3, <1>11 DEF Stage
<1>13. Now' = now
  BY <1>1, <1>7 DEF Now
<1> QED
  BY <1>1, <1>12, <1>13, Starts

\* What the loop finds between two functions.
LEMMA BetweenFrames ==
  ASSUME TypeOK, OInv, InLoop
  PROVE  /\ Clean(Now) /\ AllHeld(Now) /\ Agree(Now, {"render_pass", "framebuffers"})
         /\ ~ failed
<1>1. pc = "loop" /\ calls = << >> /\ functions = << >>
  BY DEF InLoop, Idle
<1>2. Stage(Now)
  BY <1>1, NoNextCall
<1>3. LoopStage(Now) /\ ~ failed
  BY <1>1, <1>2 DEF Stage
<1>4. functions # <<"LoadRenderPass", "LoadFrameBuffers">> /\ functions # <<"LoadFrameBuffers">>
  BY <1>1
<1> QED
  BY <1>3, <1>4 DEF LoopStage

LEMMA GoKeeps ==
  ASSUME TypeOK, OInv, Go
  PROVE  OInv'
<1>1. /\ InLoop /\ pc = "loop" /\ calls = << >>
      /\ functions' \in {Frame, Frame \o ReloadSwapchain, ReloadSwapchain,
                         <<"UpdateUniformBuffers">>}
      /\ UNCHANGED <<machine, pc, calls, live, held, failed>>
  BY DEF Go, InLoop, Idle
<1>2. PICK now : now = Now
  OBVIOUS
<1>3. /\ Clean(now) /\ AllHeld(now) /\ Agree(now, {"render_pass", "framebuffers"})
      /\ ~ failed
  BY <1>1, <1>2, BetweenFrames
<1>4. functions' \in Plans
  BY <1>1, PlansRest DEF Plans
<1>5. LoopStage(now)'
  BY <1>1, <1>3, <1>4 DEF LoopStage, Plans, AllHeld, Built
<1>6. Stage(now)'
  BY <1>1, <1>3, <1>5 DEF Stage
<1>7. Now' = now
  BY <1>1, <1>2 DEF Now
<1> QED
  BY <1>1, <1>6, <1>7, Starts

\* The window goes and is no longer held.
LEMMA CloseKeeps ==
  ASSUME TypeOK, OInv, Close
  PROVE  OInv'
<1> DEFINE kinds == {"render_pass", "framebuffers"}
<1>1. /\ InLoop /\ pc = "loop" /\ calls = << >> /\ functions = << >>
      /\ live' = live \ Held({"os_window"})
      /\ held' = [held EXCEPT !["os_window"] = Null]
      /\ UNCHANGED <<machine, pc, functions, calls, failed>>
  BY DEF Close, InLoop, Idle
<1>2. Typed /\ Clean(Now) /\ AllHeld(Now) /\ Agree(Now, kinds) /\ ~ failed
  BY <1>1, TypedNow, BetweenFrames
<1>3. PICK now : now = Now'
  OBVIOUS
<1>4. /\ now.live = live \ Held({"os_window"})
      /\ \A k \in Kinds : now.held[k] = IF k = "os_window" THEN Null ELSE held[k]
  BY <1>1, <1>2, <1>3 DEF Now, Typed
<1>5. Held({"os_window"}) = {held["os_window"]} \ {Null}
  BY DEF Held
<1>6. \A k \in Kinds : held[k] # Null => held[k] \in live /\ held[k][1] = k
  BY <1>2 DEF Clean, HeldLive, Now, Typed, HeldTyped
<1>7. \A o \in live : o # Null /\ o[1] \in Kinds /\ held[o[1]] = o
  BY <1>2, NotNull DEF Clean, Now, Typed
<1>8. "os_window" \in Kinds
  BY KindNames
<1>9. Clean(now)
  <2>1. ASSUME NEW k \in Kinds, now.held[k] # Null
        PROVE  now.held[k] \in now.live
    <3>1. k # "os_window" /\ now.held[k] = held[k] /\ held[k] # Null
      BY <1>4, <2>1
    <3>2. held[k] # held["os_window"]
      BY <1>6, <1>8, <3>1
    <3> QED
      BY <1>4, <1>5, <1>6, <3>1, <3>2
  <2>2. ASSUME NEW o \in now.live
        PROVE  now.held[o[1]] = o
    <3>1. o \in live /\ o \notin Held({"os_window"})
      BY <1>4
    <3>2. o # Null /\ o[1] \in Kinds /\ held[o[1]] = o
      BY <1>7, <3>1
    <3>3. o[1] # "os_window"
      BY <1>5, <3>1, <3>2
    <3> QED
      BY <1>4, <3>2, <3>3
  <2> QED
    BY <2>1, <2>2 DEF Clean, HeldLive
<1>10. AllHeld(now)
  <2>1. \A k \in Kinds \ {"os_window"} : held[k] # Null <=> Built(k)
    BY <1>2 DEF AllHeld, Now
  <2> QED
    BY <1>4, <2>1 DEF AllHeld
<1>11. Agree(now, kinds)
  <2>1. PICK v \in {0, 1} : \A k \in Swapchain \cup kinds : held[k] = <<k, v>>
    BY <1>2 DEF Agree, Now
  <2>2. \A k \in Swapchain \cup kinds : k \in Kinds /\ k # "os_window"
    BY KindNames DEF Swapchain
  <2>3. \A k \in Swapchain \cup kinds : now.held[k] = <<k, v>>
    BY <1>4, <2>1, <2>2
  <2> QED
    BY <2>3 DEF Agree
<1>12. LoopStage(now)'
  BY <1>1, <1>9, <1>10, <1>11 DEF LoopStage, Plans, AllHeld, Built
<1>13. Stage(now)'
  BY <1>1, <1>2, <1>12 DEF Stage
<1> QED
  BY <1>1, <1>3, <1>13, Starts

LEMMA StopKeeps ==
  ASSUME TypeOK, OInv, Stop
  PROVE  OInv'
<1>1. /\ InLoop /\ calls = << >> /\ pc' = "unload"
      /\ functions' = <<"WaitIdle", "DestroyDrawCube", "DestroyMembers">>
      /\ UNCHANGED <<machine, calls, live, held, failed>>
  BY DEF Stop, InLoop, Idle
<1>2. PICK now : now = Now
  OBVIOUS
<1>3. Clean(now) /\ AllHeld(now) /\ ~ failed
  BY <1>1, <1>2, BetweenFrames
<1>4. HeldLive(now)
  BY <1>3 DEF Clean
<1>5. UnloadStage(now)'
  BY <1>1, <1>3, <1>4 DEF UnloadStage, AllHeld, Built
<1>6. Stage(now)'
  BY <1>1, <1>3, <1>5 DEF Stage
<1>7. Now' = now
  BY <1>1, <1>2 DEF Now
<1> QED
  BY <1>1, <1>6, <1>7, Starts

LEMMA DestroyedKeeps ==
  ASSUME TypeOK, OInv, Destroyed
  PROVE  OInv'
<1>1. /\ pc = "unload" /\ calls = << >> /\ functions = << >> /\ pc' = "gone"
      /\ UNCHANGED <<machine, functions, calls, live, held, failed>>
  BY DEF Destroyed, Idle
<1>2. PICK now : now = Now
  OBVIOUS
<1>3. Stage(now)
  BY <1>1, <1>2, NoNextCall
<1>4. ~ failed => now.live = {}
  BY <1>1, <1>3 DEF Stage, UnloadStage
<1>5. Stage(now)'
  BY <1>1, <1>4 DEF Stage
<1>6. Now' = now
  BY <1>1, <1>2 DEF Now
<1> QED
  BY <1>1, <1>5, <1>6, Starts

LEMMA OInvKept ==
  ASSUME TypeOK, OInv, [Next]_vars
  PROVE  OInv'
<1>1. CASE UNCHANGED vars
  <2>1. PICK b : Leads(~ failed, Now, calls, b) /\ Stage(b)
    BY DEF OInv
  <2>2. Leads(~ failed, Now, calls, b)'
    BY <1>1, <2>1 DEF vars, Now
  <2>3. Stage(b)'
    BY <1>1, <2>1, StageSame DEF vars
  <2> QED
    BY <2>2, <2>3 DEF OInv
<1> QED
  BY <1>1, EnterKeeps, ReturnKeeps, ThrowKeeps, ExitKeeps, LoadedKeeps, GoKeeps, StopKeeps,
     DestroyedKeeps, CloseKeeps DEF Next, MainThread

\* What is left of the function that runs leads, call by call, to what the functions still
\* to be called expect: in the constructor, in the frame loop and on the way down, whatever
\* has thrown (draw_cube.cpp, vulkan_swapchain.cpp, vulkan_window.cpp).
THEOREM ObjectsInvariant == Spec => [](TypeOK /\ OInv)
<1>1. Init => TypeOK /\ Named /\ OInv
  BY NamesTyped, NoCall, InitiallyOInv DEF Init, TypeOK, Named
<1>2. TypeOK /\ Named /\ OInv /\ [Next]_vars => (TypeOK /\ Named /\ OInv)'
  BY StepTyped, OInvKept
<1> QED
  BY <1>1, <1>2, PTL DEF Spec

\* Every handle passed to Vulkan or to the operating system is that of an object that exists.
THEOREM CallsAlwaysLive == Spec => []CallsLive
<1>1. TypeOK /\ OInv => CallsLive
  <2> SUFFICES ASSUME TypeOK, OInv, calls # << >>
               PROVE  Head(calls).uses \cup Head(calls).frees \subseteq live
    BY DEF CallsLive
  <2>1. Good(~ failed, Now, Head(calls))
    BY NextCall
  <2> QED
    BY <2>1 DEF Good, Now
<1> QED
  BY <1>1, ObjectsInvariant, PTL

\* Between two frames there is exactly what the members hold, all of it, and the framebuffers
\* are those of the swapchain's images and of the render pass.
THEOREM AlwaysComplete == Spec => []Complete
<1> DEFINE missing == (IF machine.debug THEN {} ELSE {"debug_callback"}) \cup
                      (IF Closed THEN {"os_window"} ELSE {})
           loaded  == Kinds \ missing
<1>1. ASSUME TypeOK, OInv, InLoop
      PROVE  /\ live = {held[k] : k \in loaded}
             /\ \A k \in Swapchain \cup {"framebuffers", "render_pass"} :
                  held[k][2] = held["swapchain"][2]
  <2>1. /\ Typed /\ Clean(Now) /\ AllHeld(Now)
        /\ Agree(Now, {"render_pass", "framebuffers"})
    BY <1>1, TypedNow, BetweenFrames
  <2>2. \A k \in Kinds \ {"os_window"} : held[k] # Null <=> Built(k)
    BY <2>1 DEF AllHeld, Now
  <2>3. \A k \in Kinds : held[k] # Null <=> k \in loaded
    BY <2>2 DEF Built, Closed
  <2>4. \A k \in Kinds : held[k] # Null => held[k] \in live
    BY <2>1 DEF Clean, HeldLive, Now
  <2>5. \A o \in live : o # Null /\ o[1] \in Kinds /\ held[o[1]] = o
    BY <2>1, NotNull DEF Clean, Now, Typed
  <2> HIDE DEF missing
  <2>6. live = {held[k] : k \in loaded}
    <3> HIDE DEF loaded
    <3>1. loaded \subseteq Kinds
      BY DEF loaded
    <3>2. ASSUME NEW o \in live
          PROVE  o \in {held[k] : k \in loaded}
      <4>1. o[1] \in loaded /\ held[o[1]] = o
        BY <2>3, <2>5
      <4> QED
        BY <4>1
    <3> QED
      BY <2>3, <2>4, <3>1, <3>2
  <2>7. PICK v \in {0, 1} :
          \A k \in Swapchain \cup {"render_pass", "framebuffers"} : held[k] = <<k, v>>
    BY <2>1 DEF Agree, Now
  <2>8. "swapchain" \in Swapchain
    BY DEF Swapchain
  <2>9. \A k \in Swapchain \cup {"framebuffers", "render_pass"} : held[k][2] = v
    BY <2>7
  <2> QED
    BY <2>6, <2>8, <2>9
<1>2. TypeOK /\ OInv => Complete
  BY <1>1 DEF Complete
<1> QED
  BY <1>2, ObjectsInvariant, PTL

\* A program that ends without an exception has destroyed all it created.
THEOREM NothingIsLeft == Spec => [](pc = "gone" /\ ~ failed => live = {})
<1>1. TypeOK /\ OInv => (pc = "gone" /\ ~ failed => live = {})
  <2> SUFFICES ASSUME OInv, pc = "gone", ~ failed
               PROVE  live = {}
    OBVIOUS
  <2>1. calls = << >>
    BY DEF OInv, Stage
  <2>2. Stage(Now)
    BY <2>1, NoNextCall
  <2> QED
    BY <2>2 DEF Stage, Now
<1> QED
  BY <1>1, ObjectsInvariant, PTL

-----------------------------------------------------------------------------
(* The tree.                                                                *)

LEMMA TreeChildren ==
  ASSUME NEW o \in Objects
  PROVE  Tree!Children(o) = {c \in live : o[1] \in ParentKinds(c[1])}
BY DEF Tree!Children

\* What goes with a pool is what was made from it.
LEMMA PooledAreChildren ==
  ASSUME NEW o \in Objects
  PROVE  PooledOf({o}, live) \subseteq Tree!Children(o)
<1>1. \A pool, k : Pooled(pool, k) => pool \in ParentKinds(k)
  BY DEF Pooled, ParentKinds, Swapchain, Window, Uniform
<1> QED
  BY <1>1, TreeChildren DEF PooledOf

LEMMA ReturnInTree ==
  ASSUME TypeOK, TypeOK', OInv, Return
  PROVE  [Tree!Next]_<<live, failed>>
<1> DEFINE call == Head(calls)
<1>1. calls # << >> /\ failed' = failed
  BY DEF Return
<1>2. live' = (live \ (call.frees \cup PooledOf(call.frees, live))) \cup call.makes
  <2>1. Now' = After(Now, call)
    BY ReturnIsAfter
  <2>2. Now'.live = live'
    BY DEF Now
  <2>3. After(Now, call).live =
          (live \ (call.frees \cup PooledOf(call.frees, live))) \cup call.makes
    BY DEF After, Now
  <2> QED
    BY <2>1, <2>2, <2>3
<1>3. Good(~ failed, Now, call)
  BY <1>1, NextCall
<1> HIDE DEF call
<1>4. live \subseteq Objects /\ live' \subseteq Objects /\ failed \in BOOLEAN
  BY DEF TypeOK
<1>5. CASE failed
  <2>1. failed' = TRUE
    BY <1>1, <1>4, <1>5
  <2> QED
    BY <1>4, <2>1 DEF Tree!Next, Tree!Abandon
<1>6. CASE ~ failed
  <2>1. TreeStep(Now, call)
    BY <1>3, <1>6 DEF Good
  <2>2. CASE call.makes = {} /\ call.frees = {}
    <3>1. PooledOf({}, live) = {}
      BY DEF PooledOf
    <3> QED
      BY <1>1, <1>2, <2>2, <3>1
  <2>3. ASSUME NEW o \in Objects,
               call.makes = {o}, call.frees = {}, o \notin live,
               \A k \in ParentKinds(o[1]) : \E p \in live : p[1] = k
        PROVE  Tree!Next
    <3>1. PooledOf({}, live) = {}
      BY DEF PooledOf
    <3>2. live' = live \cup {o}
      BY <1>2, <2>3, <3>1
    <3>3. Tree!Create(o)
      BY <1>1, <1>6, <2>3, <3>2 DEF Tree!Create
    <3> QED
      BY <3>3 DEF Tree!Next
  <2>4. ASSUME NEW o \in live,
               call.makes = {}, call.frees = {o},
               \A x \in live : o[1] \in ParentKinds(x[1]) => Pooled(o[1], x[1])
        PROVE  Tree!Next
    <3>1. Tree!Children(o) = {c \in live : o[1] \in ParentKinds(c[1])}
      BY <1>4, TreeChildren
    <3>2. Tree!Children(o) = PooledOf({o}, live)
      BY <1>4, <2>4, <3>1, PooledAreChildren DEF PooledOf
    <3>3. live' = live \ ({o} \cup Tree!Children(o))
      BY <1>2, <2>4, <3>2
    <3>4. \A c \in Tree!Children(o) : c[1] \in {"command_buffers", "descriptor_sets"}
      BY <1>4, <2>4, <3>1, ParentsNamed DEF Allocated
    <3>5. Tree!Destroy(o)
      BY <1>1, <1>6, <3>3, <3>4 DEF Tree!Destroy
    <3> QED
      BY <1>4, <3>5 DEF Tree!Next
  <2> QED
    BY <2>1, <2>2, <2>3, <2>4 DEF TreeStep, Now
<1> QED
  BY <1>5, <1>6

LEMMA CloseInTree ==
  ASSUME TypeOK, OInv, Close
  PROVE  Tree!Next
<1> DEFINE o == held["os_window"]
<1>1. InLoop /\ o # Null /\ live' = live \ Held({"os_window"}) /\ failed' = failed
  BY DEF Close, Closed
<1>2. Clean(Now) /\ ~ failed
  BY <1>1, BetweenFrames
<1>3. "os_window" \in Kinds
  BY KindNames
<1>4. o \in live /\ o[1] = "os_window" /\ o \in Objects
  BY <1>1, <1>2, <1>3, TypedNow DEF Clean, HeldLive, Now, Typed, HeldTyped
<1>5. Held({"os_window"}) = {o}
  BY <1>1 DEF Held
<1> HIDE DEF o
<1>6. Tree!Children(o) = {}
  <2>1. \A k : "os_window" \notin ParentKinds(k)
    BY ParentsNamed DEF Pools
  <2> QED
    BY <1>4, <2>1, TreeChildren
<1>7. Tree!Destroy(o)
  BY <1>1, <1>2, <1>4, <1>5, <1>6 DEF Tree!Destroy
<1> QED
  BY <1>4, <1>7 DEF Tree!Next

LEMMA StepInTree ==
  ASSUME TypeOK, TypeOK', OInv, [Next]_vars
  PROVE  [Tree!Next]_<<live, failed>>
<1>1. CASE Return
  BY <1>1, ReturnInTree
<1>2. CASE Throw
  <2>1. failed' = TRUE /\ live' = live /\ live \subseteq Objects
    BY <1>2 DEF Throw, TypeOK
  <2> QED
    BY <2>1 DEF Tree!Next, Tree!Abandon
<1>3. CASE Close
  BY <1>3, CloseInTree
<1>4. CASE Enter \/ Exit \/ Loaded \/ Go \/ Stop \/ Destroyed \/ UNCHANGED vars
  BY <1>4 DEF Enter, Exit, Loaded, Go, Stop, Destroyed, vars
<1> QED
  BY <1>1, <1>2, <1>3, <1>4 DEF Next, MainThread

\* Until an exception, what DrawCube does to the objects is what Vulkan allows: an object is
\* made from parents that exist and destroyed before them.
THEOREM TreeImplemented == Spec => ImplementsTree
<1>1. Init => Tree!Init
  BY DEF Init, Tree!Init
<1>2. TypeOK /\ TypeOK' /\ OInv /\ [Next]_vars => [Tree!Next]_<<live, failed>>
  BY StepInTree
<1> QED
  BY <1>1, <1>2, ObjectsInvariant, PTL DEF Spec, ImplementsTree, Tree!Spec

\* Until an exception, nothing outlives what it was made from, in the constructor, between
\* the old and the new of a reload, and half way through the destructors.
THEOREM NobodyOrphaned == Spec => []Tree!NoOrphans
<1>1. Tree!Init => Tree!NoOrphans
  BY DEF Tree!Init, Tree!NoOrphans
<1>2. ASSUME Tree!NoOrphans, [Tree!Next]_<<live, failed>>
      PROVE  Tree!NoOrphans'
  <2>1. ASSUME NEW o \in Objects, Tree!Create(o)
        PROVE  Tree!NoOrphans'
    BY <1>2, <2>1 DEF Tree!Create, Tree!NoOrphans
  <2>2. ASSUME NEW o \in Objects, Tree!Destroy(o)
        PROVE  Tree!NoOrphans'
    <3>1. /\ ~ failed /\ live' = live \ ({o} \cup Tree!Children(o))
          /\ \A c \in Tree!Children(o) : c[1] \in {"command_buffers", "descriptor_sets"}
      BY <2>2 DEF Tree!Destroy
    <3>2. ASSUME NEW x \in live', NEW k \in ParentKinds(x[1])
          PROVE  \E p \in live' : p[1] = k
      <4>1. x \in live /\ x \notin Tree!Children(o)
        BY <3>1
      <4>2. PICK p \in live : p[1] = k
        BY <1>2, <3>1, <4>1 DEF Tree!NoOrphans
      <4>3. p # o
        BY <4>1, <4>2, TreeChildren
      <4>4. p \notin Tree!Children(o)
        BY <3>1, <4>2, ParentsNamed DEF Allocated
      <4> QED
        BY <3>1, <4>2, <4>3, <4>4
    <3> QED
      BY <3>2 DEF Tree!NoOrphans
  <2> QED
    BY <1>2, <2>1, <2>2 DEF Tree!Next, Tree!Abandon, Tree!NoOrphans
<1> QED
  BY <1>1, <1>2, TreeImplemented, PTL DEF ImplementsTree, Tree!Spec
=============================================================================
