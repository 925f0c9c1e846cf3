--------------------------- MODULE GraphicsObjects ---------------------------
(***************************************************************************)
(* The life of what DrawCube creates: loaded in the constructor, the       *)
(* swapchain and what hangs on it reloaded in the frame loop, all of it    *)
(* destroyed at the end, and any call on the way may throw.                *)
(*                                                                         *)
(* A function of the code is a script of the calls it makes to Vulkan and  *)
(* to the operating system.  A call names the objects it is handed, those  *)
(* it makes or frees, and those that members hold once it has returned: a  *)
(* member that is a plain handle holds an object from its creation on, one *)
(* that is a smart pointer to a wrapper when the wrapper is constructed.   *)
(* A vector or array of objects stands as one.  What is put in the create  *)
(* infos is left out, but for GraphicsChoices.                             *)
(***************************************************************************)
EXTENDS GraphicsChoices

CONSTANT Machines   \* what the program may be built as, started with and run on

ASSUME MachinesAssumption == \A m \in Machines : IsMachine(m)

Swapchain == {"swapchain", "views", "depth_image", "depth_memory", "depth_view",
              "image_acquired"}                  \* VulkanSwapchain
Window    == {"os_window", "surface"}            \* VulkanWindow and Input::Window
Uniform   == {"uniform_buffer", "uniform_memory"}

\* What members hold as values or smart pointers that free it: null when it is freed, like
\* the framebuffers, whose vector is replaced by one of nulls.
Owned == Swapchain \cup Window \cup Uniform \cup
  {"instance", "debug_callback", "render_pass", "framebuffers"}

Kinds == Owned \cup
  {"device", "vertex_module", "fragment_module", "vertex_buffer", "vertex_memory",
   "descriptor_pool", "descriptor_set_layout", "descriptor_sets", "pipeline_cache",
   "pipeline_layout", "pipeline", "command_pool", "command_buffers",
   "render_finished"}

Objects == Kinds \X {0, 1}   \* 0 or 1 tells an object from the one it replaces
Null    == <<"null", 0>>

VARIABLES
  machine,
  pc,         \* "load", "loop", "unload"; "gone", "exited", "terminated"
  functions,  \* what is still to be called,
  calls,      \* and what is left of the function that runs
  live,       \* the objects that exist
  held,       \* the object each member holds
  failed      \* an exception was thrown

vars == <<machine, pc, functions, calls, live, held, failed>>

Outcomes == {"returns", "may throw", "throws", "exits"}
Calls == [uses : SUBSET Objects, makes : SUBSET Objects, frees : SUBSET Objects,
          keeps : SUBSET Objects, outcome : Outcomes]

TypeOK ==
  /\ machine \in Machines
  /\ pc \in {"load", "loop", "unload", "gone", "exited", "terminated"}
  /\ calls \in Seq(Calls)
  /\ live \subseteq Objects
  /\ held \in [Kinds -> Objects \cup {Null}]
  /\ \A k \in Kinds : held[k] \in {Null, <<k, 0>>, <<k, 1>>}
  /\ failed \in BOOLEAN

-----------------------------------------------------------------------------
(* Calls.                                                                  *)

\* What an object is made from and freed with: the rules of Vulkan.
ParentKinds(k) ==
  CASE k \in {"instance", "os_window"}                 -> {}
    [] k \in {"debug_callback", "surface", "device"}   -> {"instance"}
    [] k = "swapchain"                                 -> {"device", "surface"}
    [] k = "command_buffers"                           -> {"device", "command_pool"}
    [] k = "descriptor_sets"                           -> {"device", "descriptor_pool"}
    [] OTHER                                           -> {"device"}

Pooled(pool, k) == <<pool, k>> \in {<<"command_pool", "command_buffers">>,
                                    <<"descriptor_pool", "descriptor_sets">>}

Held(kinds) == {held[k] : k \in kinds} \ {Null}

\* The object that a creation of this kind makes now.
New(k) == IF <<k, 0>> \in live THEN <<k, 1>> ELSE <<k, 0>>

NewOnes(kinds) == {New(k) : k \in kinds}

Call(uses, makes, frees, keeps, outcome) ==
  [uses |-> uses, makes |-> makes, frees |-> frees, keeps |-> keeps, outcome |-> outcome]

Use(objects) == <<Call(objects, {}, {}, {}, "may throw")>>

Keep(objects, kinds) == <<Call(objects, {}, {}, NewOnes(kinds), "may throw")>>

Require(condition) == IF condition THEN << >> ELSE <<Call({}, {}, {}, {}, "throws")>>

Part(k, uses, keeps) ==
  <<Call(uses \cup Held(ParentKinds(k)), {New(k)}, {}, NewOnes(keeps), "may throw")>>

Make(k, uses) == Part(k, uses, {k})

Free(k) ==
  IF held[k] = Null THEN << >>
  ELSE <<Call(Held(ParentKinds(k)), {}, {held[k]}, {}, "returns")>>

-----------------------------------------------------------------------------
(* Loading.                                                                *)

\* The constructor of VulkanInstance; a missing layer or extension is logged, and is up
\* to createInstance.
VulkanInstance == Use({}) \o Use({}) \o Make("instance", {})

CheckArguments == IF machine.arguments THEN << >> ELSE <<Call({}, {}, {}, {}, "exits")>>

Provider == Require(machine.readable)

StartDebugger == IF machine.debug THEN Make("debug_callback", {}) ELSE << >>

LoadGPUs == Use(Held({"instance"})) \o Require(machine.gpu)

\* The constructor of VulkanWindow in VulkanWindow::Create; GLFW may not start.
LoadWindow ==
  Part("os_window", {}, {}) \o
  Part("surface", {New("os_window")}, {}) \o
  Use({New("surface")}) \o
  Keep({New("surface")}, Window)

\* The constructor of VulkanDevice.
LoadDevice == Use(Held({"surface"})) \o Make("device", {})

\* VulkanSwapchain::InitializeDepthImage; D16 may not be supported.
InitializeDepthImage ==
  Use({}) \o
  Part("depth_image", {}, {}) \o
  Require(CanFindMemoryTypeFromProperties(machine, {"device_local"})) \o
  Part("depth_memory", {New("depth_image")}, {}) \o
  Use({New("depth_image"), New("depth_memory")}) \o
  Part("depth_view", {New("depth_image")}, {})

\* Mutant: the semaphore forgotten.
DestroySwapchainButSemaphore ==
  Free("depth_image") \o Free("depth_view") \o Free("depth_memory") \o Free("views") \o
  Free("swapchain")

DestroySwapchain ==
  Free("image_acquired") \o Free("depth_image") \o Free("depth_view") \o
  Free("depth_memory") \o Free("views") \o Free("swapchain")

\* The new swapchain is complete before the old one is destroyed.
LoadSwapchain ==
  Use(Held({"surface"})) \o
  Part("swapchain", Held({"swapchain"}), {}) \o
  Part("views", {New("swapchain")}, {}) \o
  InitializeDepthImage \o
  Part("image_acquired", {}, Swapchain) \o
  DestroySwapchain

\* The second check reads "vertex" again: a fragment shader that is not there is loaded.
LoadShaderModules ==
  Require(GetContentsSPIRV(machine, "DrawCube", "vertices.spv") # "empty") \o
  Make("vertex_module", {}) \o
  Make("fragment_module", {})

\* A failed search for a memory type is logged.
LoadVertexBuffer ==
  Make("vertex_buffer", {}) \o
  Make("vertex_memory", {New("vertex_buffer")}) \o
  Use({New("vertex_memory")}) \o
  Use({New("vertex_buffer"), New("vertex_memory")})

UpdateUniformBuffers(memory) == Use(memory \cup Held({"swapchain"}))

LoadUniformBuffer ==
  Part("uniform_buffer", {}, {}) \o
  Part("uniform_memory", {New("uniform_buffer")}, {}) \o
  Keep(NewOnes(Uniform), Uniform) \o
  UpdateUniformBuffers({New("uniform_memory")})

LoadDescriptorPool == Make("descriptor_pool", {})

LoadDescriptorSets ==
  Make("descriptor_set_layout", {}) \o
  Make("descriptor_sets", {New("descriptor_set_layout")}) \o
  Use({New("descriptor_sets")} \cup Held({"uniform_buffer"}))

DestroyRenderPass == Free("render_pass")

LoadRenderPass == Make("render_pass", {}) \o DestroyRenderPass

\* Mutant: those before stay.
KeepFramebuffers == << >>

DestroyFramebuffers == Free("framebuffers")

\* framebuffers_ is emptied once the old ones are destroyed and before a new one is made.
LoadFrameBuffers ==
  DestroyFramebuffers \o
  Make("framebuffers", Held({"views", "depth_view", "render_pass"}))

LoadPipelineCache == Make("pipeline_cache", {})

LoadPipelineLayout == Make("pipeline_layout", Held({"descriptor_set_layout"}))

LoadPipeline ==
  Make("pipeline", Held({"pipeline_cache", "pipeline_layout", "vertex_module",
                         "fragment_module", "render_pass"}))

LoadCommandPool == Make("command_pool", {})

LoadCommandBuffers == Free("command_buffers") \o Make("command_buffers", {})

LoadSemaphores == Make("render_finished", {})

LoadGraphics ==
  <<"StartDebugger", "LoadGPUs", "LoadWindow", "LoadDevice", "LoadSwapchain",
    "LoadShaderModules", "LoadVertexBuffer", "LoadUniformBuffer", "LoadDescriptorPool",
    "LoadDescriptorSets", "LoadRenderPass", "LoadFrameBuffers", "LoadPipelineCache",
    "LoadPipelineLayout", "LoadPipeline", "LoadCommandPool", "LoadCommandBuffers",
    "LoadSemaphores">>

\* The constructor of DrawCube: its members, then its body.
DrawCube == <<"VulkanInstance", "CheckArguments", "Provider">> \o LoadGraphics

-----------------------------------------------------------------------------
(* The frame loop.                                                         *)

BeginRender == Use(Held({"swapchain", "image_acquired"})) \o Use(Held({"device"}))

\* DrawCube::Draw, ExecuteBeginCommandBuffer with it: the index 0 is that of the one buffer.
Draw == Use(Held({"render_pass", "framebuffers", "command_buffers", "vertex_buffer", "pipeline",
                  "pipeline_layout", "descriptor_sets", "image_acquired", "render_finished"}))

EndRender == Use(Held({"swapchain", "render_finished"}))

WaitIdle == Use(Held({"device"}))

ReloadSwapchain == <<"WaitIdle", "LoadSwapchain", "LoadRenderPass", "LoadFrameBuffers">>

Frame == <<"BeginRender", "Draw", "EndRender">>

-----------------------------------------------------------------------------
(* Destroying.                                                             *)

DestroyUniform == Free("uniform_buffer") \o Free("uniform_memory")

DestroyVertexBuffer == Free("vertex_buffer") \o Free("vertex_memory")

DestroyShaderModules == Free("vertex_module") \o Free("fragment_module")

\* The destructor of VulkanWindow: the surface, then the window of the operating system,
\* which the user may have closed before.
DestroyWindow == Free("surface") \o Free("os_window")

\* Mutant: the device goes with what was loaded last.
DestroyDrawCubeDeviceFirst ==
  Free("render_finished") \o Free("pipeline") \o Free("pipeline_layout") \o
  Free("pipeline_cache") \o Free("descriptor_set_layout") \o Free("descriptor_pool") \o
  DestroyFramebuffers \o DestroyRenderPass \o DestroyUniform \o DestroyVertexBuffer \o
  DestroyShaderModules \o Free("command_pool") \o Free("device") \o DestroySwapchain \o
  DestroyWindow

\* The body of ~DrawCube.
DestroyDrawCube ==
  Free("render_finished") \o Free("pipeline") \o Free("pipeline_layout") \o
  Free("pipeline_cache") \o Free("descriptor_set_layout") \o Free("descriptor_pool") \o
  DestroyFramebuffers \o DestroyRenderPass \o DestroyUniform \o DestroyVertexBuffer \o
  DestroyShaderModules \o DestroySwapchain \o Free("command_pool") \o DestroyWindow \o
  Free("device")

\* The members of DrawCube in the reverse of their declaration: what ~DrawCube or an
\* exception leaves to them; p_device_ and the handles are plain.
DestroyMembers ==
  DestroyRenderPass \o DestroyUniform \o DestroySwapchain \o DestroyWindow \o
  Free("debug_callback") \o Free("instance")

\* The member of a VulkanWindow whose constructor throws.
DestroyLocals ==
  IF held["os_window"] = Null /\ <<"os_window", 0>> \in live
  THEN <<Call({}, {}, {<<"os_window", 0>>}, {}, "returns")>> ELSE << >>

-----------------------------------------------------------------------------
Script(function) ==
  CASE function = "VulkanInstance"       -> VulkanInstance
    [] function = "CheckArguments"       -> CheckArguments
    [] function = "Provider"             -> Provider
    [] function = "StartDebugger"        -> StartDebugger
    [] function = "LoadGPUs"             -> LoadGPUs
    [] function = "LoadWindow"           -> LoadWindow
    [] function = "LoadDevice"           -> LoadDevice
    [] function = "LoadSwapchain"        -> LoadSwapchain
    [] function = "LoadShaderModules"    -> LoadShaderModules
    [] function = "LoadVertexBuffer"     -> LoadVertexBuffer
    [] function = "LoadUniformBuffer"    -> LoadUniformBuffer
    [] function = "LoadDescriptorPool"   -> LoadDescriptorPool
    [] function = "LoadDescriptorSets"   -> LoadDescriptorSets
    [] function = "LoadRenderPass"       -> LoadRenderPass
    [] function = "LoadFrameBuffers"     -> LoadFrameBuffers
    [] function = "LoadPipelineCache"    -> LoadPipelineCache
    [] function = "LoadPipelineLayout"   -> LoadPipelineLayout
    [] function = "LoadPipeline"         -> LoadPipeline
    [] function = "LoadCommandPool"      -> LoadCommandPool
    [] function = "LoadCommandBuffers"   -> LoadCommandBuffers
    [] function = "LoadSemaphores"       -> LoadSemaphores
    [] function = "BeginRender"          -> BeginRender
    [] function = "Draw"                 -> Draw
    [] function = "EndRender"            -> EndRender
    [] function = "UpdateUniformBuffers" -> UpdateUniformBuffers(Held({"uniform_memory"}))
    [] function = "WaitIdle"             -> WaitIdle
    [] function = "DestroyLocals"        -> DestroyLocals
    [] function = "DestroyDrawCube"      -> DestroyDrawCube
    [] function = "DestroyMembers"       -> DestroyMembers

Init ==
  /\ machine \in Machines
  /\ pc = "load" /\ functions = DrawCube /\ calls = << >>
  /\ live = {} /\ held = [k \in Kinds |-> Null] /\ failed = FALSE

Idle == functions = << >> /\ calls = << >>

\* The next function is called.
Enter ==
  /\ calls = << >> /\ functions # << >>
  /\ calls' = Script(Head(functions))
  /\ functions' = Tail(functions)
  /\ UNCHANGED <<machine, pc, live, held, failed>>

\* The next call returns; what was allocated from a pool is freed with it.
Return ==
  /\ calls # << >> /\ Head(calls).outcome \in {"returns", "may throw"}
  /\ LET call    == Head(calls)
         pooled  == {o \in live : \E pool \in call.frees : Pooled(pool[1], o[1])}
         kept(k) == {o \in call.keeps : o[1] = k}
     IN  /\ live' = (live \ (call.frees \cup pooled)) \cup call.makes
         /\ held' = [k \in Kinds |->
                       IF kept(k) # {} THEN CHOOSE o \in kept(k) : TRUE
                       ELSE IF k \in Owned /\ held[k] \in call.frees THEN Null
                       ELSE held[k]]
  /\ calls' = Tail(calls)
  /\ UNCHANGED <<machine, pc, functions, failed>>

\* The next call throws, and nobody catches: whether the stack is unwound on the way to
\* std::terminate is up to the implementation.  The constructor of DrawCube unwinds to
\* its members, everything later to ~DrawCube as well.
Throw ==
  /\ calls # << >> /\ Head(calls).outcome \in {"may throw", "throws"}
  /\ failed' = TRUE
  /\ calls' = << >>
  /\ \/ pc' = "terminated" /\ functions' = << >>
     \/ /\ pc' = "unload"
        /\ functions' = IF pc = "load" THEN <<"DestroyLocals", "DestroyMembers">>
                                       ELSE <<"DestroyDrawCube", "DestroyMembers">>
  /\ UNCHANGED <<machine, live, held>>

\* exit(EXIT_FAILURE) runs no destructors of objects on the heap.
Exit ==
  /\ calls # << >> /\ Head(calls).outcome = "exits"
  /\ pc' = "exited" /\ calls' = << >> /\ functions' = << >>
  /\ UNCHANGED <<machine, live, held, failed>>

\* The constructor returns, and DrawCube::Create.
Loaded ==
  /\ pc = "load" /\ Idle
  /\ pc' = "loop"
  /\ UNCHANGED <<machine, functions, calls, live, held, failed>>

\* p_os_window_ is null.
Closed == held["os_window"] = Null

\* Mutant: a closed window goes on.
RunsOn == TRUE

\* What DrawCube::Run returns: VulkanWindow::Update.
Run == ~ Closed

InLoop == pc = "loop" /\ Idle

\* An event or a frame, which may end with the swapchain out of date.
Go ==
  /\ InLoop /\ Run
  /\ functions' \in {Frame, Frame \o ReloadSwapchain, ReloadSwapchain, <<"UpdateUniformBuffers">>}
  /\ UNCHANGED <<machine, pc, calls, live, held, failed>>

\* The user closes the window, or ESC does: Input::Window::Close from a callback of GLFW.
Close ==
  /\ InLoop /\ ~ Closed
  /\ live' = live \ Held({"os_window"})
  /\ held' = [held EXCEPT !["os_window"] = Null]
  /\ UNCHANGED <<machine, pc, functions, calls, failed>>

\* Stop, and the last reference to the application goes.
Stop ==
  /\ InLoop /\ ~ Run
  /\ pc' = "unload"
  /\ functions' = <<"WaitIdle", "DestroyDrawCube", "DestroyMembers">>
  /\ UNCHANGED <<machine, calls, live, held, failed>>

Destroyed ==
  /\ pc = "unload" /\ Idle
  /\ pc' = "gone"
  /\ UNCHANGED <<machine, functions, calls, live, held, failed>>

MainThread == Enter \/ Return \/ Throw \/ Exit \/ Loaded \/ Go \/ Stop \/ Destroyed

Next == MainThread \/ Close

Spec == Init /\ [][Next]_vars /\ WF_vars(MainThread)

-----------------------------------------------------------------------------
(* Properties.                                                             *)

\* Every handle passed to Vulkan is that of an object that exists, whatever was reloaded
\* before and wherever an exception struck: nothing is used after it was destroyed, and
\* nothing destroyed twice.
CallsLive ==
  calls # << >> => Head(calls).uses \cup Head(calls).frees \subseteq live

\* In the frame loop there is exactly what the members hold, so a reload leaks nothing;
\* nothing is missing; and the framebuffers are those of the images and of the render pass.
Complete ==
  LET loaded == Kinds \ ((IF machine.debug THEN {} ELSE {"debug_callback"}) \cup
                         (IF Closed THEN {"os_window"} ELSE {}))
  IN  InLoop => /\ live = {held[k] : k \in loaded}
                /\ \A k \in Swapchain \cup {"framebuffers", "render_pass"} :
                     held[k][2] = held["swapchain"][2]

\* Until an exception, objects are created and destroyed in an order Vulkan allows: none
\* without the parents it is made from, and no parent before its children.
Tree == INSTANCE ObjectTree WITH
  abandoned   <- failed,
  Kind        <- LAMBDA o : o[1],
  Parents     <- ParentKinds,
  Allocations <- {"command_buffers", "descriptor_sets"}

ImplementsTree == Tree!Spec

\* What is picked from what the machine offers can be had of it: the family to present
\* with, memory, present mode and format.  The pick of the graphics family is not among
\* these (FamilyHasGraphics), nor is that a queue of the family to present with was
\* requested when the device was created.
ChoicesFit ==
  PresentationFits(machine) /\ MemoryFits(machine) /\ ModeFits(machine) /\ FormatFits(machine)

\* A window that is closed ends the program, and leaves nothing behind, the debug report
\* callback included (vulkan_debugger.cpp:29).
CloseFreesAll == InLoop /\ Closed ~> (pc = "gone" /\ live = {}) \/ failed

\* vulkan_device.h:60-61: "The queue family index representing the queue family on the
\* physical device that has graphics capability".
FamilyHasGraphics ==
  InLoop /\ GraphicsFamilies(machine) # {}
    => InitializeGraphicsQueueIndex(machine) \in GraphicsFamilies(machine)
=============================================================================
