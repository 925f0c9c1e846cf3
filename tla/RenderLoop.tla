----------------------------- MODULE RenderLoop -----------------------------
(***************************************************************************)
(* Applications/DrawCube on top of Libs/Graphics and Libs/Input: the frame *)
(* loop, the events dispatched to VulkanWindow and to DrawCube, and the    *)
(* swapchain that is reloaded under a GPU that may still use the old one.  *)
(*                                                                         *)
(* Four actors: the main thread; the operating system, which resizes the   *)
(* window and tells GLFW later; the GPU, whose one queue executes frames   *)
(* and presents; and the presentation engine, which returns an image first *)
(* and signals that it is ready later.                                     *)
(*                                                                         *)
(* A size stands for a width and a height of one aspect ratio: a larger    *)
(* number is larger in both, two numbers differ in their ratio, and 0 is a *)
(* minimised window.  What is drawn is left out.                           *)
(***************************************************************************)
EXTENDS Naturals, Sequences

CONSTANTS
  Sizes,           \* what the window may measure
  MinExtent,       \* surface capabilities: minImageExtent,
  MaxExtent,       \*   maxImageExtent,
  SurfaceDecides,  \*   and whether currentExtent is not 0xFFFFFFFF
  ImageCount,      \* images of a swapchain
  MaxInput         \* bound: resizes and inputs of the user

ASSUME SizesAssumption ==
  /\ Sizes \subseteq Nat \ {0}
  /\ MinExtent \in Sizes /\ MaxExtent \in Sizes
ASSUME CountsAssumption ==
  ImageCount \in Nat \ {0} /\ MaxInput \in Nat /\ SurfaceDecides \in BOOLEAN

VARIABLES
  \* the operating system
  surface,      \* size of the OS window now
  announced,    \* size of the last resize event
  events,       \* events GLFW has not been polled for
  input,        \* how often the user has acted
  \* Input::Window and VulkanWindow
  os_window,    \* p_os_window_ is not null
  cursor,       \* cursor mode
  button,       \* mouse_action_map_[kButton1]
  width,        \* width_ and height_ of VulkanWindow
  \* the main thread
  pc,           \* what the frame loop does next
  event, todo,  \* the event being dispatched and the handlers it has not reached
  \* the objects of DrawCube
  swapchain,    \* p_swapchain_: which one, swapchain_extent_, depth_image_
  images,       \* who holds each of its images
  current,      \* its current_frame_index_
  pass,         \* p_render_pass_
  framebuffers, \* framebuffers_: size, and the objects they were made for
  uniform,      \* the size whose aspect ratio the uniform buffer holds
  \* the GPU and the presentation engine
  frames,           \* submitted, not yet executed
  presents,         \* presented, not yet executed
  image_acquired,   \* image_acquired_semaphore_ is signalled
  render_finished,  \* render_finished_semaphore_ is signalled
  unready,          \* acquired images whose semaphore is still to be signalled
  lost              \* a signal reached a semaphore that was signalled already

os      == <<surface, announced, events, input>>
window  == <<os_window, cursor, button, width>>
thread  == <<pc, event, todo>>
objects == <<swapchain, pass, framebuffers>>
gpu     == <<frames, presents, render_finished>>
engine  == <<images, image_acquired, unready, lost>>
vars    == <<os, window, thread, objects, current, uniform, gpu, engine>>

Images      == 1..ImageCount
None        == 0          \* UINT32_MAX in the code: no image acquired yet
Generations == {0, 1}     \* tells an object from the one it replaces
Gone        == 2          \* the object is destroyed
Inputs      == {"close", "escape", "press", "release", "move"}
Event(type, size) == [type |-> type, size |-> size]
Events == [type : Inputs, size : {0}] \cup [type : {"resize"}, size : Sizes \cup {0}]

Points == {"poll", "notify", "acquire", "wait", "draw", "present", "reload", "stop",
           "destroy", "down", "thrown"}

TypeOK ==
  /\ surface \in Sizes \cup {0} /\ announced \in Sizes \cup {0}
  /\ events \in Seq(Events) /\ input \in 0..MaxInput
  /\ os_window \in BOOLEAN /\ cursor \in {"normal", "disabled"}
  /\ button \in {"pressed", "released"} /\ width \in Sizes
  /\ pc \in Points /\ event \in Events /\ todo \in Seq({"VulkanWindow", "DrawCube"})
  /\ swapchain \in [id : Generations \cup {Gone}, extent : Sizes, depth : Sizes]
  /\ images \in [Images -> {"free", "acquired", "queued", "shown"}]
  /\ current \in Images \cup {None}
  /\ pass \in Generations
  /\ framebuffers \in [size : Sizes, views : Generations, pass : Generations]
  /\ uniform \in Sizes
  /\ frames \in Seq([image : Images, swapchain : Generations])
  /\ presents \in Seq(Images)
  /\ {image_acquired, render_finished, lost} \subseteq BOOLEAN
  /\ unready \subseteq Images

-----------------------------------------------------------------------------
(* Loading.                                                                *)

\* VulkanSwapchain::InitializeSwapchainExtent.
InitializeSwapchainExtent(size) ==
  CASE SurfaceDecides                         -> surface
    [] ~ SurfaceDecides /\ size < MinExtent   -> MinExtent
    [] ~ SurfaceDecides /\ size > MaxExtent   -> MaxExtent
    [] OTHER                                  -> size

Other(generation) == 1 - generation

\* VulkanSwapchain::InitializeSwapchainImages: the application holds none of them yet.
InitializeSwapchainImages == [i \in Images |-> "free"]

\* VulkanSwapchain::InitializeDepthImage: the size of the window, not of the surface.
InitializeDepthImage == width

\* VulkanRenderPass::LoadRenderPass.
LoadRenderPass == pass' = Other(pass)

\* DrawCube::UpdateUniformBuffers.
UpdateUniformBuffers == uniform' = width

\* DrawCube::LoadFrameBuffers, for the render pass `of' and the images of `views'.
LoadFrameBuffers(views, of) ==
  framebuffers' = [size |-> width, views |-> views, pass |-> of]

\* DrawCube::LoadSwapchain with the constructor of VulkanSwapchain and the destructor of
\* the one it replaces.
LoadSwapchain ==
  /\ swapchain' = [id     |-> Other(swapchain.id),
                   extent |-> InitializeSwapchainExtent(width),
                   depth  |-> InitializeDepthImage]
  /\ images' = InitializeSwapchainImages
  /\ current' = None
  /\ image_acquired' = FALSE
  /\ unready' = {}

\* vkDeviceWaitIdle, and vkQueueWaitIdle of the one queue: block until everything
\* submitted has executed.
WaitIdle == frames = << >> /\ presents = << >>

\* Mutant: the device is not waited for.
ReloadSwapchainAtOnce(next) ==
  /\ InitializeSwapchainExtent(width) # 0
  /\ pc' = next
  /\ LoadSwapchain
  /\ LoadRenderPass
  /\ LoadFrameBuffers(swapchain'.id, pass')
  /\ UNCHANGED <<gpu, lost>>

\* DrawCube::ReloadSwapchain.  Vulkan knows no empty swapchain: createSwapchainKHR throws.
ReloadSwapchain(next) ==
  /\ WaitIdle
  /\ IF InitializeSwapchainExtent(width) = 0
     THEN /\ pc' = "thrown"
          /\ UNCHANGED <<objects, current, images, image_acquired, unready>>
     ELSE /\ pc' = next
          /\ LoadSwapchain
          /\ LoadRenderPass
          /\ LoadFrameBuffers(swapchain'.id, pass')
  /\ UNCHANGED <<gpu, lost>>

\* The state DrawCube::Create leaves behind: everything loaded, both handlers bound.
Init ==
  /\ surface \in Sizes /\ announced = surface /\ events = << >> /\ input = 0
  /\ os_window = TRUE /\ cursor = "normal" /\ button = "released" /\ width = surface
  /\ pc = "poll" /\ event = Event("move", 0) /\ todo = << >>
  /\ swapchain = [id |-> 0, extent |-> InitializeSwapchainExtent(width), depth |-> width]
  /\ images = InitializeSwapchainImages /\ current = None
  /\ pass = 0 /\ framebuffers = [size |-> width, views |-> 0, pass |-> 0]
  /\ uniform = width
  /\ frames = << >> /\ presents = << >> /\ unready = {}
  /\ image_acquired = FALSE /\ render_finished = FALSE /\ lost = FALSE

-----------------------------------------------------------------------------
(* The operating system and the user.                                      *)

\* The window is resized, minimised or restored.
Resize(size) ==
  /\ os_window /\ input < MaxInput
  /\ size # surface
  /\ surface' = size
  /\ input' = input + 1
  /\ UNCHANGED <<announced, events, window, thread, objects, current, uniform, gpu, engine>>

\* The resize event reaches the queue that glfwPollEvents drains.
Announce ==
  /\ os_window
  /\ announced # surface
  /\ announced' = surface
  /\ events' = Append(events, Event("resize", surface))
  /\ UNCHANGED <<surface, input, window, thread, objects, current, uniform, gpu, engine>>

\* The user closes the window, releases ESC, moves the mouse, or presses or releases
\* its first button.
Act(type) ==
  /\ os_window /\ input < MaxInput
  /\ input' = input + 1
  /\ events' = Append(events, Event(type, 0))
  /\ UNCHANGED <<surface, announced, window, thread, objects, current, uniform, gpu, engine>>

-----------------------------------------------------------------------------
(* Events.                                                                 *)

\* Window::Close: glfwDestroyWindow drops the events that are left.
Close ==
  /\ os_window' = FALSE
  /\ events' = << >>

\* Mutant: the priorities the other way round.
HandlersReversed == <<"DrawCube", "VulkanWindow">>

\* The handlers the window holds, by priority: 0 for VulkanWindow, 1 for DrawCube.
Handlers == <<"VulkanWindow", "DrawCube">>

\* Mutant: a minimised window's size is a size.
IgnoresNothing(e) == FALSE

\* OSFramebufferResizeCallback returns early.
Ignored(e) == e.type = "resize" /\ e.size = 0

\* The OS callbacks of Window, up to NotifyHandlers.
Dispatch ==
  /\ pc = "poll" /\ events # << >>
  /\ event' = Head(events)
  /\ \/ /\ event'.type = "close"
        /\ Close
        /\ UNCHANGED <<pc, todo, button>>
     \/ /\ event'.type # "close"
        /\ events' = Tail(events)
        /\ button' = CASE event'.type = "press"   -> "pressed"
                       [] event'.type = "release" -> "released"
                       [] OTHER                   -> button
        /\ IF Ignored(event')
           THEN UNCHANGED <<pc, todo>>
           ELSE pc' = "notify" /\ todo' = Handlers
        /\ UNCHANGED os_window
  /\ UNCHANGED <<surface, announced, input, cursor, width, objects, current, uniform, gpu, engine>>

\* NotifyHandlers goes on to the next handler, or back to glfwPollEvents.
AfterHandler == IF Len(todo) = 1 THEN "poll" ELSE "notify"

Notified(handler) ==
  /\ pc = "notify" /\ Head(todo) = handler
  /\ todo' = Tail(todo)

\* VulkanWindow::OnFramebufferResize; its other handlers log.
NotifyVulkanWindow ==
  /\ Notified("VulkanWindow")
  /\ pc' = AfterHandler
  /\ width' = IF event.type = "resize" THEN event.size ELSE width
  /\ UNCHANGED <<os, os_window, cursor, button, event, objects, current, uniform, gpu, engine>>

\* Mutant: left to the present that finds the swapchain out of date.
OnFramebufferResizeLogs ==
  /\ pc' = AfterHandler
  /\ UNCHANGED <<objects, current, gpu, engine>>

OnFramebufferResize == ReloadSwapchain(AfterHandler)

\* DrawCube::OnFramebufferResize.
NotifyResize ==
  /\ Notified("DrawCube") /\ event.type = "resize"
  /\ OnFramebufferResize
  /\ UNCHANGED <<os, window, event, uniform>>

\* DrawCube::OnKeyRelease: ESC frees the cursor, or else closes the window.
OnKeyRelease ==
  \/ /\ cursor = "disabled"
     /\ cursor' = "normal"
     /\ UNCHANGED <<events, os_window>>
  \/ /\ cursor = "normal"
     /\ Close
     /\ UNCHANGED cursor

NotifyEscape ==
  /\ Notified("DrawCube") /\ event.type = "escape"
  /\ OnKeyRelease
  /\ pc' = AfterHandler
  /\ UNCHANGED <<surface, announced, input, button, width, event, objects, current, uniform,
                 gpu, engine>>

\* DrawCube::OnMousePress, OnMousePositionUpdate and the logging OnMouseRelease.
NotifyMouse ==
  /\ Notified("DrawCube") /\ event.type \in {"press", "release", "move"}
  /\ pc' = AfterHandler
  /\ cursor' = IF event.type = "press" THEN "disabled" ELSE cursor
  /\ IF event.type = "move" /\ cursor = "disabled" /\ button = "pressed"
     THEN UpdateUniformBuffers
     ELSE UNCHANGED uniform
  /\ UNCHANGED <<os, os_window, button, width, event, objects, current, gpu, engine>>

\* Mutant: a closed window goes on.
RunsOn == TRUE

\* What Window::Update and DrawCube::Run return.
Run == os_window

\* Window::Update, when no event is left.
Update ==
  /\ pc = "poll" /\ events = << >>
  /\ pc' = IF Run THEN "acquire" ELSE "stop"
  /\ UNCHANGED <<os, window, event, todo, objects, current, uniform, gpu, engine>>

-----------------------------------------------------------------------------
(* A frame.                                                                *)

\* A surface that no longer has the size of its swapchain may be out of date.
Stale == SurfaceDecides /\ surface # swapchain.extent

\* Mutant: the first index acquired is kept.
AcquiredOnce(i) == current' = IF current = None THEN i ELSE current

Acquired(i) == current' = i

\* DrawCube::BeginRender, VulkanSwapchain::AcquireNextImage: blocks until an image is
\* free; in the enhanced mode of vulkan.hpp an error is an exception.
AcquireNextImage ==
  /\ pc = "acquire"
  /\ \/ \E i \in Images :
          /\ images[i] = "free"
          /\ images' = [images EXCEPT ![i] = "acquired"]
          /\ unready' = unready \cup {i}
          /\ Acquired(i)
          /\ pc' = "wait"
     \/ /\ Stale
        /\ pc' = "thrown"
        /\ UNCHANGED <<current, images, unready>>
  /\ UNCHANGED <<os, window, event, todo, objects, uniform, gpu, image_acquired, lost>>

\* DrawCube::BeginRender, the rest.
BeginRender ==
  /\ pc = "wait"
  /\ WaitIdle
  /\ pc' = "draw"
  /\ UNCHANGED <<os, window, event, todo, objects, current, uniform, gpu, engine>>

\* DrawCube::Draw: records the one command buffer and submits it.
Draw ==
  /\ pc = "draw"
  /\ frames' = Append(frames, [image |-> current, swapchain |-> swapchain.id])
  /\ pc' = "present"
  /\ UNCHANGED <<os, window, event, todo, objects, current, uniform, presents, render_finished,
                 engine>>

\* DrawCube::EndRender.  A present that fails for being out of date still waits for its
\* semaphore.
EndRender ==
  /\ pc = "present"
  /\ presents' = Append(presents, current)
  /\ images' = [images EXCEPT ![current] = "queued"]
  /\ \/ pc' = "poll"
     \/ Stale /\ pc' = "reload"
  /\ UNCHANGED <<os, window, event, todo, objects, current, uniform, frames, render_finished,
                 image_acquired, unready, lost>>

EndRenderReload ==
  /\ pc = "reload"
  /\ ReloadSwapchain("poll")
  /\ UNCHANGED <<os, window, event, todo, uniform>>

\* DrawCube::Stop.
Stop ==
  /\ pc = "stop"
  /\ WaitIdle
  /\ pc' = "destroy"
  /\ UNCHANGED <<os, window, event, todo, objects, current, uniform, gpu, engine>>

\* DrawCube::~DrawCube: everything goes, nothing waits.
Destroy ==
  /\ pc = "destroy"
  /\ swapchain' = [swapchain EXCEPT !.id = Gone]
  /\ pc' = "down"
  /\ UNCHANGED <<os, window, event, todo, current, pass, framebuffers, uniform, gpu, engine>>

-----------------------------------------------------------------------------
(* The GPU and the presentation engine.                                    *)

\* The oldest frame waits for image_acquired_semaphore_, executes, and signals
\* render_finished_semaphore_.
ExecuteFrame ==
  /\ frames # << >>
  /\ image_acquired
  /\ image_acquired' = FALSE
  /\ render_finished' = TRUE
  /\ frames' = Tail(frames)
  /\ UNCHANGED <<os, window, thread, objects, current, uniform, presents, images, unready, lost>>

\* The oldest present waits for render_finished_semaphore_; the image shown before is free.
ExecutePresent ==
  /\ presents # << >>
  /\ render_finished
  /\ render_finished' = FALSE
  /\ presents' = Tail(presents)
  /\ images' = [i \in Images |-> CASE i = Head(presents)   -> "shown"
                                   [] images[i] = "shown"  -> "free"
                                   [] OTHER                -> images[i]]
  /\ UNCHANGED <<os, window, thread, objects, current, uniform, frames, image_acquired, unready,
                 lost>>

\* The engine has stopped reading image i.  The semaphore is one for all images: a signal
\* that finds it signalled adds nothing.
SignalImage(i) ==
  /\ i \in unready
  /\ unready' = unready \ {i}
  /\ image_acquired' = TRUE
  /\ lost' = (lost \/ image_acquired)
  /\ UNCHANGED <<os, window, thread, objects, current, uniform, gpu, images>>

User == (\E size \in Sizes \cup {0} : Resize(size)) \/ (\E type \in Inputs : Act(type))

MainThread ==
  \/ Dispatch \/ NotifyVulkanWindow \/ NotifyResize \/ NotifyEscape \/ NotifyMouse \/ Update
  \/ AcquireNextImage \/ BeginRender \/ Draw \/ EndRender \/ EndRenderReload
  \/ Stop \/ Destroy

Next ==
  \/ User
  \/ Announce
  \/ MainThread
  \/ ExecuteFrame \/ ExecutePresent \/ \E i \in Images : SignalImage(i)

\* The user owes nothing; everybody else goes on when they can, and a surface that stays
\* stale is reported by a present sooner or later.
Fairness ==
  /\ WF_vars(Announce)
  /\ WF_vars(MainThread) /\ SF_vars(EndRender /\ pc' = "reload")
  /\ WF_vars(ExecuteFrame) /\ WF_vars(ExecutePresent)
  /\ \A i \in Images : WF_vars(SignalImage(i))

Spec == Init /\ [][Next]_vars /\ Fairness

-----------------------------------------------------------------------------
(* Properties.                                                             *)

\* What the GPU has been given is never destroyed under it, by a reload or by
\* ~DrawCube, and the one command buffer is not recorded again before it has executed:
\* the waits are in BeginRender, ReloadSwapchain and Stop, and nowhere else.
InUseAlive ==
  /\ \A i \in DOMAIN frames : frames[i].swapchain = swapchain.id
  /\ swapchain.id = Gone => presents = << >>
  /\ pc = "draw" => /\ frames = << >>
                    /\ framebuffers.views = swapchain.id
                    /\ framebuffers.pass = pass

\* Draw takes its render area, its viewport and its scissor from a reference to the
\* window's size, which an event changes before DrawCube hears of it: by the time it
\* draws, the framebuffer and the depth image have that size too.
FramesFit == pc = "draw" => framebuffers.size = width /\ swapchain.depth = width

\* No frame is drawn into the image on the screen, or into one that is not acquired.
DrawsOffScreen ==
  \A i \in DOMAIN frames : images[frames[i].image] \in {"acquired", "queued"}

Failed == pc = "thrown" \/ lost

\* A window that keeps its size is drawn at that size from some point on, whichever of
\* the event and the failing present noticed the last resize first.
ResizeFollowed ==
  \A size \in Sizes :
    <>[](surface = size /\ os_window /\ ~ Failed)
      => <>[](width = size /\ framebuffers.size = size
                /\ (SurfaceDecides => swapchain.extent = size))

\* Closing the window ends the program, after what the GPU had to do.
CloseStops == ~ os_window ~> pc = "down" \/ Failed

\* draw_cube.cpp:478, of image_acquired_semaphore_: "This forces a wait until the image is
\* ready before drawing".
DrawsWhenReady ==
  [][frames # << >> /\ frames' = Tail(frames) => Head(frames).image \notin unready]_vars

\* draw_cube.cpp:505: "We always want the swapchain to be in an optimal state": a resize
\* reloads it and does not end the program.
KeepsRunning == pc # "thrown"
=============================================================================
