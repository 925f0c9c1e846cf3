--------------------------- MODULE RenderLoopProofs ---------------------------
(***************************************************************************)
(* The safety of the frame loop, for windows and surfaces of any sizes,    *)
(* any number of images and any number of resizes and inputs: an inductive *)
(* invariant, and the four invariants of RenderLoop from it.               *)
(***************************************************************************)
EXTENDS RenderLoop, SequenceTheorems, TLAPS

\* A dispatch has both handlers to go or only DrawCube, and no minimised window's size.
Dispatching ==
  pc = "notify" => todo \in {Handlers, <<"DrawCube">>} /\ ~ Ignored(event)

\* From its acquisition to its present, the image is the application's.
HoldsImage ==
  pc \in {"wait", "draw", "present"} => current \in Images /\ images[current] = "acquired"

\* Everything made for a swapchain is replaced with it.
MadeForEachOther ==
  /\ swapchain.id = Gone <=> pc = "down"
  /\ pc # "down" => framebuffers.views = swapchain.id /\ framebuffers.pass = pass

\* A resize VulkanWindow has heard of and DrawCube has not.
ResizeHalfTold ==
  pc = "notify" /\ todo = <<"DrawCube">> /\ event.type = "resize"

\* Outside of that, sizes agree.
SizesAgree ==
  pc \notin {"thrown", "down"} /\ ~ ResizeHalfTold
    => framebuffers.size = width /\ swapchain.depth = width

\* One frame at a time: its present comes after it, and has executed before the next.
OneFrame ==
  /\ frames # << >> => Len(frames) = 1 /\ ~ render_finished
  /\ presents # << >> => Len(presents) = 1
  /\ pc = "present" => presents = << >>
  /\ pc # "present" /\ presents = << >> => frames = << >> /\ ~ render_finished
  /\ pc \in {"draw", "destroy", "down"} => WaitIdle

\* What is presented belongs to the presentation engine.
Presented == \A i \in DOMAIN presents : images[presents[i]] = "queued"

\* What is drawn was made with the swapchain there is, and off screen.
Drawn ==
  \A i \in DOMAIN frames :
    /\ frames[i].swapchain = swapchain.id
    /\ images[frames[i].image] \in {"acquired", "queued"}

RenderInv ==
  /\ Dispatching
  /\ HoldsImage
  /\ MadeForEachOther
  /\ SizesAgree
  /\ OneFrame
  /\ Presented
  /\ Drawn

-----------------------------------------------------------------------------
(* Types.                                                                  *)

\* A swapchain that is made measures what the window may measure.
LEMMA ExtentTyped ==
  ASSUME NEW size \in Sizes, surface \in Sizes \cup {0}, InitializeSwapchainExtent(size) # 0
  PROVE  InitializeSwapchainExtent(size) \in Sizes
BY SizesAssumption, CountsAssumption DEF InitializeSwapchainExtent

\* The types of what a reload replaces.
ReplacedTypes ==
  /\ swapchain \in [id : Generations \cup {Gone}, extent : Sizes, depth : Sizes]
  /\ images \in [Images -> {"free", "acquired", "queued", "shown"}]
  /\ current \in Images \cup {None}
  /\ pass \in Generations
  /\ framebuffers \in [size : Sizes, views : Generations, pass : Generations]
  /\ image_acquired \in BOOLEAN
  /\ unready \subseteq Images

\* A reload keeps to the types.
LEMMA ReloadTyped ==
  ASSUME TypeOK, swapchain.id # Gone, NEW next \in Points, ReloadSwapchain(next),
         UNCHANGED <<os, width>>
  PROVE  /\ pc' \in Points
         /\ ReplacedTypes'
         /\ UNCHANGED <<frames, presents, render_finished, lost>>
<1>0. UNCHANGED <<frames, presents, render_finished, lost>>
  BY DEF ReloadSwapchain, gpu
<1>1. CASE InitializeSwapchainExtent(width) = 0
  <2>1. pc' = "thrown" /\ UNCHANGED <<objects, current, images, image_acquired, unready>>
    BY <1>1 DEF ReloadSwapchain
  <2> QED
    BY <1>0, <2>1 DEF objects, ReplacedTypes, TypeOK, Points
<1>2. CASE InitializeSwapchainExtent(width) # 0
  <2>1. pc' = next /\ LoadSwapchain /\ LoadRenderPass /\ LoadFrameBuffers(swapchain'.id, pass')
    BY <1>2 DEF ReloadSwapchain
  <2>2. InitializeSwapchainExtent(width) \in Sizes
    BY <1>2, ExtentTyped DEF TypeOK
  <2>3. Other(swapchain.id) \in Generations /\ Other(pass) \in Generations
    BY DEF TypeOK, Other, Generations, Gone
  <2>4. swapchain' = [id |-> Other(swapchain.id), extent |-> InitializeSwapchainExtent(width),
                      depth |-> width]
    BY <2>1 DEF LoadSwapchain, InitializeDepthImage
  <2>5. pass' = Other(pass)
    BY <2>1 DEF LoadRenderPass
  <2>6. framebuffers' = [size |-> width, views |-> Other(swapchain.id), pass |-> Other(pass)]
    BY <2>1, <2>4, <2>5 DEF LoadFrameBuffers
  <2>7. /\ images' = [i \in Images |-> "free"] /\ current' = None
        /\ image_acquired' = FALSE /\ unready' = {}
    BY <2>1 DEF LoadSwapchain, InitializeSwapchainImages
  <2>8. width \in Sizes
    BY DEF TypeOK
  <2> QED
    BY <1>0, <2>1, <2>2, <2>3, <2>4, <2>5, <2>6, <2>7, <2>8 DEF ReplacedTypes
<1> QED
  BY <1>1, <1>2

\* The queue of events takes every event.
LEMMA EventsTyped ==
  /\ \A type \in Inputs : Event(type, 0) \in Events
  /\ \A size \in Sizes \cup {0} : Event("resize", size) \in Events
BY DEF Event, Events

\* An action keeps to the types.
LEMMA TypeStep ==
  ASSUME TypeOK, Dispatching, HoldsImage, MadeForEachOther, [Next]_vars
  PROVE  TypeOK'
<1> USE SizesAssumption, CountsAssumption
<1>1. ASSUME NEW size \in Sizes \cup {0}, Resize(size)
      PROVE  TypeOK'
  BY <1>1 DEF Resize, TypeOK, window, thread, objects, gpu, engine
<1>2. ASSUME Announce PROVE TypeOK'
  <2>1. events' \in Seq(Events)
    BY <1>2, EventsTyped, AppendProperties DEF Announce, TypeOK
  <2> QED
    BY <1>2, <2>1 DEF Announce, TypeOK, window, thread, objects, gpu, engine
<1>3. ASSUME NEW type \in Inputs, Act(type)
      PROVE  TypeOK'
  <2>1. events' \in Seq(Events)
    BY <1>3, EventsTyped, AppendProperties DEF Act, TypeOK
  <2> QED
    BY <1>3, <2>1 DEF Act, TypeOK, window, thread, objects, gpu, engine
<1>4. ASSUME Dispatch PROVE TypeOK'
  <2>1. event' \in Events /\ Tail(events) \in Seq(Events) /\ << >> \in Seq(Events)
    BY <1>4, HeadTailProperties, EmptySeq DEF Dispatch, TypeOK
  <2>2. events' \in Seq(Events) /\ os_window' \in BOOLEAN
    BY <1>4, <2>1 DEF Dispatch, Close, TypeOK
  <2>3. Handlers \in Seq({"VulkanWindow", "DrawCube"})
    BY DEF Handlers
  <2>4. pc' \in Points /\ todo' \in Seq({"VulkanWindow", "DrawCube"})
    BY <1>4, <2>3 DEF Dispatch, TypeOK, Points
  <2>5. button' \in {"pressed", "released"}
    BY <1>4 DEF Dispatch, TypeOK
  <2> QED
    BY <1>4, <2>1, <2>2, <2>4, <2>5 DEF Dispatch, TypeOK, objects, gpu, engine
<1>5. ASSUME NEW handler, Notified(handler)
      PROVE  /\ todo' \in Seq({"VulkanWindow", "DrawCube"})
             /\ AfterHandler \in Points /\ swapchain.id # Gone
             /\ event.type = "resize" => event.size \in Sizes
  <2>1. todo # << >>
    BY <1>5 DEF Notified, Dispatching, Handlers
  <2>2. todo' \in Seq({"VulkanWindow", "DrawCube"})
    BY <1>5, <2>1, HeadTailProperties DEF Notified, TypeOK
  <2>3. swapchain.id # Gone
    BY <1>5 DEF Notified, MadeForEachOther
  <2>4. event.type = "resize" => event.size \in Sizes
    BY <1>5 DEF Notified, Dispatching, Ignored, TypeOK, Events, Inputs
  <2> QED
    BY <2>2, <2>3, <2>4 DEF AfterHandler, Points
<1>6. ASSUME NotifyVulkanWindow PROVE TypeOK'
  BY <1>5, <1>6 DEF NotifyVulkanWindow, TypeOK, os, objects, gpu, engine
<1>7. ASSUME NotifyResize PROVE TypeOK'
  <2>1. ReloadSwapchain(AfterHandler) /\ UNCHANGED <<os, window, event, uniform>>
    BY <1>7 DEF NotifyResize, OnFramebufferResize
  <2>2. todo' \in Seq({"VulkanWindow", "DrawCube"}) /\ AfterHandler \in Points
        /\ swapchain.id # Gone
    BY <1>5, <1>7 DEF NotifyResize
  <2>3. /\ pc' \in Points /\ ReplacedTypes'
        /\ UNCHANGED <<frames, presents, render_finished, lost>>
    BY <2>1, <2>2, ReloadTyped DEF window
  <2>4. UNCHANGED <<surface, announced, events, input, os_window, cursor, button, width, event,
                    uniform>>
    BY <2>1 DEF os, window
  <2> QED
    BY <2>2, <2>3, <2>4 DEF ReplacedTypes, TypeOK
<1>8. ASSUME NotifyEscape PROVE TypeOK'
  <2>1. todo' \in Seq({"VulkanWindow", "DrawCube"}) /\ AfterHandler \in Points
    BY <1>5, <1>8 DEF NotifyEscape
  <2>2. events' \in Seq(Events) /\ os_window' \in BOOLEAN /\ cursor' \in {"normal", "disabled"}
    <3>1. << >> \in Seq(Events)
      BY EmptySeq
    <3>2. events' = << >> \/ events' = events
      BY <1>8 DEF NotifyEscape, OnKeyRelease, Close
    <3>3. os_window' = FALSE \/ os_window' = os_window
      BY <1>8 DEF NotifyEscape, OnKeyRelease, Close
    <3>4. cursor' = "normal" \/ cursor' = cursor
      BY <1>8 DEF NotifyEscape, OnKeyRelease, Close
    <3> QED
      BY <3>1, <3>2, <3>3, <3>4 DEF TypeOK
  <2> QED
    BY <1>8, <2>1, <2>2 DEF NotifyEscape, TypeOK, objects, gpu, engine
<1>9. ASSUME NotifyMouse PROVE TypeOK'
  BY <1>5, <1>9 DEF NotifyMouse, UpdateUniformBuffers, TypeOK, os, objects, gpu, engine
<1>10. ASSUME Update PROVE TypeOK'
  BY <1>10 DEF Update, TypeOK, Points, os, window, objects, gpu, engine
<1>11. ASSUME AcquireNextImage PROVE TypeOK'
  <2>1. images' \in [Images -> {"free", "acquired", "queued", "shown"}]
        /\ unready' \subseteq Images /\ current' \in Images \cup {None} /\ pc' \in Points
    BY <1>11 DEF AcquireNextImage, Acquired, TypeOK, Points
  <2> QED
    BY <1>11, <2>1 DEF AcquireNextImage, TypeOK, os, window, objects, gpu
<1>12. ASSUME BeginRender PROVE TypeOK'
  BY <1>12 DEF BeginRender, TypeOK, Points, os, window, objects, gpu, engine
<1>13. ASSUME Draw PROVE TypeOK'
  <2>1. [image |-> current, swapchain |-> swapchain.id]
           \in [image : Images, swapchain : Generations]
    BY <1>13 DEF Draw, HoldsImage, MadeForEachOther, TypeOK
  <2>2. frames' \in Seq([image : Images, swapchain : Generations])
    BY <1>13, <2>1, AppendProperties DEF Draw, TypeOK
  <2> QED
    BY <1>13, <2>2 DEF Draw, TypeOK, Points, os, window, objects, engine
<1>14. ASSUME EndRender PROVE TypeOK'
  <2>1. presents' \in Seq(Images)
    BY <1>14, AppendProperties DEF EndRender, HoldsImage, TypeOK
  <2>2. images' \in [Images -> {"free", "acquired", "queued", "shown"}]
    BY <1>14 DEF EndRender, TypeOK
  <2> QED
    BY <1>14, <2>1, <2>2 DEF EndRender, TypeOK, Points, os, window, objects
<1>15. ASSUME EndRenderReload PROVE TypeOK'
  <2>1. ReloadSwapchain("poll") /\ UNCHANGED <<os, window, event, todo, uniform>>
    BY <1>15 DEF EndRenderReload
  <2>2. swapchain.id # Gone /\ "poll" \in Points
    BY <1>15 DEF EndRenderReload, MadeForEachOther, Points
  <2>3. /\ pc' \in Points /\ ReplacedTypes'
        /\ UNCHANGED <<frames, presents, render_finished, lost>>
    BY <2>1, <2>2, ReloadTyped DEF window
  <2> QED
    BY <2>1, <2>2, <2>3 DEF ReplacedTypes, TypeOK, os, window
<1>16. ASSUME Stop PROVE TypeOK'
  BY <1>16 DEF Stop, TypeOK, Points, os, window, objects, gpu, engine
<1>17. ASSUME Destroy PROVE TypeOK'
  BY <1>17 DEF Destroy, TypeOK, Points, os, window, gpu, engine
<1>18. ASSUME ExecuteFrame PROVE TypeOK'
  <2>1. frames' \in Seq([image : Images, swapchain : Generations])
    BY <1>18, HeadTailProperties DEF ExecuteFrame, TypeOK
  <2> QED
    BY <1>18, <2>1 DEF ExecuteFrame, TypeOK, os, window, thread, objects
<1>19. ASSUME ExecutePresent PROVE TypeOK'
  <2>1. presents' \in Seq(Images)
    BY <1>19, HeadTailProperties DEF ExecutePresent, TypeOK
  <2>2. images' \in [Images -> {"free", "acquired", "queued", "shown"}]
    BY <1>19 DEF ExecutePresent, TypeOK
  <2> QED
    BY <1>19, <2>1, <2>2 DEF ExecutePresent, TypeOK, os, window, thread, objects
<1>20. ASSUME NEW i \in Images, SignalImage(i)
       PROVE  TypeOK'
  BY <1>20 DEF SignalImage, TypeOK, os, window, thread, objects, gpu
<1>21. ASSUME UNCHANGED vars PROVE TypeOK'
  BY <1>21 DEF TypeOK, vars, os, window, thread, objects, gpu, engine
<1> QED
  BY <1>1, <1>2, <1>3, <1>4, <1>6, <1>7, <1>8, <1>9, <1>10, <1>11, <1>12, <1>13, <1>14, <1>15,
     <1>16, <1>17, <1>18, <1>19, <1>20, <1>21 DEF Next, User, MainThread

-----------------------------------------------------------------------------
(* The invariant.                                                          *)

\* What a reload makes, it makes for each other, and of the window's size; and it waits.
LEMMA Reloads ==
  ASSUME TypeOK, MadeForEachOther, swapchain.id # Gone, NEW next, ReloadSwapchain(next)
  PROVE  /\ frames = << >> /\ presents = << >>
         /\ UNCHANGED <<frames, presents, render_finished>>
         /\ pc' \in {next, "thrown"}
         /\ swapchain'.id # Gone
         /\ framebuffers'.views = swapchain'.id /\ framebuffers'.pass = pass'
         /\ pc' # "thrown" => framebuffers'.size = width /\ swapchain'.depth = width
<1>0. frames = << >> /\ presents = << >> /\ UNCHANGED <<frames, presents, render_finished>>
  BY DEF ReloadSwapchain, WaitIdle, gpu
<1>1. CASE InitializeSwapchainExtent(width) = 0
  <2>1. pc' = "thrown" /\ UNCHANGED objects
    BY <1>1 DEF ReloadSwapchain
  <2>2. pc # "down"
    BY DEF MadeForEachOther
  <2> QED
    BY <1>0, <2>1, <2>2 DEF objects, MadeForEachOther
<1>2. CASE InitializeSwapchainExtent(width) # 0
  <2>1. pc' = next /\ LoadSwapchain /\ LoadRenderPass /\ LoadFrameBuffers(swapchain'.id, pass')
    BY <1>2 DEF ReloadSwapchain
  <2>2. swapchain'.id = Other(swapchain.id) /\ swapchain'.depth = width
    BY <2>1 DEF LoadSwapchain, InitializeDepthImage
  <2>3. swapchain'.id # Gone
    BY <2>2 DEF TypeOK, Other, Generations, Gone
  <2>4. /\ framebuffers'.size = width /\ framebuffers'.views = swapchain'.id
        /\ framebuffers'.pass = pass'
    BY <2>1 DEF LoadFrameBuffers
  <2> QED
    BY <1>0, <2>1, <2>2, <2>3, <2>4
<1> QED
  BY <1>1, <1>2

\* A frame is of an image.
LEMMA FrameOfImage ==
  ASSUME TypeOK, NEW k \in DOMAIN frames
  PROVE  frames[k].image \in Images
<1> DEFINE F == [image : Images, swapchain : Generations]
<1>1. frames \in Seq(F)
  BY DEF TypeOK
<1>2. k \in 1..Len(frames)
  BY <1>1, LenProperties
<1>3. frames[k] \in F
  <2> HIDE DEF F
  <2> QED
    BY <1>1, <1>2, ElementOfSeq
<1> QED
  BY <1>3

\* Nothing is left of a queue of one.
LEMMA TailOfOne ==
  ASSUME NEW S, NEW s \in Seq(S), Len(s) = 1
  PROVE  Tail(s) = << >>
<1>1. s # << >>
  BY EmptySeq
<1>2. Tail(s) \in Seq(S) /\ Len(Tail(s)) = 0
  BY <1>1, HeadTailProperties
<1> QED
  BY <1>2, EmptySeq

\* An action of nobody's the invariant is about.
LEMMA InvUntouched ==
  ASSUME RenderInv,
         UNCHANGED <<pc, event, todo, width, objects, current, images, frames, presents,
                     render_finished>>
  PROVE  RenderInv'
BY DEF RenderInv, Dispatching, HoldsImage, MadeForEachOther, ResizeHalfTold, SizesAgree, OneFrame,
       Presented, Drawn, WaitIdle, Ignored, Handlers, objects

\* A step of the main thread that touches neither what is drawn with nor the GPU.
LEMMA InvThread ==
  ASSUME RenderInv, Dispatching',
         UNCHANGED <<objects, current, images, frames, presents, render_finished>>,
         pc \notin {"present", "down"}, pc' \notin {"draw", "present", "down"},
         pc' = "wait" => pc = "wait",
         pc' = "destroy" => WaitIdle,
         pc' # "thrown" /\ ~ ResizeHalfTold' => ~ ResizeHalfTold /\ pc # "thrown" /\ width' = width
  PROVE  RenderInv'
<1>1. HoldsImage' /\ MadeForEachOther'
  BY DEF RenderInv, HoldsImage, MadeForEachOther, objects
<1>2. SizesAgree'
  BY DEF RenderInv, SizesAgree, objects
<1>3. OneFrame'
  BY DEF RenderInv, OneFrame, WaitIdle
<1>4. Presented' /\ Drawn'
  BY DEF RenderInv, Presented, Drawn, objects
<1> QED
  BY <1>1, <1>2, <1>3, <1>4 DEF RenderInv

\* A step that ends with a reload, or with the exception of one.
LEMMA InvReload ==
  ASSUME TypeOK, RenderInv, pc \in {"notify", "reload"}, NEW next \in {"poll", "notify"},
         ReloadSwapchain(next), width' = width, Dispatching', ~ ResizeHalfTold'
  PROVE  RenderInv'
<1>0. MadeForEachOther /\ swapchain.id # Gone
  BY DEF RenderInv, MadeForEachOther
<1>1. /\ frames = << >> /\ presents = << >>
      /\ UNCHANGED <<frames, presents, render_finished>>
      /\ pc' \in {next, "thrown"}
      /\ swapchain'.id # Gone
      /\ framebuffers'.views = swapchain'.id /\ framebuffers'.pass = pass'
      /\ pc' # "thrown" => framebuffers'.size = width /\ swapchain'.depth = width
  BY <1>0, Reloads
<1>2. HoldsImage' /\ MadeForEachOther'
  BY <1>1 DEF HoldsImage, MadeForEachOther
<1>3. SizesAgree'
  BY <1>1 DEF SizesAgree
<1>4. OneFrame'
  BY <1>1 DEF RenderInv, OneFrame
<1>5. Presented' /\ Drawn'
  BY <1>1 DEF Presented, Drawn
<1> QED
  BY <1>2, <1>3, <1>4, <1>5 DEF RenderInv

\* Every action preserves the invariant.
LEMMA InvStep ==
  ASSUME TypeOK, RenderInv, [Next]_vars
  PROVE  RenderInv'
<1> USE SizesAssumption, CountsAssumption
<1>1. ASSUME NEW size, Resize(size) PROVE RenderInv'
  BY <1>1, InvUntouched DEF Resize, window, thread, gpu, engine
<1>2. ASSUME Announce PROVE RenderInv'
  BY <1>2, InvUntouched DEF Announce, window, thread, gpu, engine
<1>3. ASSUME NEW type, Act(type) PROVE RenderInv'
  BY <1>3, InvUntouched DEF Act, window, thread, gpu, engine
<1>4. ASSUME Dispatch PROVE RenderInv'
  <2>1. /\ UNCHANGED <<objects, current, images, frames, presents, render_finished, width>>
        /\ pc = "poll" /\ pc' \in {"poll", "notify"}
    BY <1>4 DEF Dispatch, gpu, engine
  <2>2. pc' = "notify" => ~ Ignored(event') /\ todo' = Handlers
    BY <1>4 DEF Dispatch
  <2>3. Dispatching'
    BY <2>2 DEF Dispatching, Ignored, Handlers
  <2>4. ~ ResizeHalfTold /\ ~ ResizeHalfTold'
    BY <2>1, <2>2 DEF ResizeHalfTold, Handlers
  <2> QED
    BY <2>1, <2>3, <2>4, InvThread
<1>5. ASSUME NEW handler, Notified(handler)
      PROVE  /\ pc = "notify" /\ ~ Ignored(event)
             /\ handler = "VulkanWindow" =>
                  todo = Handlers /\ todo' = <<"DrawCube">> /\ AfterHandler = "notify"
             /\ handler = "DrawCube" =>
                  todo = <<"DrawCube">> /\ AfterHandler = "poll"
  <2>1. pc = "notify" /\ Head(todo) = handler /\ todo' = Tail(todo)
    BY <1>5 DEF Notified
  <2>2. ~ Ignored(event) /\ (todo = <<"VulkanWindow", "DrawCube">> \/ todo = <<"DrawCube">>)
    BY <2>1 DEF RenderInv, Dispatching, Handlers
  <2>3. CASE todo = <<"VulkanWindow", "DrawCube">>
    BY <2>1, <2>2, <2>3 DEF AfterHandler, Handlers
  <2>4. CASE todo = <<"DrawCube">>
    BY <2>1, <2>2, <2>4 DEF AfterHandler, Handlers
  <2> QED
    BY <2>2, <2>3, <2>4
<1>6. ASSUME NotifyVulkanWindow PROVE RenderInv'
  <2>1. /\ UNCHANGED <<objects, current, images, frames, presents, render_finished, event>>
        /\ pc = "notify" /\ pc' = "notify" /\ todo = Handlers /\ todo' = <<"DrawCube">>
        /\ event.type # "resize" => width' = width
        /\ ~ Ignored(event)
    BY <1>5, <1>6 DEF NotifyVulkanWindow, gpu, engine
  <2>2. Dispatching'
    BY <2>1 DEF Dispatching, Ignored
  <2>3. ~ ResizeHalfTold
    BY <2>1 DEF ResizeHalfTold, Handlers
  <2>4. ~ ResizeHalfTold' => width' = width
    BY <2>1 DEF ResizeHalfTold
  <2> QED
    BY <2>1, <2>2, <2>3, <2>4, InvThread
<1>7. ASSUME NotifyResize PROVE RenderInv'
  <2>1. /\ ReloadSwapchain("poll") /\ pc = "notify" /\ width' = width
    BY <1>5, <1>7 DEF NotifyResize, OnFramebufferResize, window
  <2>2. pc' # "notify"
    BY <2>1 DEF ReloadSwapchain
  <2>3. Dispatching' /\ ~ ResizeHalfTold'
    BY <2>2 DEF Dispatching, ResizeHalfTold
  <2> QED
    BY <2>1, <2>3, InvReload
<1>8. ASSUME NotifyEscape PROVE RenderInv'
  <2>1. /\ UNCHANGED <<objects, current, images, frames, presents, render_finished, width>>
        /\ pc = "notify" /\ pc' = "poll" /\ event.type = "escape"
    BY <1>5, <1>8 DEF NotifyEscape, gpu, engine
  <2>2. Dispatching' /\ ~ ResizeHalfTold'
    BY <2>1 DEF Dispatching, ResizeHalfTold
  <2>3. ~ ResizeHalfTold
    BY <2>1 DEF ResizeHalfTold
  <2> QED
    BY <2>1, <2>2, <2>3, InvThread
<1>9. ASSUME NotifyMouse PROVE RenderInv'
  <2>1. /\ UNCHANGED <<objects, current, images, frames, presents, render_finished, width>>
        /\ pc = "notify" /\ pc' = "poll" /\ event.type # "resize"
    BY <1>5, <1>9 DEF NotifyMouse, gpu, engine
  <2>2. Dispatching' /\ ~ ResizeHalfTold'
    BY <2>1 DEF Dispatching, ResizeHalfTold
  <2>3. ~ ResizeHalfTold
    BY <2>1 DEF ResizeHalfTold
  <2> QED
    BY <2>1, <2>2, <2>3, InvThread
<1>10. ASSUME Update PROVE RenderInv'
  <2>1. /\ UNCHANGED <<objects, current, images, frames, presents, render_finished, width>>
        /\ pc = "poll" /\ pc' \in {"acquire", "stop"}
    BY <1>10 DEF Update, window, gpu, engine
  <2>2. Dispatching' /\ ~ ResizeHalfTold' /\ ~ ResizeHalfTold
    BY <2>1 DEF Dispatching, ResizeHalfTold
  <2> QED
    BY <2>1, <2>2, InvThread
<1>11. ASSUME AcquireNextImage PROVE RenderInv'
  <2>1. /\ UNCHANGED <<objects, frames, presents, render_finished, width>>
        /\ pc = "acquire"
    BY <1>11 DEF AcquireNextImage, window, gpu
  <2>2. CASE pc' = "thrown"
    <3>1. UNCHANGED <<current, images>>
      BY <1>11, <2>2 DEF AcquireNextImage
    <3>2. Dispatching' /\ ~ ResizeHalfTold
      BY <2>1, <2>2 DEF Dispatching, ResizeHalfTold
    <3> QED
      BY <2>1, <2>2, <3>1, <3>2, InvThread
  <2>3. CASE pc' # "thrown"
    <3>1. PICK i \in Images : /\ images[i] = "free" /\ current' = i /\ pc' = "wait"
                              /\ images' = [images EXCEPT ![i] = "acquired"]
      BY <1>11, <2>3 DEF AcquireNextImage, Acquired
    <3>2. images'[i] = "acquired" /\ \A j \in Images : j # i => images'[j] = images[j]
      BY <3>1 DEF TypeOK
    <3>3. Dispatching' /\ HoldsImage' /\ MadeForEachOther'
      BY <2>1, <3>1, <3>2 DEF RenderInv, Dispatching, HoldsImage, MadeForEachOther, objects
    <3>4. SizesAgree' /\ OneFrame'
      BY <2>1, <3>1 DEF RenderInv, SizesAgree, ResizeHalfTold, OneFrame, objects
    <3>5. Presented'
      <4>1. \A k \in DOMAIN presents : presents[k] \in Images /\ presents[k] # i
        BY <3>1, ElementOfSeq DEF RenderInv, Presented, TypeOK
      <4> QED
        BY <2>1, <3>2, <4>1 DEF RenderInv, Presented
    <3>6. Drawn'
      <4>1. \A k \in DOMAIN frames : frames[k].image \in Images
        BY FrameOfImage
      <4> QED
        BY <2>1, <3>2, <4>1 DEF RenderInv, Drawn, objects
    <3> QED
      BY <3>3, <3>4, <3>5, <3>6 DEF RenderInv
  <2> QED
    BY <2>2, <2>3
<1>12. ASSUME BeginRender PROVE RenderInv'
  <2>1. /\ UNCHANGED <<objects, current, images, frames, presents, render_finished, width>>
        /\ pc = "wait" /\ pc' = "draw" /\ frames = << >> /\ presents = << >>
    BY <1>12 DEF BeginRender, WaitIdle, window, gpu, engine
  <2>2. Dispatching' /\ HoldsImage' /\ MadeForEachOther'
    BY <2>1 DEF RenderInv, Dispatching, HoldsImage, MadeForEachOther, objects
  <2>3. SizesAgree' /\ OneFrame'
    BY <2>1 DEF RenderInv, SizesAgree, ResizeHalfTold, OneFrame, WaitIdle, objects
  <2>4. Presented' /\ Drawn'
    BY <2>1 DEF Presented, Drawn
  <2> QED
    BY <2>2, <2>3, <2>4 DEF RenderInv
<1>13. ASSUME Draw PROVE RenderInv'
  <2>1. /\ UNCHANGED <<objects, current, images, presents, render_finished, width>>
        /\ pc = "draw" /\ pc' = "present"
        /\ frames' = Append(frames, [image |-> current, swapchain |-> swapchain.id])
    BY <1>13 DEF Draw, window, engine
  <2>2. frames = << >> /\ presents = << >> /\ ~ render_finished
    BY <2>1 DEF RenderInv, OneFrame, WaitIdle
  <2>3. frames' = <<[image |-> current, swapchain |-> swapchain.id]>>
    BY <2>1, <2>2
  <2>4. Dispatching' /\ HoldsImage' /\ MadeForEachOther'
    BY <2>1 DEF RenderInv, Dispatching, HoldsImage, MadeForEachOther, objects
  <2>5. SizesAgree' /\ OneFrame'
    BY <2>1, <2>2, <2>3 DEF RenderInv, SizesAgree, ResizeHalfTold, OneFrame, objects
  <2>6. Presented'
    BY <2>1, <2>2 DEF Presented
  <2>7. Drawn'
    BY <2>1, <2>3 DEF RenderInv, HoldsImage, Drawn, objects
  <2> QED
    BY <2>4, <2>5, <2>6, <2>7 DEF RenderInv
<1>14. ASSUME EndRender PROVE RenderInv'
  <2>1. /\ UNCHANGED <<objects, current, frames, render_finished, width>>
        /\ pc = "present" /\ pc' \in {"poll", "reload"}
        /\ presents' = Append(presents, current)
        /\ images' = [images EXCEPT ![current] = "queued"]
    BY <1>14 DEF EndRender, window
  <2>2. presents = << >> /\ current \in Images
    BY <2>1 DEF RenderInv, OneFrame, HoldsImage
  <2>3. presents' = <<current>>
    BY <2>1, <2>2
  <2>4. images'[current] = "queued" /\ \A j \in Images : j # current => images'[j] = images[j]
    BY <2>1, <2>2 DEF TypeOK
  <2>5. Dispatching' /\ HoldsImage' /\ MadeForEachOther'
    BY <2>1 DEF RenderInv, Dispatching, HoldsImage, MadeForEachOther, objects
  <2>6. SizesAgree' /\ OneFrame'
    BY <2>1, <2>3 DEF RenderInv, SizesAgree, ResizeHalfTold, OneFrame, objects
  <2>7. Presented'
    BY <2>1, <2>3, <2>4 DEF Presented
  <2>8. Drawn'
    <3>1. \A k \in DOMAIN frames : frames[k].image \in Images
      BY FrameOfImage
    <3> QED
      BY <2>1, <2>4, <3>1 DEF RenderInv, Drawn, objects
  <2> QED
    BY <2>5, <2>6, <2>7, <2>8 DEF RenderInv
<1>15. ASSUME EndRenderReload PROVE RenderInv'
  <2>1. ReloadSwapchain("poll") /\ pc = "reload" /\ width' = width
    BY <1>15 DEF EndRenderReload, window
  <2>2. pc' # "notify"
    BY <2>1 DEF ReloadSwapchain
  <2>3. Dispatching' /\ ~ ResizeHalfTold'
    BY <2>2 DEF Dispatching, ResizeHalfTold
  <2> QED
    BY <2>1, <2>3, InvReload
<1>16. ASSUME Stop PROVE RenderInv'
  <2>1. /\ UNCHANGED <<objects, current, images, frames, presents, render_finished, width>>
        /\ pc = "stop" /\ pc' = "destroy" /\ WaitIdle
    BY <1>16 DEF Stop, window, gpu, engine
  <2>2. Dispatching' /\ ~ ResizeHalfTold' /\ ~ ResizeHalfTold
    BY <2>1 DEF Dispatching, ResizeHalfTold
  <2> QED
    BY <2>1, <2>2, InvThread
<1>17. ASSUME Destroy PROVE RenderInv'
  <2>1. /\ UNCHANGED <<frames, presents, render_finished>>
        /\ pc = "destroy" /\ pc' = "down" /\ swapchain'.id = Gone
    BY <1>17 DEF Destroy, gpu, TypeOK
  <2>2. frames = << >> /\ presents = << >>
    BY <2>1 DEF RenderInv, OneFrame, WaitIdle
  <2>3. Dispatching' /\ HoldsImage' /\ MadeForEachOther' /\ SizesAgree'
    BY <2>1 DEF Dispatching, HoldsImage, MadeForEachOther, SizesAgree
  <2>4. OneFrame'
    BY <2>1, <2>2 DEF RenderInv, OneFrame, WaitIdle
  <2>5. Presented' /\ Drawn'
    BY <2>1, <2>2 DEF Presented, Drawn
  <2> QED
    BY <2>3, <2>4, <2>5 DEF RenderInv
<1>18. ASSUME ExecuteFrame PROVE RenderInv'
  <2>1. /\ UNCHANGED <<pc, event, todo, width, objects, current, images, presents>>
        /\ frames # << >> /\ frames' = Tail(frames) /\ render_finished' = TRUE
    BY <1>18 DEF ExecuteFrame, window, thread
  <2>2. Len(frames) = 1
    BY <2>1 DEF RenderInv, OneFrame
  <2>3. frames' = << >>
    BY <2>1, <2>2, TailOfOne DEF TypeOK
  <2>4. Dispatching' /\ HoldsImage' /\ MadeForEachOther' /\ SizesAgree'
    BY <2>1 DEF RenderInv, Dispatching, HoldsImage, MadeForEachOther, SizesAgree, ResizeHalfTold,
                Ignored, Handlers, objects
  <2>5. OneFrame'
    BY <2>1, <2>3 DEF RenderInv, OneFrame, WaitIdle
  <2>6. Presented' /\ Drawn'
    BY <2>1, <2>3 DEF RenderInv, Presented, Drawn
  <2> QED
    BY <2>4, <2>5, <2>6 DEF RenderInv
<1>19. ASSUME ExecutePresent PROVE RenderInv'
  <2>1. /\ UNCHANGED <<pc, event, todo, width, objects, current, frames>>
        /\ presents # << >> /\ presents' = Tail(presents)
        /\ render_finished /\ render_finished' = FALSE
        /\ images' = [i \in Images |-> CASE i = Head(presents)   -> "shown"
                                          [] images[i] = "shown"  -> "free"
                                          [] OTHER                -> images[i]]
    BY <1>19 DEF ExecutePresent, window, thread
  <2>2. Len(presents) = 1 /\ frames = << >>
    BY <2>1 DEF RenderInv, OneFrame
  <2>3. presents' = << >>
    BY <2>1, <2>2, TailOfOne DEF TypeOK
  <2>4. images[Head(presents)] = "queued"
    BY <2>1, <2>2 DEF RenderInv, Presented, TypeOK
  <2>5. HoldsImage'
    BY <2>1, <2>4 DEF RenderInv, HoldsImage
  <2>6. Dispatching' /\ MadeForEachOther' /\ SizesAgree'
    BY <2>1 DEF RenderInv, Dispatching, MadeForEachOther, SizesAgree, ResizeHalfTold,
                Ignored, Handlers, objects
  <2>7. OneFrame'
    BY <2>1, <2>2, <2>3 DEF RenderInv, OneFrame, WaitIdle
  <2>8. Presented' /\ Drawn'
    BY <2>1, <2>2, <2>3 DEF Presented, Drawn
  <2> QED
    BY <2>5, <2>6, <2>7, <2>8 DEF RenderInv
<1>20. ASSUME NEW i, SignalImage(i) PROVE RenderInv'
  BY <1>20, InvUntouched DEF SignalImage, window, thread, gpu
<1>21. ASSUME UNCHANGED vars PROVE RenderInv'
  BY <1>21, InvUntouched DEF vars, window, thread, gpu, engine
<1> QED
  BY <1>1, <1>2, <1>3, <1>4, <1>6, <1>7, <1>8, <1>9, <1>10, <1>11, <1>12, <1>13, <1>14, <1>15,
     <1>16, <1>17, <1>18, <1>19, <1>20, <1>21 DEF Next, User, MainThread

-----------------------------------------------------------------------------
(* The theorems.                                                           *)

\* The state DrawCube::Create leaves behind satisfies both.
LEMMA InitInv == Init => TypeOK /\ RenderInv
<1> SUFFICES ASSUME Init PROVE TypeOK /\ RenderInv
  OBVIOUS
<1> USE SizesAssumption, CountsAssumption
<1>1. surface \in Sizes /\ 0 \notin Sizes /\ width = surface
  BY DEF Init
<1>2. InitializeSwapchainExtent(width) \in Sizes
  BY <1>1 DEF InitializeSwapchainExtent
<1>3. TypeOK
  <2>1. /\ events \in Seq(Events) /\ todo \in Seq({"VulkanWindow", "DrawCube"})
        /\ frames \in Seq([image : Images, swapchain : Generations])
        /\ presents \in Seq(Images)
    BY EmptySeq DEF Init
  <2>2. event \in Events
    BY EventsTyped DEF Init, Inputs
  <2>3. swapchain \in [id : Generations \cup {Gone}, extent : Sizes, depth : Sizes]
    BY <1>1, <1>2 DEF Init, Generations
  <2>4. framebuffers \in [size : Sizes, views : Generations, pass : Generations]
    BY <1>1 DEF Init, Generations
  <2>5. images \in [Images -> {"free", "acquired", "queued", "shown"}]
    BY DEF Init, InitializeSwapchainImages
  <2> QED
    <3>1. /\ surface \in Sizes /\ announced \in Sizes /\ input \in 0..MaxInput
          /\ width \in Sizes /\ uniform \in Sizes
      BY <1>1 DEF Init
    <3>2. /\ os_window \in BOOLEAN /\ cursor \in {"normal", "disabled"}
          /\ button \in {"pressed", "released"} /\ pc \in Points
          /\ current = None /\ pass \in Generations /\ unready = {}
          /\ {image_acquired, render_finished, lost} \subseteq BOOLEAN
      BY DEF Init, Points, Generations
    <3> QED
      BY <2>1, <2>2, <2>3, <2>4, <2>5, <3>1, <3>2 DEF TypeOK
<1>4. RenderInv
  BY DEF Init, RenderInv, Dispatching, HoldsImage, MadeForEachOther, SizesAgree, OneFrame,
         Presented, Drawn, Gone
<1> QED
  BY <1>3, <1>4

\* What follows holds in every state the frame loop reaches.
THEOREM RenderInvariant == Spec => [](TypeOK /\ RenderInv)
<1>1. TypeOK /\ RenderInv /\ [Next]_vars => (TypeOK /\ RenderInv)'
  BY TypeStep, InvStep DEF RenderInv
<1> QED
  BY InitInv, <1>1, PTL DEF Spec

\* Every variable of the frame loop keeps to its type: nothing is ever made of the size 0 of a
\* minimised window, nor drawn into an image that was not acquired.
THEOREM LoopTyped == Spec => []TypeOK
BY RenderInvariant, PTL

\* Neither a reload nor ~DrawCube destroys what the GPU was given (draw_cube.cpp:75, 120),
\* and the command buffer is not recorded while it executes.
THEOREM NothingDestroyedInUse == Spec => []InUseAlive
<1>1. TypeOK /\ RenderInv => InUseAlive
  BY DEF RenderInv, MadeForEachOther, OneFrame, Drawn, InUseAlive, WaitIdle
<1> QED
  BY <1>1, RenderInvariant, PTL

\* What is drawn has the size of the framebuffer it is drawn into (draw_cube.cpp:377).
THEOREM DrawnToSize == Spec => []FramesFit
<1>1. TypeOK /\ RenderInv => FramesFit
  BY DEF RenderInv, SizesAgree, ResizeHalfTold, FramesFit
<1> QED
  BY <1>1, RenderInvariant, PTL

\* No frame is drawn into an image the presentation engine shows or was given back.
THEOREM DrawnOffScreen == Spec => []DrawsOffScreen
<1>1. TypeOK /\ RenderInv => DrawsOffScreen
  BY DEF RenderInv, Drawn, DrawsOffScreen
<1> QED
  BY <1>1, RenderInvariant, PTL
=============================================================================
