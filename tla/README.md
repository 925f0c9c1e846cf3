# Verification of GameEngine

TLA+ models of the networking, XMPP, input and rendering code of this repository,
checked with TLC, and theorems about all four proved with TLAPS. Source files are named
without their directory where that is unambiguous; `PROJECT.json` has the full paths.

1. [The system](#the-system)
2. [What is hard about it](#what-is-hard-about-it)
3. [The modules](#the-modules)
4. [The runs](#the-runs)
5. [Fairness](#fairness)
6. [The proofs](#the-proofs)
7. [What the checks found](#what-the-checks-found)
8. [What is not modelled](#what-is-not-modelled)
9. [Plan](#plan)

## The system

| Component | State it keeps | Operations | Talks to |
|---|---|---|---|
| `Libs/Networking`, client: `TCPClient`, `TCPSocket`, `HostResolver` | `is_connected_`, one `buffer_`, a kernel socket, operations pending in asio | `Connect`, `Disconnect`, `Write`; handlers of resolve, connect and read completions | the application, through five virtual callbacks; one `io_service` thread; the resolver thread; the kernel |
| `Libs/Networking`, server: `TCPServer`, `TCPServerConnection` | the connection being accepted, per connection a copy of the message queue and a buffer | `StartAccept`; handlers of accept and read completions | the same `io_service`; remote clients |
| `Libs/XMPP`: `XMPPClient`, `SASL` | `transaction_state_`, the text received so far, the mechanism | `OnConnect` and `OnRead`, both ending in `SASL::Update` | is a `TCPClient`; calls `Write` and `Disconnect` from inside its callbacks |
| `Libs/Input`: `Window`, `Handler` | a multimap from priority to weak handlers, the mouse map, the OS window | `Bind`, `Close`, the OS callbacks, `NotifyHandlers` | GLFW; handlers, which call back into the window while it iterates over them |
| `Libs/Graphics`: wrappers of instance, debugger, GPU, device, window, swapchain, render pass, uniform buffer | the Vulkan objects each owns; swapchain images and extent, the window's size; what was picked of the machine | load, choose, acquire, destroy | Vulkan, which runs on a GPU |
| `Applications/DrawCube` | every handle of the program, the frame loop, command buffer, semaphores | the 18 stages of `LoadGraphics`, `BeginRender`, `Draw`, `EndRender`, `ReloadSwapchain`, `Stop`, event handlers | all of `Graphics`; is a `Handler` |
| `Libs/Configuration` | a property tree | reading it, lookups, reading a shader file | files |
| `Libs/Logging`, `Libs/Utils`, demos, `ThirdParty/libb64` | none that others read | | |

Everything of ours runs on one thread per program, but none of it is sequential in the
sense that matters: the networking code is driven by completions that were queued before
the state they refer to changed, input handlers are called in the middle of an iteration
they may change, and the frame loop hands work to a GPU that executes it later.

What makes each part correct:

- **TCP client.** Each `Connect` ends once, in a callback. Nothing that an earlier
  connection read reaches the application. On a connection written to, what the peer sends gets
  through, in order and complete until the application writes again, and so does its
  close. The client never believes in a socket that is not open.
- **TCP server.** Each client is told the queue from the first message on, one message for
  each read, whatever the others do. Each connection has exactly one read outstanding,
  which is what keeps it alive. Accepting goes on. The greeting goes to whom it is for.
- **XMPP.** The handshake does not depend on how TCP cuts the server's text, chooses the
  strongest mechanism offered, and writes nothing out of turn.
- **Input.** Every handler bound before an event, and living when its turn comes, is told
  once, in the order of priority; an entry stays until its handler is dead; the iteration
  survives what callbacks do.
- **Rendering.** Nothing the GPU uses is destroyed or recorded over. Frames fit their
  framebuffers. A resize is followed, by whichever way it is noticed. Closing the window
  ends the program in order.
- **Vulkan objects.** Every handle passed to Vulkan is that of a living object, after any
  number of reloads and wherever an exception struck. Parents outlive their children. A
  reload leaks nothing, and closing the window frees everything. What is picked of the
  machine's families, memory types, modes and formats can be had of it.

## What is hard about it

`PROJECT.json` lists each hazard at its line. In short:

- *Completions outlive their cause.* `TCPSocket::Close` aborts reads whose handlers run
  later; only `is_connected_` tells them from reads of the next connection
  (`tcp_socket.cpp:48`).
- *One buffer, several reads.* `Write` starts a read and every read starts the next
  (`tcp_socket.cpp:51, 67`).
- *Objects kept alive by their operations.* A `TCPServerConnection` lives as long as its
  pending read does (`tcp_server_connection.cpp:50`).
- *A chain of callbacks is the only liveness there is*, for attempts to connect, accepts
  and reads.
- *Callbacks inside an iteration* may bind, release, close and delete
  (`os_window.cpp:171`).
- *Two sources for one size.* A resize event and the surface, in any order
  (`vulkan_swapchain.cpp:13`, `draw_cube.cpp:75`).
- *A semaphore handed out early*, before the wait for the frame that uses it
  (`draw_cube.cpp:491`).
- *An object half constructed.* `LoadGraphics` runs in the constructor and any stage may
  throw: `~DrawCube` does not run then, only the destructors of members
  (`draw_cube.cpp:120`).
- *A reload that makes the new before it destroys the old*, in an order of its own for
  swapchain, render pass and framebuffers (`draw_cube.cpp:691`).
- *Indices of two kinds in one type*: of a queue family and of a queue in it
  (`vulkan_device.cpp:92, 102`).

## The modules

| Module | Models | Extends |
|---|---|---|
| `TCPClient` | `tcp_client`, `tcp_socket`, `host_resolver`, with asio and the kernel as far as they show | |
| `TCPClientInv`, `TCPClientProofs`, `TCPClientPatient`, `TCPClientCounts` | inductive invariant; type correctness; safety of a patient application; how many reads, attempts and endings there are | `TCPClient` |
| `XMPPClient`, `XMPPClientProofs` | `xmpp_client`, `sasl` **on top of** `TCPClient`, which it implements | `TCPClient` |
| `MessageService` | what the server promises: the abstract specification | |
| `TCPServer`, `TCPServerInv`, `TCPServerProofs` | `tcp_server`, `tcp_server_connection`, implementing `MessageService` | |
| `InputWindow`, `InputWindowProofs` | `os_window`, `handler` with any handlers | |
| `RenderLoop`, `RenderLoopProofs` | `draw_cube`'s frame loop with `vulkan_swapchain`, `vulkan_window`, `vulkan_render_pass` and the two handlers of the program | |
| `GraphicsChoices` | what `vulkan_device`, `vulkan_gpu`, `vulkan_utils` and `vulkan_window` pick of a machine, what `provider` finds: operators | |
| `ObjectTree` | what Vulkan asks of whoever creates and destroys objects: the abstract specification | |
| `GraphicsObjects`, `GraphicsProofs` | everything `draw_cube` and the wrappers create and destroy, implementing `ObjectTree` | `GraphicsChoices` |
| `MC...` | applications, offers, priorities and machines for TLC | the module they are named for |

**TCPClient.** An `io_service` dispatches the completions in `queue` one after the other.
A handler and everything it calls is a stack of calls, `todo`, of which each step makes
the innermost: `ErrorHandler` is `<<"OnError", "Disconnect">>`, and `Disconnect` puts
`"OnDisconnect"` in front. That is what lets an application's callback call back into the
client half way through a handler, and the kernel, the peer and the resolver thread move
in between. `Overrides` gives for each callback the calls an override may make, so the
module covers any application. `Patient` says that the application calls `Connect` only
when nothing is connected or under way; nothing in the client makes it so, therefore both
are checked. Bytes are numbered chunks: what one receive returns. `buffer` is the one
`buffer_`, overwritten when a receive happens and copied when its handler runs.

**XMPPClient.** The same steps with the callbacks of `XMPPClient` in place of
`Callback("OnConnect")` and `Callback("OnRead")`, and a server whose text is a sequence of
tokens that its chunks cut anywhere. `BytesRead` says what `OnRead` is given when another
receive has come over the buffer: the length of its own chunk, so a part of the later one
or the later one followed by what is left of its own. `ExtractXML` follows
`sasl.cpp:129-145`, the unsigned subtraction included. `read_xml` throwing is `malformed`.

**TCPServer.** A handler of the server calls nothing of the application, so each is one
step. A connection object is the client it serves; `is_open` and `reading` say what asio
holds for it.

**InputWindow.** A map entry is a handler and a serial number, sorted by priority and then
by the number: `std::multimap` inserts at the end of equal keys. `it` is the iterator.
Application code runs when `pc` is not `"notify"`: between events, in a callback, or in the
destructor of a handler released during its callback, which runs after `++it`. `owners`
are the holders of the `shared_ptr` to the map.

**RenderLoop.** Four actors: the main thread (`pc` names the call of the frame loop it is
at), the operating system (resizes now, announces later), the GPU's queue, and the
presentation engine, which returns an image before it is ready and signals the semaphore
later. A size is one number for a width and a height; generations tell a swapchain from
the one it replaces. The wait of the code for an idle queue or device is taken to include
presents.

**GraphicsObjects.** A function of the code (`LoadSwapchain`, `~DrawCube`, ...) is a script:
the calls it makes to Vulkan, GLFW and the files, in the order of the code. A call says
which objects it is handed, which it makes and frees, which members hold them when it has
returned, and how it can end. The steps are the same for all: `Enter` a function, and then
each call does `Return`, `Throw` or, where an argument is missing, `Exit`. Locals and
members are kept apart, because that decides what an exception leaks: a handle is held
from its creation, what belongs to a wrapper from the wrapper's construction on. `Go`
takes any frame, event or reload, `Close` is the user's or ESC. Two objects of a kind,
numbered 0 and 1, live at once in a reload. `machine` is what the program was built as,
started with and runs on; it does not change. An exception nobody catches may or may not
unwind the stack, so both are steps of `Throw`.

**GraphicsChoices** has no state: each operator is a search of the code, and each property
compares it with what it is to find, for any machine. Loops over families, queues, memory
types and preferences are minima over sets.

## The runs

Counts are distinct states.

| Run | States | What it shows |
|---|---|---|
| `dialogue` | 39,900 | The clients of this repository (`tcp_client_demo`, `FakeTCPClient`, SASL): three `Connect`s, a reconnect from `OnDisconnect`, three chunks per connection. Every `Connect` ends exactly once; a client that believes it is connected has an open socket, and a write throws only when the peer has gone. The close of the peer is noticed, and each chunk handed over: `ChunksDelivered` asks for the chunk itself, not for a number of calls of `OnRead`, and excepts only a chunk that was overtaken by a later one after a second write. Without that exception TLC finds it violated, as `overlap` is. |
| `patient` | 324,980 | Any callback may write, write twice, disconnect, reconnect, and so may other handlers. The inductive invariant; no stale read; a connection with one writer reads in order; the number of reads in flight is the number of writes, for ever. |
| `impatient` | 101,063 | The same application without patience. Each attempt still ends, and ends in a callback. |
| `overlap` | violation | A client that writes from `OnRead` loses a chunk. |
| `service` | 7,662 | Two clients, a queue of two messages and the default, two calls of `StartAccept`: refinement of `MessageService`, its inductive invariant, one read per connection, the right greeting, progress. |
| `handshake` | 92,751 | Three connections, text cut into up to four chunks at any token, three offers (nothing supported, the stronger announced last, a supported one after another): refinement of `TCPClient`; the strongest mechanism is chosen, what is written is in step with what was read, and each complete stanza is reacted to. |
| `dispatch` | 717,640 | Three handlers, two of one priority, four calls of `Bind` at any time, any release, close and delete: iterator, order, completeness and end of the dispatch. |
| `frames` | 475,308 | Two sizes and minimised, two images, three acts of the user, events late by any time: objects in use live, frames fit, resizes are followed, closing ends the program. |
| `objects` | 115,272 | 158 machines, any number of frames, reloads and drags, any call throws, the window is closed at any time: no call is handed an object that is not there (`CallsLive`), in the loop there is exactly what members hold (`Complete`), refinement of `ObjectTree`; presentation family, memory, mode and format fit; closing frees everything. |
| `ready`, `running`, `family` | violation | See the findings. |

*Bounds, and why they are enough.* Three connections: a completion of the first can meet
the third, and a reconnect can happen inside a reconnect. Three chunks: one in the buffer,
one over it and one after. Two writes in `patient` give two readers, the first number at
which they interfere. Two clients are the least that interleave, and a queue of two
messages is passed in its middle, at its end and beyond. Four bindings allow two for one
handler, one behind and one ahead of the iterator while a callback runs. Two images are
the least a swapchain has to alternate; two sizes and 0 have a resize there and back. All
bounds are constants in the guards; each model is finite without a state constraint.

`objects` has no counter to bound: scripts are finite and the loop returns to where it was.
Its machines are every way to start (release or debug, arguments or not, configuration
readable or not, a GPU or none, each file missing), all of one or two families with one or
two queues, graphics or not, presenting or not; all pairs of memory types that are
device-local, the host's (visible and coherent), both or neither, with any of them allowed;
all sets of present modes. Two families with two
queues are the least where the index of a queue can be mistaken for that of another family.
A property that speaks of one choice is thus checked against all values of what it reads,
not of what it does not read; the theorem `ChoicesAlwaysFit` is for all machines.

Deadlock is not checked: `io_service::run` returns when nothing is pending, and the
programs end. That things which must go on do go on is what the liveness properties say.

For each property of a passing run `PROJECT.json` names a mutant: a definition of the code
changed as a plausible mistake would change it, under which TLC finds the property violated.
They are the operators marked `Mutant` in the modules.

## Fairness

- The `io_service` thread takes the next completion from a FIFO queue and runs it to its
  end: strong fairness of the dispatched handlers and weak fairness of the calls they make.
  Strong, because a handler from elsewhere (`OutsideCall`) can come in between again and
  again, and each disables the dispatch for a while.
- The reactor posts what the kernel has ready. A lookup ends and a connection attempt is
  settled one way or another: both have timeouts in the system. Nothing is assumed of
  peers, clients, the user, or what the application calls.
- `RenderLoop`: the main thread goes on; the GPU executes what it was given; the engine
  signals an acquired image; GLFW hears of a resize in the end. A present of a surface
  that stays out of date is reported as such in the end (strong fairness of
  `EndRender /\ pc' = "reload"`): an implementation may report `VK_SUBOPTIMAL_KHR` late.
- `InputWindow`: callbacks and destructors return.
- `GraphicsObjects`: the main thread goes on (weak fairness of `MainThread`); the user need
  not close the window.

An exception that leaves `io_service::run` or the frame loop ends the program: `thrown`,
`malformed`, `Failed` and `failed` are excepted by name in the liveness properties.

## The proofs

About 11,700 proof obligations, for every value of the constants that the named assumptions
allow: any number of clients, handlers, messages, bindings, connections, chunks, images and
resizes, any overrides, any machines.

- `TCPClientProofs!TypeCorrect`, for any application.
- `TCPClientPatient`: with `Patient`, `PatientInv` is inductive together with `TypeOK`. Its parts:
  attempts do not overlap (`OneAttempt`) or overlap a live connection; somebody who will
  close it holds the socket (`SocketHeld`); dead reads find `is_connected_` false, *and no
  news of a connection is ahead of them in the queue* (`DeadReadsDrop`); one writer makes
  one reader (`SoleReader`), whose chunk stays in the buffer until it is copied
  (`BufferKept`). `NoStaleRead` alone is not inductive: it is true because of the order of
  the queue, which only the invariant mentions. From it follow `StaleReadsDropped` and
  `SoleWriterReads`.
- `TCPClientCounts`: what the client keeps count of without a counter. `Occurrences` is the
  number of places of a sequence that hold something; what `Tail`, `Append` and `\o` do to
  it is proved from the theorems on finite sets. These results rest on it or stand
  beside it.
  `ReadsMatchWrites`: with `Patient`, the reads in flight on an established connection are
  its writes; the invariant `ReadsPaid` counts reads that are pending, completed or about to
  be called, and says of a handler half way through that it owes one.
  `AttemptsEndInCallback`: for *any* application. `OpenBetween`: when, besides,
  `Disconnect` is called from callbacks only (`ClosesInCallbacks`); a handler from elsewhere
  could close the socket between the success and its handler, and the client would believe
  it open. `BelievesOnlyOpen` adds the writes: when `OnError` does not write
  (`NoWriteOnError`), only a peer that has gone makes one throw. It needs `FailureClosed`:
  `is_connected_` is true of a failed attempt from `TCPSocket::OnConnect` to the `Disconnect`
  of `ErrorHandler`, and nothing that is called in between writes (`AboutToClose`). `ConnectsEndOnce`: when no callback disconnects twice, or from `OnError`
  or `OnDisconnect` (`ClosesWhatItHas`); the invariant `Balanced` is the equation *connects =
  farewells + those about to be made + attempts + the live connection*.
- `TCPServerProofs`: `ServerInv` is inductive. The refinement of `MessageService` needs
  `CopyRemains` (a connection's copy of the queue is what it has not sent) and `Paid`
  (reads pay for messages); `AcceptHeld` is why `HandleAccept`, which is not told what was
  accepted, is right.
- `XMPPClientProofs`: each step of `XMPPClient` is a step of `TCPClient` with the overrides
  `XMPPOverrides`, or leaves it alone; so the theorems about clients hold of it:
  `XMPPReadsNothingStale`, `XMPPReadsInOrder`, `XMPPReadsMatchWrites`, and, SASL disconnecting
  from `OnRead` alone and once, `XMPPClosesOnce`. Of the handshake itself, for any offers and
  any cuts: `HandshakeInStep` and `ChoiceIsStrongest`, for the client as the demos deploy it
  (`Deployed`: patient, the overrides of `XMPPClient`, and from elsewhere `Connect` alone).
  The invariant `XInv` relates three things that the properties do not mention: the stack of
  calls and the state of SASL (a write comes after the step that asked for it), the text SASL
  has and the chunks handed to it (`text = Received(Heard)` after the first write),
  and the chunk about to be handed over with `buffer_`, which another receive may overwrite
  only after the second write, when the choice is made. The lemmas on text say where the
  server's tokens stand, and that each tag of the features stands once (`ScriptIs`,
  `TagsOnce`), so that what SASL extracts from any prefix that has their end is all of the
  features and nothing else (`FeaturesExtracted`, `FeaturesParsed`). `FeaturesParseWhole` says
  that `read_xml` does not throw before the challenge.
- `InputWindowProofs`: `DispatchInv` is inductive. It adds to the properties that entries
  are known by their number, that what was told is not ahead of the iterator
  (`ToldBehind`), and that the button stays as the event says. `FirstPrecedes` and
  `FollowingIsNext` prove that `begin()` and `++it` find the least entry, from the
  well-foundedness of the naturals.
- `RenderLoopProofs`: `RenderInv` is inductive together with `TypeOK`. It says where in the
  frame the main thread may be while something is pending: a submission is executed before
  a reload or a destructor goes on (`OneFrame`), a presented image is one that is queued
  (`Presented`), image, framebuffer and depth image are of one generation
  (`MadeForEachOther`), and a resize that one of the two handlers has heard of and the other
  has not is still in the event being dispatched (`ResizeHalfTold`, `SizesAgree`). `FramesFit`
  needs the last two: between the two handlers it is not the sizes that agree, but what each
  was told. From it `LoopTyped`, `NothingDestroyedInUse`, `DrawnToSize`, `DrawnOffScreen`.
- `GraphicsProofs`: `ChoicesAlwaysFit` for any number of families, queues, memory types and
  formats; it rests on the existence of a least index, from the well-foundedness of the
  naturals. `ObjectsTyped`: a script is a sequence of calls whatever is held when it is
  entered, so what is called is handed objects, and a member holds one of its kind or none.
  Everything else of `GraphicsObjects` that is of safety follows from `ObjectsInvariant`:
  `CallsAlwaysLive`, `AlwaysComplete`, `NothingIsLeft`, `TreeImplemented`, and from the last
  `NobodyOrphaned`, the invariant of `ObjectTree`.

How the invariant of the objects is built. Whether the next call is all right depends on
every call before it in its function and on every function before that, so `CallsLive` says
nothing that the next step could use. `OInv` looks ahead instead: the calls that are left
*lead* from the objects there are (`Now`) to a state `b`, and `Stage(b)`. To lead (`Leads`,
`Runs`) is to have a path, one state for each call, along which each is the return of the
call before (`After`) and each call is good (`Good`): what it is handed exists; if it may
throw, whatever members hold exists, which is all that the destructors run by an exception
rely on; and until an exception it takes one step of `ObjectTree`. `Stage` says what the
functions still to be called may expect of `b`:

- while loading, that of the 21 functions of the constructor the first *n* have loaded what
  they load (`Rank`), and nothing else exists;
- in the loop, that everything is held but a window that was closed, and that swapchain, render
  pass and framebuffers are of one generation, as far as the reload has come (`Agree`);
- on the way down, that what is held exists, or only what `~DrawCube` leaves to the members.

A path is a witness, so scripts need no induction: it loses its first state when a call
returns (`RunsRest`), and two are joined where scripts are (`RunsBoth`, `Then`). Each function
of the code has a lemma that gives the path of its script from any state it may be entered in
(`SwapchainLoads`, `WindowLoads`, `DrawCubeDestroyed`, `LocalsDestroyed`, ...); the states in
the middle are all of the form `Mid(P, Q, K)`: these kinds have been made, those freed, and
members hold the new objects of a third. An exception needs only that the call it strikes was
good, which is why one proof covers each of the places where one may strike. TLC
enumerates no paths, so no run names `OInv`; the run `objects` checks what follows from it.

*Only model-checked:* liveness with its fairness (`ChunksDelivered`, `CloseNoticed`,
`ConnectAnswered`, `ClientsGreeted`, `WritesAnswered`, `ConnectionsReleased`,
`ResizeFollowed`, `CloseStops`, `FeaturesAnswered`, `ChallengeTaken`, `DispatchEnds`,
`CloseFreesAll`): the refinements proved are of safety. Every invariant and every action
property that a passing run checks is also a theorem.

## What the checks found

Each is a run that is expected to be violated, and a finding in `PROJECT.json`:

- `overlap`: the reads of two writes share `buffer_`; a chunk is handed over twice and
  another never.
- `ready`: `BeginRender` acquires before it waits, with one semaphore for all images: a
  frame may start on the signal of another image.
- `running`: a surface out of date at `acquireNextImageKHR` is an exception, at present a
  reload.
- `family`: the index of a queue within its family is kept as the index of the family
  (`vulkan_device.cpp:92`). It is 0 unless no family has graphics: where the first family is
  not the one with graphics, device, queue and command pool are made for the wrong one.

Other behaviour that the models show and that a reader of the code may not expect:

- *Client.* A second `Connect` on an open socket fails, and its error path closes the live
  connection. A success already queued when `Disconnect` is called sets `is_connected_` on
  a closed socket, and the next `Write` throws. So does a `Write` from the `OnError` that
  tells of a failed attempt: `is_connected_` is still set. `Disconnect` does not cancel a
  lookup. A
  client that never writes never reads. A write after the peer's close throws out of
  `io_service::run`.
- *Server.* A failed accept ends accepting for good. A write that throws takes the whole
  server down. Writes of a client that arrive together get one answer. The comment at
  `tcp_server.cpp:19`, that one connection is held, is not what the code does: the next
  accept starts at once. The message at the head of the queue is sent on accept, before
  anything is read (compare `tcp_server_connection.h:39`).
- *XMPP.* A client that connects again finds SASL in the state of the last connection,
  writes nothing and so never reads. After the second write two reads share the buffer: a
  challenge that comes in pieces may be garbled, and `read_xml` then throws. Without a
  mechanism the client disconnects and goes on to a write, which is dropped. The challenge
  is decoded and discarded.
- *Input.* A handler that binds itself in each callback never lets the dispatch end.
  `Close` destroys the OS window inside a callback of that window. The map of handlers
  survives a handler that deletes the window, but the remaining handlers are called with a
  `p_window_` to it.
- *Rendering.* The aspect ratio of the projection is not updated by a reload, only by the
  next drag of the mouse. `UpdateUniformBuffers` may write while a frame reads. The comment
  at `draw_cube.cpp:217` has command buffers reloaded with the swapchain, which
  `ReloadSwapchain` does not do. A minimised window whose present fails is reloaded with
  extent 0. ESC destroys the OS window before its surface. A reused semaphore can also lose
  a signal (`lost`). Framebuffers have the size of the last resize event, images that of the
  surface: a resize in between makes framebuffers that do not fit their images.
- *Objects.* An exception in the constructor leaves `p_device_`, a plain pointer, and all
  that was made from it, while the instance is destroyed. A missing argument calls `exit`,
  after which no destructor runs. A surface outlives its OS window when the user closes it.
  A new swapchain is created from the old one, and both exist until it is complete.
- *Choices.* When the presentation family is not the graphics family, no queue of it was
  requested from `createDevice`. A failed search for the memory of the vertex buffer is only
  logged, and type 0 is used; the uniform buffer would use `UINT32_MAX`. The check of the
  fragment shader looks at the vertex shader (`draw_cube.cpp:544`): without the file an empty
  module is created. Whether an application lists a resource is not asked of the
  configuration. `surface_formats.front()` is taken of a vector that may be empty. A shader
  file whose size is no multiple of four is copied beyond the buffer (`provider.cpp:48`).

## What is not modelled

- The client object destroyed with operations pending; a reset that drops received data;
  `io_service::stop`; a second `StartAccept` while one is under way.
- XMPP: subclasses that override `OnDisconnect`; cuts inside a token beyond the time at
  which the token is complete; what is written.
- Input: several windows for one handler, `p_window_` of a handler never bound, a window
  that could not be created, key names, cursor position.
- Rendering: high-DPI sizes, everything about *what* is drawn and what goes into create
  infos, the names of layers and extensions, the text of debug messages.
  `CommandBufferManager` has no caller. The two views of rendering are separate: in
  `RenderLoop` loading succeeds and the GPU lags behind; in `GraphicsObjects` calls fail
  and the GPU is idle whenever something is destroyed, which `InUseAlive` of `RenderLoop`
  shows.
- Configuration: the text of the JSON and the bytes of a file; what a lookup returns and
  that reading may fail is in `GraphicsChoices` and `GraphicsObjects`.
- Logging and Utils keep no state that others read; libb64 is third-party code; demos and
  tests are the environment of the models.

## Plan

Done: every component with logic of its own, and proofs about each. What is left, in this
order:

1. `RenderLoop` in terms of `InputWindow`: its two handlers as an instance of any handlers,
   so that `NoneSkipped` and `TellsInOrder` stand behind `DispatchFramebufferResize`.
2. The handshake for an application that also calls `Disconnect` from elsewhere, which the
   theorems about it exclude (`Deployed`).
