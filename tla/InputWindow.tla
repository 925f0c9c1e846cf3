----------------------------- MODULE InputWindow -----------------------------
(***************************************************************************)
(* Libs/Input: a Window, the handlers bound to it, and NotifyHandlers,     *)
(* which tells them of an event one after the other.                       *)
(*                                                                         *)
(* There is one thread, but the application runs inside the iteration: a   *)
(* callback, or the destructor of a handler that was released during its   *)
(* callback, may bind and release handlers, close the window and delete    *)
(* it.  The window holds its handlers weakly and forgets a dead one only   *)
(* when an iteration comes across it.                                      *)
(***************************************************************************)
EXTENDS Naturals

CONSTANTS
  Handlers,
  Priority,   \* a lower number is told first
  MaxBinds    \* bound: calls to Bind

ASSUME PriorityAssumption == Priority \in [Handlers -> Nat]
ASSUME BindsAssumption    == MaxBinds \in Nat

VARIABLES
  window,     \* the Window: "open" while p_os_window_ is not null
  button,     \* mouse_action_map_[kButton1]
  bindings,   \* the entries of *p_handlers_
  owners,     \* who holds a shared_ptr to that map
  held,       \* handlers the application holds a shared_ptr to
  binds,      \* how often Bind was called
  \* NotifyHandlers
  pc, event, it,
  \* history: the entries that were ever made, those told of this event, and the last
  \* one made before it
  made, told, mark

dispatch == <<pc, event, it, told, mark>>
vars     == <<window, button, bindings, owners, held, binds, made, dispatch>>

Entry  == [handler : Handlers, id : 1..MaxBinds]  \* of the multimap, by order of Bind
End    == [id |-> 0]                              \* p_handlers->end()
Events == {"press", "release", "other"}

TypeOK ==
  /\ window \in {"none", "open", "closed", "deleted"}
  /\ button \in {"pressed", "released"}
  /\ made \subseteq Entry /\ \A b \in made : b.id <= binds
  /\ bindings \subseteq made
  /\ held \subseteq Handlers
  /\ binds \in 0..MaxBinds /\ mark \in 0..binds
  /\ pc \in {"idle", "notify", "calling", "destructor"}
  /\ event \in Events \cup {"none"}
  /\ it \in Entry \cup {End} /\ it.id <= binds
  /\ told \subseteq made
  /\ owners = (IF window \in {"open", "closed"} THEN {"window"} ELSE {})
                \cup (IF pc = "idle" THEN {} ELSE {"dispatch"})

Init ==
  /\ window = "none"
  /\ button = "released"
  /\ bindings = {} /\ owners = {}
  /\ held = Handlers
  /\ binds = 0
  /\ pc = "idle" /\ event = "none" /\ it = End
  /\ made = {} /\ told = {} /\ mark = 0

-----------------------------------------------------------------------------
(* The map.                                                                *)

\* Mutant: std::greater.
PrecedesReversed(b, c) ==
  \/ Priority[b.handler] > Priority[c.handler]
  \/ Priority[b.handler] = Priority[c.handler] /\ b.id < c.id

\* Entries are sorted by priority, those of one priority in the order of insertion.
Precedes(b, c) ==
  \/ Priority[b.handler] < Priority[c.handler]
  \/ Priority[b.handler] = Priority[c.handler] /\ b.id < c.id

\* begin() of the entries.
First(entries) ==
  IF entries = {} THEN End
  ELSE CHOOSE b \in entries : \A c \in entries \ {b} : Precedes(b, c)

\* ++it
Following(b) == First({c \in bindings : Precedes(b, c)})

\* The map goes with its last owner.
Disown(owner) ==
  /\ owners' = owners \ {owner}
  /\ bindings' = IF owners' = {} THEN {} ELSE bindings

-----------------------------------------------------------------------------
(* What the application may call, also from a callback or a destructor.    *)

Application == pc # "notify"

\* A handler lives while the application holds it, and until its callback returns.
Alive == held \cup {h \in Handlers : pc = "calling" /\ it.handler = h}

\* Window::Window
Construct ==
  /\ Application
  /\ window = "none"
  /\ window' = "open"
  /\ button' = "released"
  /\ owners' = owners \cup {"window"}
  /\ UNCHANGED <<bindings, held, binds, made, dispatch>>

\* Mutant: a map in place of a multimap.
AddUnlessTaken(entry) ==
  bindings' = IF \E b \in bindings : Priority[b.handler] = Priority[entry.handler]
              THEN bindings ELSE bindings \cup {entry}

\* Window::Add: there may be several of one handler.
Add(entry) == bindings' = bindings \cup {entry}

\* Handler::Bind; p_window_ of the handler, which it sets, is never reset.
Bind(h) ==
  LET entry == [handler |-> h, id |-> binds + 1] IN
  /\ Application
  /\ h \in Alive
  /\ window \in {"open", "closed"}
  /\ binds < MaxBinds
  /\ binds' = binds + 1
  /\ Add(entry)
  /\ made' = made \cup {entry}
  /\ UNCHANGED <<window, button, owners, held, dispatch>>

\* The application drops the last shared_ptr it has to a handler; what the destructor
\* calls, if it runs now, are calls of the application.
Release(h) ==
  /\ Application
  /\ held' = held \ {h}
  /\ UNCHANGED <<window, button, bindings, owners, binds, made, dispatch>>

\* Window::Close, called or on the close event of the window
Close ==
  /\ Application
  /\ window = "open"
  /\ window' = "closed"
  /\ UNCHANGED <<button, bindings, owners, held, binds, made, dispatch>>

\* Mutant: an owner that is not released.
DeleteKeepsMap ==
  /\ Application
  /\ window \in {"open", "closed"}
  /\ window' = "deleted"
  /\ UNCHANGED <<button, bindings, owners, held, binds, made, dispatch>>

\* Window::~Window
Delete ==
  /\ Application
  /\ window \in {"open", "closed"}
  /\ window' = "deleted"
  /\ Disown("window")
  /\ UNCHANGED <<button, held, binds, made, dispatch>>

-----------------------------------------------------------------------------
(* NotifyHandlers                                                          *)

\* Mutant: a reference to p_handlers_.
OwnNothing == owners' = owners

\* p_handlers = p_window->handlers(), by value.
Own == owners' = owners \cup {"dispatch"}

\* Window::UpdateMouseButton
UpdateMouseButton(e) ==
  button' = CASE e = "press"   -> "pressed"
              [] e = "release" -> "released"
              [] OTHER         -> button

\* An OS callback of Window: the first entry is looked at, the window never again.
Notify(e) ==
  /\ pc = "idle"
  /\ window = "open"
  /\ UpdateMouseButton(e)
  /\ Own
  /\ pc' = "notify" /\ event' = e
  /\ it' = First(bindings)
  /\ told' = {} /\ mark' = binds
  /\ UNCHANGED <<window, bindings, held, binds, made>>

\* lock() succeeds: the callback is called.
Serve ==
  /\ pc = "notify"
  /\ it # End
  /\ it.handler \in held
  /\ pc' = "calling"
  /\ told' = told \cup {it}
  /\ UNCHANGED <<window, button, bindings, owners, held, binds, made, event, it, mark>>

\* The callback returns; a handler that was released meanwhile is destroyed after ++it.
Return ==
  /\ pc = "calling"
  /\ it' = Following(it)
  /\ pc' = IF it.handler \in held THEN "notify" ELSE "destructor"
  /\ UNCHANGED <<window, button, bindings, owners, held, binds, made, event, told, mark>>

DestructorReturns ==
  /\ pc = "destructor"
  /\ pc' = "notify"
  /\ UNCHANGED <<window, button, bindings, owners, held, binds, made, event, it, told, mark>>

\* Mutant: erase, and ++it as well.
EraseAndSkip ==
  /\ bindings' = bindings \ {it}
  /\ it' = IF Following(it) = End THEN End ELSE Following(Following(it))

\* Mutant: the next iteration will do.
EraseLater == UNCHANGED <<bindings, it>>

\* it = p_handlers->erase(it)
Erase == bindings' = bindings \ {it} /\ it' = Following(it)

\* lock() fails: the handler is unbound.
Expire ==
  /\ pc = "notify"
  /\ it # End
  /\ it.handler \notin held
  /\ Erase
  /\ UNCHANGED <<window, button, owners, held, binds, made, pc, event, told, mark>>

Finish ==
  /\ pc = "notify"
  /\ it = End
  /\ Disown("dispatch")
  /\ pc' = "idle" /\ event' = "none" /\ told' = {} /\ mark' = 0
  /\ UNCHANGED <<window, button, held, binds, made, it>>

NotifyHandlers == Serve \/ Expire \/ Finish

Calls ==
  \/ Construct
  \/ \E h \in Handlers : Bind(h) \/ Release(h)
  \/ Close
  \/ Delete

Next ==
  \/ Calls
  \/ \E e \in Events : Notify(e)
  \/ NotifyHandlers
  \/ Return
  \/ DestructorReturns

\* The thread goes on, and callbacks and destructors return.
Fairness == WF_vars(NotifyHandlers) /\ WF_vars(Return) /\ WF_vars(DestructorReturns)

Spec     == Init /\ [][Next]_vars
FairSpec == Spec /\ Fairness

-----------------------------------------------------------------------------
(* Properties.                                                             *)

\* Whatever the callbacks do, NotifyHandlers iterates over a map that is there, at an
\* entry that is in it.
IteratorValid ==
  pc # "idle" => owners # {} /\ (it # End => it \in bindings)

\* No entry is passed over: those behind the iterator were told, unless they were made
\* during this dispatch; so a handler that was dead before it is unbound after it.
NoneSkipped ==
  pc # "idle" =>
    \A b \in bindings :
      b.id <= mark /\ ~ (it # End /\ (b = it \/ Precedes(it, b))) => b \in told

\* "Handlers are automatically unbound when their lifetime expires", and not before:
\* whatever was bound is told of the next event if it still lives.
StaysBound ==
  owners # {} => \A b \in made : b.handler \in held => b \in bindings

\* A callback is called only on a handler that is alive, that was not told yet, after all
\* those with a lower number that were told, and with the button as the event says.
TellsInOrder ==
  [][pc = "notify" /\ pc' = "calling" =>
       /\ it.handler \in held
       /\ it \notin told
       /\ \A b \in told : Priority[b.handler] <= Priority[it.handler]
       /\ event = "press"   => button = "pressed"
       /\ event = "release" => button = "released"]_vars

\* The dispatch of an event ends, if callbacks do not bind something every time.
DispatchEnds == pc # "idle" ~> pc = "idle"
=============================================================================
