-------------------------- MODULE InputWindowProofs --------------------------
(* That a dispatch survives what its callbacks do, for any handlers, any   *)
(* priorities and any number of bindings.                                  *)
EXTENDS InputWindow, WellFoundedInduction, TLAPS

-----------------------------------------------------------------------------
(* The order of the map.                                                   *)

LEMMA LeastNumber ==
  ASSUME NEW T, T \subseteq Nat, T # {}
  PROVE  \E m \in T : \A n \in T : m <= n
<1>1. PICK m \in T : \A n \in T : ~ (<<n, m>> \in OpToRel(<, Nat))
  BY WFMin, NatLessThanWellFounded
<1>2. ASSUME NEW n \in T
      PROVE  m <= n
  <2>1. m \in Nat /\ n \in Nat
    BY <1>2
  <2>2. ~ (n < m)
    BY <1>1, <1>2, <2>1 DEF OpToRel
  <2> QED
    BY <2>1, <2>2
<1> QED
  BY <1>2

\* An entry is known by its number.
OneOfEach(entries) == \A b, c \in entries : b.id = c.id => b = c

LEMMA EntryType ==
  ASSUME NEW b \in Entry
  PROVE  b.handler \in Handlers /\ b.id \in Nat \ {0} /\ Priority[b.handler] \in Nat
         /\ b # End
BY PriorityAssumption, BindsAssumption DEF Entry, End

(* begin() of a map that is not empty is before all others.                *)
LEMMA FirstPrecedes ==
  ASSUME NEW entries, entries \subseteq Entry, OneOfEach(entries)
  PROVE  /\ entries = {} => First(entries) = End
         /\ entries # {} => /\ First(entries) \in entries
                            /\ \A c \in entries \ {First(entries)} :
                                 Precedes(First(entries), c)
<1>1. CASE entries = {}
  BY <1>1 DEF First
<1>2. CASE entries # {}
  <2> DEFINE priorities == {Priority[b.handler] : b \in entries}
  <2>1. PICK p \in priorities : \A q \in priorities : p <= q
    <3>1. priorities \subseteq Nat /\ priorities # {}
      BY <1>2, EntryType
    <3> QED
      BY <3>1, LeastNumber
  <2> DEFINE ids == {b.id : b \in {c \in entries : Priority[c.handler] = p}}
  <2>2. PICK i \in ids : \A j \in ids : i <= j
    <3>1. ids \subseteq Nat /\ ids # {}
      BY <2>1, EntryType
    <3> HIDE DEF ids
    <3> QED
      BY <3>1, LeastNumber
  <2>3. PICK b \in entries : Priority[b.handler] = p /\ b.id = i
    BY <2>2
  <2>4. ASSUME NEW c \in entries \ {b}
        PROVE  Precedes(b, c)
    <3>1. c.id # i
      BY <2>3, <2>4 DEF OneOfEach
    <3>2. p <= Priority[c.handler]
      BY <2>1, <2>4
    <3>3. Priority[c.handler] = p => i <= c.id
      BY <2>2, <2>4
    <3>4. /\ p \in Nat /\ Priority[c.handler] \in Nat
          /\ i \in Nat /\ c.id \in Nat
      BY <2>3, <2>4, EntryType
    <3> QED
      BY <2>3, <3>1, <3>2, <3>3, <3>4 DEF Precedes
  <2>5. \E x \in entries : \A c \in entries \ {x} : Precedes(x, c)
    BY <2>4
  <2> QED
    BY <1>2, <2>5 DEF First
<1> QED
  BY <1>1, <1>2

LEMMA PrecedesOrder ==
  ASSUME NEW a \in Entry, NEW b \in Entry, NEW c \in Entry
  PROVE  /\ ~ Precedes(a, a)
         /\ Precedes(a, b) => ~ Precedes(b, a)
         /\ Precedes(a, b) /\ Precedes(b, c) => Precedes(a, c)
         /\ Precedes(a, b) => Priority[a.handler] <= Priority[b.handler]
         /\ a.id # b.id => Precedes(a, b) \/ Precedes(b, a)
<1>1. /\ Priority[a.handler] \in Nat /\ Priority[b.handler] \in Nat
      /\ Priority[c.handler] \in Nat
      /\ a.id \in Nat /\ b.id \in Nat /\ c.id \in Nat
  BY EntryType
<1> QED
  BY <1>1 DEF Precedes

(* ++it stops at the very next entry: what is behind it then was behind it *)
(* before, or is the entry it was at.                                      *)
LEMMA FollowingIsNext ==
  ASSUME bindings \subseteq Entry, OneOfEach(bindings), NEW a \in Entry
  PROVE  /\ Following(a) \in bindings \cup {End}
         /\ Following(a) # End => Precedes(a, Following(a))
         /\ \A b \in bindings :
              Precedes(a, b) => Following(a) # End
                                /\ (b = Following(a) \/ Precedes(Following(a), b))
<1> DEFINE later == {c \in bindings : Precedes(a, c)}
<1>1. later \subseteq Entry /\ OneOfEach(later)
  BY DEF OneOfEach
<1>2. Following(a) = First(later)
  BY DEF Following
<1>3. CASE later = {}
  <2>1. Following(a) = End
    BY <1>1, <1>2, <1>3, FirstPrecedes
  <2>2. \A b \in bindings : ~ Precedes(a, b)
    BY <1>3
  <2> QED
    BY <2>1, <2>2
<1>4. CASE later # {}
  <2>1. First(later) \in later /\ \A c \in later \ {First(later)} : Precedes(First(later), c)
    <3> HIDE DEF later
    <3> QED
      BY <1>1, <1>4, FirstPrecedes
  <2>2. Following(a) \in Entry /\ Following(a) # End
    BY <1>1, <1>2, <2>1, EntryType
  <2> QED
    BY <1>2, <2>1, <2>2
<1> QED
  BY <1>3, <1>4

-----------------------------------------------------------------------------
(* The inductive invariant.                                                *)

\* Nothing is bound to a window that is not there yet.
MadeLater == window = "none" => made = {}

\* While an event is dispatched, the button is as the event says: only the next event
\* changes it.
ButtonTold ==
  pc # "idle" =>
    /\ window # "none"
    /\ event = "press"   => button = "pressed"
    /\ event = "release" => button = "released"

\* What was told is not ahead of the iterator, and what is being told is at it.
ToldBehind ==
  /\ pc = "calling" => it # End /\ it \in told
  /\ pc # "idle" /\ it # End =>
       \A b \in told : (pc = "calling" /\ b = it) \/ Precedes(b, it)

DispatchInv ==
  /\ TypeOK
  /\ OneOfEach(made)
  /\ MadeLater
  /\ IteratorValid
  /\ NoneSkipped
  /\ StaysBound
  /\ ButtonTold
  /\ ToldBehind

LEMMA InitInv == Init => DispatchInv
BY BindsAssumption
   DEF Init, DispatchInv, TypeOK, OneOfEach, MadeLater, IteratorValid, NoneSkipped,
       StaysBound, ButtonTold, ToldBehind, Entry, End

LEMMA TypeFacts ==
  ASSUME TypeOK
  PROVE  /\ made \subseteq Entry /\ bindings \subseteq Entry /\ told \subseteq Entry
         /\ OneOfEach(made) => OneOfEach(bindings)
         /\ binds \in Nat /\ mark \in Nat /\ mark <= binds
         /\ pc # "idle" => "dispatch" \in owners
         /\ window \in {"open", "closed"} => "window" \in owners
         /\ window = "none" /\ pc = "idle" => owners = {}
<1>1. /\ made \subseteq Entry /\ bindings \subseteq Entry /\ told \subseteq Entry
      /\ OneOfEach(made) => OneOfEach(bindings)
  BY DEF TypeOK, OneOfEach
<1>2. binds \in Nat /\ mark \in Nat /\ mark <= binds
  BY BindsAssumption DEF TypeOK
<1>3. /\ pc # "idle" => "dispatch" \in owners
      /\ window \in {"open", "closed"} => "window" \in owners
      /\ window = "none" /\ pc = "idle" => owners = {}
  BY DEF TypeOK
<1> QED
  BY <1>1, <1>2, <1>3

\* A step that leaves the map and the iteration alone.
LEMMA StepsAside ==
  ASSUME DispatchInv, TypeOK',
         UNCHANGED <<bindings, made, dispatch>>,
         held' \subseteq held, owners' # {} => owners # {} \/ made = {},
         window # "none" => window' # "none" /\ button' = button
  PROVE  DispatchInv'
<1> USE DEF DispatchInv, dispatch
<1>1. OneOfEach(made)' /\ MadeLater'
  BY DEF OneOfEach, MadeLater
<1>2. IteratorValid' /\ NoneSkipped'
  <2>1. pc' # "idle" => owners' # {}
    BY TypeFacts DEF TypeOK
  <2> QED
    BY <2>1 DEF IteratorValid, NoneSkipped
<1>3. StaysBound'
  BY DEF StaysBound
<1>4. ButtonTold' /\ ToldBehind'
  BY DEF ButtonTold, ToldBehind
<1> QED
  BY <1>1, <1>2, <1>3, <1>4

LEMMA CallsInv ==
  ASSUME DispatchInv, Calls
  PROVE  DispatchInv'
<1> USE DEF DispatchInv
<1>1. CASE Construct
  <2>1. TypeOK'
    BY <1>1 DEF Construct, Application, dispatch, TypeOK
  <2>2. window = "none" /\ window' = "open" /\ made = {}
    BY <1>1 DEF Construct, MadeLater
  <2> QED
    BY <1>1, <2>1, <2>2, StepsAside DEF Construct, dispatch
<1>2. ASSUME NEW h \in Handlers, Bind(h)
      PROVE  DispatchInv'
  <2> DEFINE entry == [handler |-> h, id |-> binds + 1]
  <2>1. /\ UNCHANGED <<window, button, owners, held, pc, event, it, told, mark>>
        /\ bindings' = bindings \cup {entry} /\ made' = made \cup {entry}
        /\ binds' = binds + 1 /\ binds < MaxBinds /\ window # "none"
    BY <1>2 DEF Bind, Add, dispatch
  <2>2. /\ binds \in Nat /\ mark \in Nat /\ mark <= binds /\ binds + 1 \in 1..MaxBinds
        /\ entry \in Entry /\ entry.id > binds /\ entry.id > mark
    BY <2>1, TypeFacts, BindsAssumption DEF Entry
  <2> HIDE DEF entry
  <2>3. TypeOK'
    <3>1. \A b \in made' : b \in Entry /\ b.id <= binds'
      BY <2>1, <2>2, TypeFacts, EntryType DEF TypeOK, entry
    <3>2. it'.id <= binds' /\ binds' \in 0..MaxBinds /\ mark' \in 0..binds'
      BY <2>1, <2>2, EntryType, BindsAssumption DEF TypeOK, End
    <3>3. bindings' \subseteq made' /\ told' \subseteq made'
      BY <2>1 DEF TypeOK
    <3> QED
      BY <2>1, <3>1, <3>2, <3>3 DEF TypeOK
  <2>4. OneOfEach(made)'
    <3>1. \A b \in made : b.id # entry.id
      BY <2>2, TypeFacts, EntryType DEF TypeOK
    <3> QED
      BY <2>1, <3>1 DEF OneOfEach
  <2>5. MadeLater' /\ IteratorValid' /\ StaysBound'
    BY <2>1 DEF MadeLater, IteratorValid, StaysBound
  <2>6. NoneSkipped'
    <3>1. ~ (entry.id <= mark)
      BY <2>2, EntryType
    <3> QED
      BY <2>1, <3>1 DEF NoneSkipped
  <2>7. ButtonTold' /\ ToldBehind'
    BY <2>1 DEF ButtonTold, ToldBehind
  <2> QED
    BY <2>3, <2>4, <2>5, <2>6, <2>7
<1>3. ASSUME NEW h \in Handlers, Release(h)
      PROVE  DispatchInv'
  <2>1. TypeOK'
    BY <1>3 DEF Release, dispatch, TypeOK
  <2> QED
    BY <1>3, <2>1, StepsAside DEF Release
<1>4. CASE Close
  <2>1. TypeOK'
    BY <1>4 DEF Close, dispatch, TypeOK
  <2> QED
    BY <1>4, <2>1, StepsAside DEF Close
<1>5. CASE Delete
  <2>1. UNCHANGED <<button, held, binds, made, pc, event, it, told, mark>>
        /\ owners' = owners \ {"window"} /\ window' = "deleted" /\ window # "none"
        /\ bindings' = (IF owners' = {} THEN {} ELSE bindings)
    BY <1>5 DEF Delete, Disown, dispatch
  <2>2. TypeOK'
    BY <2>1 DEF TypeOK
  <2>3. pc # "idle" => owners' # {} /\ bindings' = bindings
    BY <2>1, TypeFacts
  <2>4. OneOfEach(made)' /\ MadeLater'
    BY <2>1 DEF OneOfEach, MadeLater
  <2>5. IteratorValid' /\ NoneSkipped'
    BY <2>1, <2>3 DEF IteratorValid, NoneSkipped
  <2>6. StaysBound'
    BY <2>1 DEF StaysBound
  <2>7. ButtonTold' /\ ToldBehind'
    BY <2>1 DEF ButtonTold, ToldBehind
  <2> QED
    BY <2>2, <2>4, <2>5, <2>6, <2>7
<1> QED
  BY <1>1, <1>2, <1>3, <1>4, <1>5 DEF Calls

LEMMA NotifyInv ==
  ASSUME DispatchInv, NEW e \in Events, Notify(e)
  PROVE  DispatchInv'
<1> USE DEF DispatchInv
<1>1. /\ UNCHANGED <<window, bindings, held, binds, made>>
      /\ window = "open" /\ pc = "idle" /\ pc' = "notify" /\ event' = e
      /\ owners' = owners \cup {"dispatch"} /\ it' = First(bindings)
      /\ told' = {} /\ mark' = binds /\ UpdateMouseButton(e)
  BY DEF Notify, Own
<1>2. /\ bindings = {} => it' = End
      /\ bindings # {} => it' \in bindings /\ \A c \in bindings \ {it'} : Precedes(it', c)
  BY <1>1, TypeFacts, FirstPrecedes
<1>3. TypeOK'
  <2>1. it' \in Entry \cup {End} /\ it'.id <= binds
    BY <1>2, TypeFacts DEF TypeOK, End
  <2>2. binds' \in 0..MaxBinds /\ mark' \in 0..binds'
    BY <1>1, TypeFacts DEF TypeOK
  <2>3. button' \in {"pressed", "released"}
    BY <1>1 DEF UpdateMouseButton, TypeOK
  <2> QED
    BY <1>1, <2>1, <2>2, <2>3 DEF TypeOK
<1>4. OneOfEach(made)' /\ MadeLater' /\ IteratorValid'
  BY <1>1, <1>2 DEF OneOfEach, MadeLater, IteratorValid
<1>5. NoneSkipped'
  <2>1. \A b \in bindings : it' # End /\ (b = it' \/ Precedes(it', b))
    <3>1. bindings # {} => it' # End
      BY <1>2, TypeFacts, EntryType
    <3> QED
      BY <1>2, <3>1
  <2> QED
    BY <1>1, <2>1 DEF NoneSkipped, Precedes
<1>6. StaysBound'
  <2>1. owners # {}
    BY <1>1, TypeFacts
  <2> QED
    BY <1>1, <2>1 DEF StaysBound
<1>7. ButtonTold' /\ ToldBehind'
  BY <1>1 DEF ButtonTold, ToldBehind, UpdateMouseButton
<1> QED
  BY <1>3, <1>4, <1>5, <1>6, <1>7

\* The iterator goes on to the next entry: nothing in between is left out.
LEMMA Advance ==
  ASSUME DispatchInv, TypeOK', pc \in {"notify", "calling"}, it # End, it' = Following(it),
         pc' \in {"notify", "destructor"}, UNCHANGED <<told, mark, made, held, owners>>,
         bindings' = bindings \/ (bindings' = bindings \ {it} /\ it.handler \notin held),
         it \in told \/ it \notin bindings'
  PROVE  IteratorValid' /\ NoneSkipped' /\ StaysBound' /\ ToldBehind'
<1> USE DEF DispatchInv
<1>1. bindings \subseteq Entry /\ OneOfEach(bindings) /\ told \subseteq Entry
      /\ it \in Entry /\ it \in bindings
  BY TypeFacts DEF IteratorValid
<1>2. /\ it' \in bindings \cup {End}
      /\ it' # End => Precedes(it, it')
      /\ \A b \in bindings :
           Precedes(it, b) => it' # End /\ (b = it' \/ Precedes(it', b))
  BY <1>1, FollowingIsNext
<1>3. it' # End => it' \in bindings'
  BY <1>1, <1>2, PrecedesOrder
<1>4. IteratorValid'
  BY <1>3 DEF IteratorValid
<1>5. NoneSkipped'
  <2> SUFFICES ASSUME NEW b \in bindings', b.id <= mark,
                      ~ (it' # End /\ (b = it' \/ Precedes(it', b)))
               PROVE  b \in told
    BY DEF NoneSkipped
  <2>1. b \in bindings /\ ~ Precedes(it, b)
    BY <1>2
  <2>2. CASE b = it
    BY <2>2
  <2>3. CASE b # it
    BY <2>1, <2>3 DEF NoneSkipped
  <2> QED
    BY <2>2, <2>3
<1>6. StaysBound'
  BY DEF StaysBound
<1>7. ToldBehind'
  <2> SUFFICES ASSUME it' # End, NEW b \in told
               PROVE  Precedes(b, it')
    BY DEF ToldBehind
  <2>1. b = it \/ Precedes(b, it)
    BY DEF ToldBehind
  <2> QED
    BY <1>1, <1>2, <2>1, PrecedesOrder
<1> QED
  BY <1>4, <1>5, <1>6, <1>7

LEMMA NotifyHandlersInv ==
  ASSUME DispatchInv, NotifyHandlers
  PROVE  DispatchInv'
<1> USE DEF DispatchInv
<1>1. CASE Serve
  <2>1. /\ UNCHANGED <<window, button, bindings, owners, held, binds, made, event, it, mark>>
        /\ pc = "notify" /\ it # End /\ pc' = "calling" /\ told' = told \cup {it}
        /\ it \in bindings
    BY <1>1 DEF Serve, IteratorValid
  <2>2. TypeOK'
    BY <2>1 DEF TypeOK
  <2>3. OneOfEach(made)' /\ MadeLater' /\ IteratorValid' /\ StaysBound' /\ ButtonTold'
    BY <2>1 DEF OneOfEach, MadeLater, IteratorValid, StaysBound, ButtonTold
  <2>4. NoneSkipped'
    BY <2>1 DEF NoneSkipped, Precedes
  <2>5. ToldBehind'
    BY <2>1 DEF ToldBehind, Precedes
  <2> QED
    BY <2>2, <2>3, <2>4, <2>5
<1>2. CASE Expire
  <2>1. /\ UNCHANGED <<window, button, owners, held, binds, made, pc, event, told, mark>>
        /\ pc = "notify" /\ it # End /\ it.handler \notin held
        /\ bindings' = bindings \ {it} /\ it' = Following(it)
    BY <1>2 DEF Expire, Erase
  <2>2. it' \in bindings \cup {End}
    BY <2>1, TypeFacts, FollowingIsNext DEF IteratorValid
  <2>3. TypeOK'
    <3>1. it' \in Entry \cup {End} /\ it'.id <= binds
      BY <2>2, TypeFacts DEF TypeOK, End
    <3> QED
      BY <2>1, <3>1 DEF TypeOK
  <2>4. OneOfEach(made)' /\ MadeLater' /\ ButtonTold'
    BY <2>1 DEF OneOfEach, MadeLater, ButtonTold
  <2> QED
    BY <2>1, <2>3, <2>4, Advance
<1>3. CASE Finish
  <2>1. /\ UNCHANGED <<window, button, held, binds, made, it>>
        /\ owners' = owners \ {"dispatch"} /\ pc' = "idle" /\ event' = "none"
        /\ told' = {} /\ mark' = 0
        /\ bindings' = (IF owners' = {} THEN {} ELSE bindings)
    BY <1>3 DEF Finish, Disown
  <2>2. TypeOK'
    <3>1. 0 \in 0..binds
      BY TypeFacts
    <3> QED
      BY <2>1, <3>1 DEF TypeOK
  <2>3. OneOfEach(made)' /\ MadeLater' /\ StaysBound'
    BY <2>1 DEF OneOfEach, MadeLater, StaysBound
  <2>4. IteratorValid' /\ NoneSkipped' /\ ButtonTold' /\ ToldBehind'
    BY <2>1 DEF IteratorValid, NoneSkipped, ButtonTold, ToldBehind
  <2> QED
    BY <2>2, <2>3, <2>4
<1> QED
  BY <1>1, <1>2, <1>3 DEF NotifyHandlers

LEMMA ReturnInv ==
  ASSUME DispatchInv, Return \/ DestructorReturns
  PROVE  DispatchInv'
<1> USE DEF DispatchInv
<1>1. CASE Return
  <2>1. /\ UNCHANGED <<window, button, bindings, owners, held, binds, made, event, told, mark>>
        /\ pc = "calling" /\ it' = Following(it) /\ pc' \in {"notify", "destructor"}
        /\ it # End /\ it \in told
    BY <1>1 DEF Return, ToldBehind
  <2>2. it' \in bindings \cup {End}
    BY <2>1, TypeFacts, FollowingIsNext DEF IteratorValid
  <2>3. TypeOK'
    <3>1. it' \in Entry \cup {End} /\ it'.id <= binds
      BY <2>2, TypeFacts DEF TypeOK, End
    <3> QED
      BY <2>1, <3>1 DEF TypeOK
  <2>4. OneOfEach(made)' /\ MadeLater' /\ ButtonTold'
    BY <2>1 DEF OneOfEach, MadeLater, ButtonTold
  <2> QED
    BY <2>1, <2>3, <2>4, Advance
<1>2. CASE DestructorReturns
  <2>1. /\ UNCHANGED <<window, button, bindings, owners, held, binds, made, event, it, told,
                       mark>>
        /\ pc = "destructor" /\ pc' = "notify"
    BY <1>2 DEF DestructorReturns
  <2>2. TypeOK' /\ OneOfEach(made)' /\ MadeLater' /\ IteratorValid' /\ StaysBound'
    BY <2>1 DEF TypeOK, OneOfEach, MadeLater, IteratorValid, StaysBound
  <2>3. NoneSkipped'
    BY <2>1 DEF NoneSkipped, Precedes
  <2>4. ButtonTold' /\ ToldBehind'
    BY <2>1 DEF ButtonTold, ToldBehind, Precedes
  <2> QED
    BY <2>2, <2>3, <2>4
<1> QED
  BY <1>1, <1>2

LEMMA StepInv ==
  ASSUME DispatchInv, [Next]_vars
  PROVE  DispatchInv'
<1>1. CASE UNCHANGED vars
  BY <1>1
     DEF vars, dispatch, DispatchInv, TypeOK, OneOfEach, MadeLater, IteratorValid,
         NoneSkipped, StaysBound, ButtonTold, ToldBehind, Precedes
<1> QED
  BY <1>1, CallsInv, NotifyInv, NotifyHandlersInv, ReturnInv DEF Next

-----------------------------------------------------------------------------
(* Whatever callbacks and destructors bind, release, close or delete, the  *)
(* invariant holds.                                                        *)
THEOREM DispatchCorrect == Spec => []DispatchInv
BY InitInv, StepInv, PTL DEF Spec

(* Every variable keeps to its type; the map is owned by the window that   *)
(* has one and by the dispatch that runs, and by nothing else.             *)
THEOREM WindowTyped == Spec => []TypeOK
<1>1. DispatchInv => TypeOK
  BY DEF DispatchInv
<1> QED
  BY <1>1, DispatchCorrect, PTL

(* The iterator of NotifyHandlers is always good, in a map that is there:  *)
(* also when a handler has deleted the window.                             *)
THEOREM IteratorAlwaysValid == Spec => []IteratorValid
<1>1. DispatchInv => IteratorValid
  BY DEF DispatchInv
<1> QED
  BY <1>1, DispatchCorrect, PTL

(* Every handler bound before the event is told of it if it lives when its *)
(* turn comes.                                                             *)
THEOREM NobodyForgotten == Spec => []NoneSkipped
<1>1. DispatchInv => NoneSkipped
  BY DEF DispatchInv
<1> QED
  BY <1>1, DispatchCorrect, PTL

(* Whoever was bound and lives is bound still.                             *)
THEOREM NobodyUnboundAlive == Spec => []StaysBound
<1>1. DispatchInv => StaysBound
  BY DEF DispatchInv
<1> QED
  BY <1>1, DispatchCorrect, PTL

(* Handlers are told by priority, each binding once, none after its end.   *)
THEOREM ToldInOrder == Spec => TellsInOrder
<1>1. DispatchInv /\ [Next]_vars =>
        [pc = "notify" /\ pc' = "calling" =>
           /\ it.handler \in held
           /\ it \notin told
           /\ \A b \in told : Priority[b.handler] <= Priority[it.handler]
           /\ event = "press"   => button = "pressed"
           /\ event = "release" => button = "released"]_vars
  <2> SUFFICES ASSUME DispatchInv, Next, pc = "notify", pc' = "calling"
               PROVE  /\ it.handler \in held
                      /\ it \notin told
                      /\ \A b \in told : Priority[b.handler] <= Priority[it.handler]
                      /\ event = "press"   => button = "pressed"
                      /\ event = "release" => button = "released"
    BY DEF vars, dispatch
  <2>1. Serve
    BY DEF Next, Calls, Construct, Bind, Release, Close, Delete, Application, Notify,
           NotifyHandlers, Expire, Finish, Return, DestructorReturns
  <2>2. it # End /\ it.handler \in held /\ it \in Entry /\ told \subseteq Entry
    BY <2>1, TypeFacts DEF Serve, DispatchInv, IteratorValid
  <2>3. \A b \in told : Precedes(b, it)
    BY <2>2 DEF DispatchInv, ToldBehind
  <2>4. it \notin told /\ \A b \in told : Priority[b.handler] <= Priority[it.handler]
    BY <2>2, <2>3, PrecedesOrder
  <2> QED
    BY <2>2, <2>4 DEF DispatchInv, ButtonTold
<1> QED
  BY <1>1, DispatchCorrect, PTL DEF Spec, TellsInOrder
=============================================================================
