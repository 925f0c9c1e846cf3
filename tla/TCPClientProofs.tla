--------------------------- MODULE TCPClientProofs ---------------------------
(* Theorems about the client, for every application and every bound.       *)
EXTENDS TCPClientInv, SequenceTheorems, TLAPS

(***************************************************************************)
(* Type correctness.                                                       *)
(***************************************************************************)

LEMMA FrameNames ==
  /\ ApiCalls \subseteq Frames
  /\ Callbacks \subseteq Frames
  /\ {"SocketConnect", "Read", "Rearm", "Disconnect"} \subseteq Frames
  /\ {"OnHostResolved", "OnConnect", "OnRead", "OnError", "OnDisconnect"} \subseteq Frames
BY DEF Frames, ApiCalls, Callbacks

LEMMA CompletionTyped ==
  ASSUME TypeOK, NEW op \in {"resolve", "connect", "read"}, NEW ok \in BOOLEAN
  PROVE  Completion(op, ok) \in Completions
BY DEF TypeOK, Completion, Completions

\* What a handler pushes in front of its remaining calls.
LEMMA PushTyped ==
  ASSUME NEW s \in Seq(Frames), s # << >>, NEW front \in Seq(Frames)
  PROVE  /\ Tail(s) \in Seq(Frames)
         /\ front \o Tail(s) \in Seq(Frames)
<1>1. Tail(s) \in Seq(Frames)
  BY HeadTailProperties
<1> QED
  BY <1>1, ConcatProperties

LEMMA HandlersTyped ==
  /\ ErrorHandler \in Seq(Frames)
  /\ ErrorHandler \o <<"Rearm">> \in Seq(Frames)
  /\ <<"OnHostResolved", "SocketConnect">> \in Seq(Frames)
  /\ <<"OnConnect">> \in Seq(Frames)
  /\ <<"OnRead", "Rearm">> \in Seq(Frames)
  /\ <<"Read">> \in Seq(Frames)
  /\ <<"OnDisconnect">> \in Seq(Frames)
<1>1. ErrorHandler \in Seq(Frames)
  BY FrameNames DEF ErrorHandler
<1>2. <<"Rearm">> \in Seq(Frames)
  BY FrameNames
<1>3. ErrorHandler \o <<"Rearm">> \in Seq(Frames)
  BY <1>1, <1>2, ConcatProperties
<1> QED
  BY <1>1, <1>3, FrameNames

LEMMA AbortedTyped ==
  ASSUME TypeOK
  PROVE  /\ Aborted \in Seq(Completions)
         /\ queue \o Aborted \in Seq(Completions)
<1> DEFINE n == pending + (IF connect_op THEN 1 ELSE 0)
           c(i) == Completion(IF i <= pending THEN "read" ELSE "connect", FALSE)
<1>1. n \in Nat
  BY DEF TypeOK
<1>2. \A i \in 1..n : c(i) \in Completions
  BY CompletionTyped
<1>3. Aborted \in [1..n -> Completions]
  BY <1>2 DEF Aborted
<1>4. Aborted \in Seq(Completions)
  BY <1>1, <1>3
<1> QED
  BY <1>4, ConcatProperties DEF TypeOK

LEMMA StartReadTyped ==
  ASSUME TypeOK, StartRead
  PROVE  /\ queue' \in Seq(Completions)
         /\ pending' \in Nat
         /\ buffer' \in Nat \X Nat
         /\ taken' \in Nat
<1> USE DEF TypeOK
<1>1. /\ Append(queue, Completion("read", TRUE)) \in Seq(Completions)
      /\ Append(queue, Completion("read", FALSE)) \in Seq(Completions)
  BY CompletionTyped, AppendProperties
<1>2. /\ pending + 1 \in Nat
      /\ taken + 1 \in Nat
      /\ <<conn, taken + 1>> \in Nat \X Nat
  OBVIOUS
<1> QED
  BY <1>1, <1>2 DEF StartRead, Receive

(* Every variable of the client keeps to its type, whatever the callbacks  *)
(* and the handlers outside do.                                            *)
THEOREM TypeCorrect == Spec => []TypeOK
<1>1. Init => TypeOK
  <2> SUFFICES ASSUME Init PROVE TypeOK
    OBVIOUS
  <2>1. todo \in Seq(Frames)
    BY FrameNames DEF Init, ApiCalls
  <2>2. /\ <<0, 0>> \in Nat \X Nat
        /\ << >> \in Seq(Nat \X Nat)
        /\ << >> \in Seq(Completions)
    OBVIOUS
  <2> QED
    BY <2>1, <2>2 DEF Init, TypeOK, SocketStates
<1>2. TypeOK /\ [Next]_vars => TypeOK'
  <2> SUFFICES ASSUME TypeOK, [Next]_vars
               PROVE  TypeOK'
    OBVIOUS
  <2> USE DEF TypeOK, SocketStates, Calling, Return, Dispatch, Dispatched,
              client, reactor, kernel, calls, session
  <2>a. /\ todo # << >> => Tail(todo) \in Seq(Frames)
        /\ queue # << >> => Tail(queue) \in Seq(Completions)
    BY HeadTailProperties
  <2>b. \A op \in {"resolve", "connect", "read"}, ok \in BOOLEAN :
          Append(queue, Completion(op, ok)) \in Seq(Completions)
    BY CompletionTyped, AppendProperties
  <2>c. /\ \A n \in Nat : n + 1 \in Nat /\ (n > 0 => n - 1 \in Nat)
        /\ <<conn, taken + 1>> \in Nat \X Nat
        /\ << >> \in Seq(Nat \X Nat)
    OBVIOUS
  <2>1. CASE Connect
    BY <2>1, <2>a DEF Connect
  <2>2. CASE SkipConnect
    BY <2>2, <2>a DEF SkipConnect
  <2>3. CASE SocketConnect
    <3>1. CASE sock = "closed"
      <4>1. /\ todo' \in Seq(Frames)
            /\ conn' \in Nat
            /\ delivered' \in Seq(Nat \X Nat)
        BY <2>3, <2>a, <2>c, <3>1 DEF SocketConnect
      <4>2. /\ connect_op' \in BOOLEAN
            /\ peer_closed' \in BOOLEAN
            /\ sock' \in SocketStates
        BY <2>3, <3>1 DEF SocketConnect
      <4>3. /\ arrived' \in Nat
            /\ taken' \in Nat
            /\ writes' \in Nat
        BY <2>3, <3>1 DEF SocketConnect
      <4> QED
        BY <2>3, <3>1, <4>1, <4>2, <4>3 DEF SocketConnect
    <3>2. CASE sock # "closed"
      BY <2>3, <2>a, <2>b, <3>2 DEF SocketConnect
    <3> QED
      BY <3>1, <3>2
  <2>4. CASE Disconnect
    <3>1. todo' \in Seq(Frames)
      BY <2>4, PushTyped, HandlersTyped DEF Disconnect
    <3> QED
      BY <2>4, <3>1, AbortedTyped DEF Disconnect, Close
  <2>5. CASE Write
    <3>1. todo' \in Seq(Frames)
      BY <2>5, <2>a, PushTyped, HandlersTyped DEF Write
    <3> QED
      BY <2>5, <2>c, <3>1 DEF Write
  <2>6. CASE Read
    BY <2>6, <2>a, StartReadTyped DEF Read
  <2>7. CASE Rearm
    BY <2>7, <2>a, StartReadTyped DEF Rearm
  <2>8. CASE ResolveHostHandler
    BY <2>8, <2>a, HandlersTyped DEF ResolveHostHandler, ResolveCalls
  <2>9. CASE OnConnect
    BY <2>9, <2>a, HandlersTyped DEF OnConnect, ConnectCalls
  <2>10. CASE OnRead
    <3>1. Append(delivered, buffer) \in Seq(Nat \X Nat)
      BY AppendProperties
    <3> QED
      BY <2>10, <2>a, <3>1, HandlersTyped DEF OnRead, ReadCalls
  <2>11. ASSUME NEW cb \in Callbacks, Callback(cb)
         PROVE  TypeOK'
    <3>1. \A script \in Overrides[cb] : script \in Seq(Frames)
      BY OverridesAssumption, FrameNames, SeqMonotonic
    <3>2. todo' \in Seq(Frames)
      BY <2>11, <3>1, PushTyped DEF Callback
    <3> QED
      BY <2>11, <3>2 DEF Callback
  <2>12. CASE OutsideCall
    <3>1. \A call \in Outside : <<call>> \in Seq(Frames)
      BY OutsideAssumption, FrameNames
    <3> QED
      BY <2>12, <3>1 DEF OutsideCall
  <2>13. CASE Resolved
    BY <2>13, <2>b DEF Resolved
  <2>14. CASE Network
    BY <2>14, <2>c DEF Network, ConnectionSettles, ChunkArrives, PeerCloses
  <2>15. CASE ReactorConnect
    BY <2>15, <2>b DEF ReactorConnect
  <2>16. CASE ReactorRead
    BY <2>16, <2>b, <2>c DEF ReactorRead, Receive
  <2>17. CASE UNCHANGED vars
    BY <2>17 DEF vars
  <2> QED
    BY <2>1, <2>2, <2>3, <2>4, <2>5, <2>6, <2>7, <2>8, <2>9, <2>10, <2>11,
       <2>12, <2>13, <2>14, <2>15, <2>16, <2>17
    DEF Next, Handlers, Calls, Reactor
<1> QED
  BY <1>1, <1>2, PTL DEF Spec

(***************************************************************************)
(* What the remaining calls of a handler mention.                          *)
(***************************************************************************)

\* Frames the client itself pushes and whose number the invariant counts.
Counted == {"SocketConnect", "Read", "Rearm"}

Quiet(s) == \A f \in Counted : ~ Mentions(s, f)

LEMMA MentionsTail ==
  ASSUME NEW s \in Seq(Frames), s # << >>, NEW f
  PROVE  Mentions(s, f) <=> Head(s) = f \/ Mentions(Tail(s), f)
<1> USE HeadTailProperties, LenProperties
<1>1. ASSUME Mentions(s, f), Head(s) # f
      PROVE  Mentions(Tail(s), f)
  <2>1. PICK i \in 1..Len(s) : s[i] = f
    BY <1>1 DEF Mentions
  <2>2. i # 1 /\ i - 1 \in 1..Len(Tail(s)) /\ Tail(s)[i - 1] = f
    BY <1>1, <2>1
  <2> QED
    BY <2>2 DEF Mentions
<1>2. ASSUME Mentions(Tail(s), f)
      PROVE  Mentions(s, f)
  <2>1. PICK i \in 1..Len(Tail(s)) : Tail(s)[i] = f
    BY <1>2 DEF Mentions
  <2> QED
    BY <2>1 DEF Mentions
<1>3. ASSUME Head(s) = f
      PROVE  Mentions(s, f)
  <2>1. s[1] = f /\ 1 \in 1..Len(s)
    BY <1>3, EmptySeq
  <2> QED
    BY <2>1 DEF Mentions
<1> QED
  BY <1>1, <1>2, <1>3

LEMMA MentionsConcat ==
  ASSUME NEW s \in Seq(Frames), NEW t \in Seq(Frames), NEW f
  PROVE  Mentions(s \o t, f) <=> Mentions(s, f) \/ Mentions(t, f)
<1> USE ConcatProperties, LenProperties
<1>1. ASSUME Mentions(s \o t, f)
      PROVE  Mentions(s, f) \/ Mentions(t, f)
  <2>1. PICK i \in 1..(Len(s) + Len(t)) : (s \o t)[i] = f
    BY <1>1 DEF Mentions
  <2>2. CASE i <= Len(s)
    BY <2>1, <2>2 DEF Mentions
  <2>3. CASE i > Len(s)
    <3>1. i - Len(s) \in 1..Len(t) /\ t[i - Len(s)] = f
      BY <2>1, <2>3
    <3> QED
      BY <3>1 DEF Mentions
  <2> QED
    BY <2>2, <2>3
<1>2. ASSUME Mentions(s, f)
      PROVE  Mentions(s \o t, f)
  <2>1. PICK i \in 1..Len(s) : s[i] = f
    BY <1>2 DEF Mentions
  <2>2. i \in 1..Len(s \o t) /\ (s \o t)[i] = f
    BY <2>1
  <2> QED
    BY <2>2 DEF Mentions
<1>3. ASSUME Mentions(t, f)
      PROVE  Mentions(s \o t, f)
  <2>1. PICK i \in 1..Len(t) : t[i] = f
    BY <1>3 DEF Mentions
  <2>2. i + Len(s) \in 1..Len(s \o t) /\ (s \o t)[i + Len(s)] = f
    BY <2>1
  <2> QED
    BY <2>2 DEF Mentions
<1> QED
  BY <1>1, <1>2, <1>3

\* The head of a sequence that mentions F once is not followed by another.
LEMMA OnceTail ==
  ASSUME NEW s \in Seq(Frames), s # << >>, NEW F, Once(s, F)
  PROVE  /\ Once(Tail(s), F)
         /\ Head(s) \in F => \A f \in F : ~ Mentions(Tail(s), f)
<1> USE HeadTailProperties, LenProperties
<1>1. Once(Tail(s), F)
  <2> SUFFICES ASSUME NEW i \in 1..Len(Tail(s)), NEW j \in 1..Len(Tail(s)),
                      Tail(s)[i] \in F, Tail(s)[j] \in F
               PROVE  i = j
    BY DEF Once
  <2>1. /\ i + 1 \in 1..Len(s) /\ s[i + 1] \in F
        /\ j + 1 \in 1..Len(s) /\ s[j + 1] \in F
    OBVIOUS
  <2>2. i + 1 = j + 1
    BY <2>1 DEF Once
  <2> QED
    BY <2>2
<1>2. ASSUME Head(s) \in F, NEW f \in F, Mentions(Tail(s), f)
      PROVE  FALSE
  <2>1. PICK i \in 1..Len(Tail(s)) : Tail(s)[i] = f
    BY <1>2 DEF Mentions
  <2>2. /\ i + 1 \in 1..Len(s) /\ s[i + 1] \in F
        /\ 1 \in 1..Len(s) /\ s[1] \in F
    BY <1>2, <2>1
  <2>3. i + 1 = 1
    BY <2>2 DEF Once
  <2> QED
    BY <2>3
<1> QED
  BY <1>1, <1>2

\* Concatenation keeps a frame unique that only one side mentions.
LEMMA OnceConcat ==
  ASSUME NEW s \in Seq(Frames), NEW t \in Seq(Frames), NEW F,
         Once(s, F), Once(t, F),
         (\A f \in F : ~ Mentions(s, f)) \/ (\A f \in F : ~ Mentions(t, f))
  PROVE  Once(s \o t, F)
<1> USE ConcatProperties, LenProperties
<1> SUFFICES ASSUME NEW i \in 1..(Len(s) + Len(t)), NEW j \in 1..(Len(s) + Len(t)),
                    (s \o t)[i] \in F, (s \o t)[j] \in F
             PROVE  i = j
  BY DEF Once
<1>1. ASSUME NEW k \in 1..(Len(s) + Len(t)), (s \o t)[k] \in F
      PROVE  \/ k \in 1..Len(s) /\ s[k] \in F
             \/ k - Len(s) \in 1..Len(t) /\ t[k - Len(s)] \in F
  BY <1>1
<1>2. CASE \A f \in F : ~ Mentions(s, f)
  <2>1. \A k \in 1..Len(s) : s[k] \notin F
    BY <1>2 DEF Mentions
  <2>2. /\ i - Len(s) \in 1..Len(t) /\ t[i - Len(s)] \in F
        /\ j - Len(s) \in 1..Len(t) /\ t[j - Len(s)] \in F
    BY <1>1, <2>1
  <2>3. i - Len(s) = j - Len(s)
    BY <2>2 DEF Once
  <2> QED
    BY <2>3
<1>3. CASE \A f \in F : ~ Mentions(t, f)
  <2>1. \A k \in 1..Len(t) : t[k] \notin F
    BY <1>3 DEF Mentions
  <2>2. i \in 1..Len(s) /\ s[i] \in F /\ j \in 1..Len(s) /\ s[j] \in F
    BY <1>1, <2>1
  <2> QED
    BY <2>2 DEF Once
<1> QED
  BY <1>2, <1>3

\* A step may change what the running handler still has to do, from s to t,
\* without adding a counted frame.
NoMoreDue(s, t) ==
  /\ \A f \in Counted : Mentions(t, f) => Mentions(s, f)
  /\ Once(s, {"SocketConnect"}) => Once(t, {"SocketConnect"})
  /\ Once(s, {"Read", "Rearm"}) => Once(t, {"Read", "Rearm"})

LEMMA QuietOnce ==
  ASSUME NEW s, Quiet(s)
  PROVE  Once(s, {"SocketConnect"}) /\ Once(s, {"Read", "Rearm"})
BY DEF Quiet, Counted, Mentions, Once

LEMMA PushQuiet ==
  ASSUME NEW s \in Seq(Frames), s # << >>, Head(s) \notin Counted,
         NEW front \in Seq(Frames), Quiet(front)
  PROVE  /\ NoMoreDue(s, front \o Tail(s))
         /\ NoMoreDue(s, Tail(s))
<1>1. Tail(s) \in Seq(Frames)
  BY HeadTailProperties
<1>2. \A f \in Counted : Mentions(s, f) <=> Mentions(Tail(s), f)
  BY MentionsTail
<1>3. \A f \in Counted : Mentions(front \o Tail(s), f) <=> Mentions(Tail(s), f)
  BY <1>1, MentionsConcat DEF Quiet
<1>4. ASSUME NEW F \in SUBSET Counted, Once(s, F)
      PROVE  Once(Tail(s), F) /\ Once(front \o Tail(s), F)
  <2>1. Once(Tail(s), F)
    BY <1>4, OnceTail
  <2>2. Once(front, F)
    BY DEF Quiet, Mentions, Once
  <2>3. \A f \in F : ~ Mentions(front, f)
    BY DEF Quiet
  <2> QED
    BY <1>1, <2>1, <2>2, <2>3, OnceConcat
<1>5. {"SocketConnect"} \in SUBSET Counted /\ {"Read", "Rearm"} \in SUBSET Counted
  BY DEF Counted
<1> QED
  BY <1>2, <1>3, <1>4, <1>5 DEF NoMoreDue

LEMMA QuietScripts ==
  /\ Quiet(<< >>)
  /\ Quiet(<<"OnConnect">>)
  /\ Quiet(<<"OnDisconnect">>)
  /\ Quiet(ErrorHandler)
  /\ \A call \in ApiCalls : Quiet(<<call>>)
  /\ \A script \in Seq(ApiCalls) : Quiet(script)
<1>1. ASSUME NEW script \in Seq(ApiCalls)
      PROVE  Quiet(script)
  <2>1. \A i \in DOMAIN script : script[i] \in ApiCalls
    BY LenProperties, ElementOfSeq
  <2> QED
    BY <2>1 DEF Quiet, Counted, Mentions, ApiCalls
<1>2. Quiet(<< >>)
  BY DEF Quiet, Mentions
<1>3. Quiet(<<"OnConnect">>) /\ Quiet(<<"OnDisconnect">>)
  BY DEF Quiet, Mentions, Counted
<1>4. Quiet(ErrorHandler)
  BY DEF Quiet, Mentions, Counted, ErrorHandler
<1>5. \A call \in ApiCalls : Quiet(<<call>>)
  BY DEF Quiet, Mentions, Counted, ApiCalls
<1> QED
  BY <1>1, <1>2, <1>3, <1>4, <1>5

\* The handlers that do push a counted frame push one.
LEMMA OneDue ==
  /\ LET s == <<"OnHostResolved", "SocketConnect">>
     IN  /\ ~ Mentions(s, "Read")
         /\ ~ Mentions(s, "Rearm")
         /\ Once(s, {"SocketConnect"})
         /\ Once(s, {"Read", "Rearm"})
  /\ \A s \in {<<"OnRead", "Rearm">>, ErrorHandler \o <<"Rearm">>} :
         /\ ~ Mentions(s, "SocketConnect")
         /\ Once(s, {"SocketConnect"})
         /\ Once(s, {"Read", "Rearm"})
<1>1. LET s == <<"OnHostResolved", "SocketConnect">>
      IN  /\ ~ Mentions(s, "Read")
          /\ ~ Mentions(s, "Rearm")
          /\ Once(s, {"SocketConnect"})
          /\ Once(s, {"Read", "Rearm"})
  BY DEF Mentions, Once
<1>2. ASSUME NEW s, s = <<"OnRead", "Rearm">>
      PROVE  /\ ~ Mentions(s, "SocketConnect")
             /\ Once(s, {"SocketConnect"})
             /\ Once(s, {"Read", "Rearm"})
  BY <1>2 DEF Mentions, Once
<1>3. ASSUME NEW s, s = ErrorHandler \o <<"Rearm">>
      PROVE  /\ ~ Mentions(s, "SocketConnect")
             /\ Once(s, {"SocketConnect"})
             /\ Once(s, {"Read", "Rearm"})
  <2>1. ErrorHandler \in Seq(Frames) /\ <<"Rearm">> \in Seq(Frames)
    BY HandlersTyped, FrameNames
  <2>2. Quiet(ErrorHandler)
    BY QuietScripts
  <2>3. /\ ~ Mentions(<<"Rearm">>, "SocketConnect")
        /\ Once(<<"Rearm">>, {"SocketConnect"})
        /\ Once(<<"Rearm">>, {"Read", "Rearm"})
    BY DEF Mentions, Once
  <2>4. \A F \in {{"SocketConnect"}, {"Read", "Rearm"}} :
          /\ Once(ErrorHandler, F)
          /\ \A f \in F : ~ Mentions(ErrorHandler, f)
    BY <2>2, QuietOnce DEF Quiet, Counted
  <2>5. \A F \in {{"SocketConnect"}, {"Read", "Rearm"}} :
          Once(ErrorHandler \o <<"Rearm">>, F)
    BY <2>1, <2>3, <2>4, OnceConcat
  <2>6. ~ Mentions(ErrorHandler \o <<"Rearm">>, "SocketConnect")
    BY <2>1, <2>3, <2>4, MentionsConcat
  <2> QED
    BY <1>3, <2>5, <2>6
<1> QED
  BY <1>1, <1>2, <1>3

(***************************************************************************)
(* What a step can do to the queue.                                        *)
(***************************************************************************)

LEMMA QueueAppended ==
  ASSUME TypeOK, NEW c \in Completions, queue' = Append(queue, c)
  PROVE  /\ Len(queue) \in Nat
         /\ DOMAIN queue = 1..Len(queue)
         /\ DOMAIN queue' = 1..(Len(queue) + 1)
         /\ \A i \in DOMAIN queue : queue'[i] = queue[i]
         /\ queue'[Len(queue) + 1] = c
BY AppendProperties, LenProperties DEF TypeOK

LEMMA QueueDispatched ==
  ASSUME TypeOK, queue # << >>, queue' = Tail(queue)
  PROVE  /\ Len(queue) \in Nat \ {0}
         /\ DOMAIN queue = 1..Len(queue)
         /\ DOMAIN queue' = 1..(Len(queue) - 1)
         /\ \A i \in DOMAIN queue' : queue'[i] = queue[i + 1]
         /\ Head(queue) = queue[1]
<1>1. Len(queue) \in Nat \ {0}
  BY EmptySeq DEF TypeOK
<1>2. DOMAIN queue = 1..Len(queue)
  BY LenProperties DEF TypeOK
<1>3. /\ Tail(queue) \in Seq(Completions)
      /\ Len(Tail(queue)) = Len(queue) - 1
      /\ \A i \in 1..Len(Tail(queue)) : Tail(queue)[i] = queue[i + 1]
  BY HeadTailProperties DEF TypeOK
<1>4. DOMAIN Tail(queue) = 1..(Len(queue) - 1)
  BY <1>3, LenProperties
<1> QED
  BY <1>1, <1>2, <1>3, <1>4

LEMMA QueueAborted ==
  ASSUME TypeOK, queue' = queue \o Aborted
  PROVE  /\ DOMAIN queue \subseteq DOMAIN queue'
         /\ \A i \in DOMAIN queue : queue'[i] = queue[i]
         /\ DOMAIN queue = 1..Len(queue)
         /\ Len(queue) \in Nat
         /\ DOMAIN queue' \subseteq Nat
         /\ \A i \in DOMAIN queue' \ DOMAIN queue :
              /\ i > Len(queue)
              /\ queue'[i].op \in {"read", "connect"}
              /\ queue'[i].op = "read" => pending > 0
              /\ queue'[i].op = "connect" =>
                   connect_op /\ i = Len(queue) + pending + 1
              /\ queue'[i].op = "read" => i <= Len(queue) + pending
              /\ ~ queue'[i].ok
              /\ queue'[i].conn = (IF sock = "closed" THEN 0 ELSE conn)
<1> DEFINE n == pending + (IF connect_op THEN 1 ELSE 0)
<1>1. n \in Nat /\ pending \in Nat /\ queue \in Seq(Completions)
  BY DEF TypeOK
<1>2. Aborted \in Seq(Completions)
  BY AbortedTyped
<1>3. DOMAIN Aborted = 1..n
  BY DEF Aborted
<1>4. Len(Aborted) = n
  BY <1>1, <1>2, <1>3, LenProperties
<1>5. Len(queue) \in Nat /\ DOMAIN queue = 1..Len(queue)
  BY <1>1, LenProperties
<1> HIDE DEF n
<1>6. /\ queue' \in Seq(Completions)
      /\ Len(queue') = Len(queue) + n
      /\ \A i \in 1..(Len(queue) + n) :
           queue'[i] = IF i <= Len(queue) THEN queue[i] ELSE Aborted[i - Len(queue)]
  BY <1>1, <1>2, <1>4, ConcatProperties
<1>7. DOMAIN queue' = 1..(Len(queue) + n)
  BY <1>6, LenProperties
<1>8. ASSUME NEW i \in DOMAIN queue' \ DOMAIN queue
      PROVE  /\ i \in Nat /\ i > Len(queue) /\ i <= Len(queue) + n
             /\ queue'[i].op = IF i - Len(queue) <= pending THEN "read" ELSE "connect"
             /\ ~ queue'[i].ok
             /\ queue'[i].conn = IF sock = "closed" THEN 0 ELSE conn
  <2>1. i \in Nat /\ i > Len(queue) /\ i <= Len(queue) + n
    BY <1>1, <1>5, <1>7
  <2>2. i - Len(queue) \in 1..n
    BY <1>1, <1>5, <2>1
  <2>3. queue'[i] = Aborted[i - Len(queue)]
    BY <1>5, <1>6, <1>7, <2>1
  <2>4. \A k \in 1..n :
          Aborted[k] = Completion(IF k <= pending THEN "read" ELSE "connect", FALSE)
    BY DEF Aborted, n
  <2>5. queue'[i] = Completion(IF i - Len(queue) <= pending THEN "read" ELSE "connect",
                               FALSE)
    BY <2>2, <2>3, <2>4
  <2>6. \A op : /\ Completion(op, FALSE).op = op
               /\ ~ Completion(op, FALSE).ok
               /\ Completion(op, FALSE).conn = IF sock = "closed" THEN 0 ELSE conn
    BY DEF Completion
  <2> QED
    BY <2>1, <2>5, <2>6
<1>9. ASSUME NEW i \in DOMAIN queue' \ DOMAIN queue
      PROVE  /\ queue'[i].op \in {"read", "connect"}
             /\ queue'[i].op = "read" => pending > 0 /\ i <= Len(queue) + pending
             /\ queue'[i].op = "connect" => connect_op /\ i = Len(queue) + pending + 1
  <2>1. i \in Nat /\ i > Len(queue) /\ i <= Len(queue) + n
    BY <1>8
  <2>2. CASE i <= Len(queue) + pending
    <3>1. i - Len(queue) <= pending /\ pending > 0
      BY <1>1, <1>5, <2>1, <2>2
    <3>2. queue'[i].op = "read"
      BY <1>8, <3>1
    <3> QED
      BY <2>2, <3>1, <3>2
  <2>3. CASE ~ (i <= Len(queue) + pending)
    <3>1. connect_op /\ i = Len(queue) + pending + 1
      BY <1>1, <1>5, <2>1, <2>3 DEF n
    <3>2. queue'[i].op = "connect"
      <4>1. ~ (i - Len(queue) <= pending)
        BY <1>1, <1>5, <2>1, <2>3
      <4> QED
        BY <1>8, <4>1
    <3> QED
      BY <3>1, <3>2
  <2> QED
    BY <2>2, <2>3
<1>10. DOMAIN queue \subseteq DOMAIN queue' /\ DOMAIN queue' \subseteq Nat
  BY <1>1, <1>5, <1>7
<1> QED
  BY <1>5, <1>6, <1>7, <1>8, <1>9, <1>10
=============================================================================
