--------------------------- MODULE TCPServerProofs ---------------------------
(* Theorems about the server, for every set of clients, every queue of     *)
(* messages and every bound.                                               *)
EXTENDS TCPServerInv, SequenceTheorems, TLAPS

-----------------------------------------------------------------------------
(* The queue after a step: what is left of it, then what the step posts.   *)

Short(s) == s = << >> \/ \E e \in Completions : s = <<e>>

\* q is b with r and a at its end.
Extended(q, b, r, a) ==
  /\ q \in Seq(Completions)
  /\ \A i \in DOMAIN b : i \in DOMAIN q /\ q[i] = b[i]
  /\ \A i \in DOMAIN q : \/ i \in DOMAIN b
                         \/ r # << >> /\ i = Len(b) + 1 /\ q[i] = r[1]
                         \/ a # << >> /\ i = Len(b) + Len(r) + 1 /\ q[i] = a[1]
  /\ r # << >> => Len(b) + 1 \in DOMAIN q /\ q[Len(b) + 1] = r[1]
  /\ a # << >> => /\ Len(b) + Len(r) + 1 \in DOMAIN q
                  /\ q[Len(b) + Len(r) + 1] = a[1]

LEMMA QueueAfter ==
  ASSUME NEW b \in Seq(Completions), NEW r, NEW a, Short(r), Short(a),
         NEW q, q = b \o r \o a
  PROVE  Extended(q, b, r, a)
<1>1. \A s : Short(s) => /\ s \in Seq(Completions)
                         /\ Len(s) \in {0, 1}
                         /\ s # << >> => Len(s) = 1 /\ s[1] \in Completions
                         /\ s = << >> => Len(s) = 0
  <2>1. ASSUME NEW e \in Completions
        PROVE  /\ <<e>> \in Seq(Completions)
               /\ Len(<<e>>) = 1
               /\ <<e>>[1] = e
               /\ <<e>> # << >>
    OBVIOUS
  <2>2. << >> \in Seq(Completions) /\ Len(<< >>) = 0
    OBVIOUS
  <2> QED
    BY <2>1, <2>2 DEF Short
<1>2. /\ Len(b) \in Nat /\ DOMAIN b = 1..Len(b)
      /\ r \in Seq(Completions) /\ Len(r) \in {0, 1}
      /\ a \in Seq(Completions) /\ Len(a) \in {0, 1}
  BY <1>1, LenProperties
<1>3. /\ b \o r \in Seq(Completions)
      /\ Len(b \o r) = Len(b) + Len(r)
      /\ \A i \in 1..(Len(b) + Len(r)) :
           (b \o r)[i] = IF i <= Len(b) THEN b[i] ELSE r[i - Len(b)]
  BY <1>2, ConcatProperties
<1>4. /\ q \in Seq(Completions)
      /\ Len(q) = Len(b) + Len(r) + Len(a)
      /\ \A i \in 1..(Len(b) + Len(r) + Len(a)) :
           q[i] = IF i <= Len(b) + Len(r) THEN (b \o r)[i] ELSE a[i - (Len(b) + Len(r))]
  BY <1>2, <1>3, ConcatProperties
<1>5. DOMAIN q = 1..(Len(b) + Len(r) + Len(a))
  BY <1>4, LenProperties
<1>6. \A i \in DOMAIN b : i \in DOMAIN q /\ q[i] = b[i]
  BY <1>2, <1>3, <1>4, <1>5
<1>7. r # << >> => Len(b) + 1 \in DOMAIN q /\ q[Len(b) + 1] = r[1]
  BY <1>1, <1>2, <1>3, <1>4, <1>5
<1>8. a # << >> => /\ Len(b) + Len(r) + 1 \in DOMAIN q
                   /\ q[Len(b) + Len(r) + 1] = a[1]
  <2> SUFFICES ASSUME a # << >>
               PROVE  /\ Len(b) + Len(r) + 1 \in DOMAIN q
                      /\ q[Len(b) + Len(r) + 1] = a[1]
    OBVIOUS
  <2>1. Len(a) = 1
    BY <1>1
  <2>2. /\ Len(b) + Len(r) + 1 \in 1..(Len(b) + Len(r) + Len(a))
        /\ ~ (Len(b) + Len(r) + 1 <= Len(b) + Len(r))
        /\ (Len(b) + Len(r) + 1) - (Len(b) + Len(r)) = 1
    BY <1>2, <2>1
  <2> QED
    BY <1>4, <1>5, <2>2
<1>9. \A i \in DOMAIN q : \/ i \in DOMAIN b
                          \/ r # << >> /\ i = Len(b) + 1
                          \/ a # << >> /\ i = Len(b) + Len(r) + 1
  <2>1. /\ \/ Len(r) = 0
           \/ r # << >> /\ Len(r) = 1
        /\ \/ Len(a) = 0
           \/ a # << >> /\ Len(a) = 1
    BY <1>1
  <2>2. ASSUME NEW i \in DOMAIN q
        PROVE  \/ i \in DOMAIN b
               \/ r # << >> /\ i = Len(b) + 1
               \/ a # << >> /\ i = Len(b) + Len(r) + 1
    <3>1. i \in Int /\ 1 <= i /\ i <= Len(b) + Len(r) + Len(a)
      BY <1>2, <1>5
    <3>2. CASE i <= Len(b)
      BY <1>2, <3>1, <3>2
    <3>3. CASE i > Len(b) /\ Len(r) = 0
      <4>1. Len(a) = 1 /\ i = Len(b) + Len(r) + 1
        BY <1>2, <3>1, <3>3
      <4> QED
        BY <2>1, <4>1
    <3>4. CASE i > Len(b) /\ Len(r) = 1 /\ r # << >>
      <4>1. Len(a) = 0 => i = Len(b) + 1
        BY <1>2, <3>1, <3>4
      <4>2. Len(a) = 1 => i = Len(b) + 1 \/ i = Len(b) + Len(r) + 1
        BY <1>2, <3>1, <3>4
      <4> QED
        BY <2>1, <3>4, <4>1, <4>2
    <3> QED
      BY <1>2, <2>1, <3>1, <3>2, <3>3, <3>4
  <2> QED
    BY <2>2
<1> QED
  BY <1>4, <1>6, <1>7, <1>8, <1>9 DEF Extended

LEMMA TailMoves ==
  ASSUME TypeOK, queue # << >>
  PROVE  /\ Tail(queue) \in Seq(Completions)
         /\ 1 \in DOMAIN queue
         /\ Head(queue) = queue[1]
         /\ Head(queue) \in Completions
         /\ \A i \in DOMAIN Tail(queue) : /\ i \in Nat
                                          /\ i + 1 \in DOMAIN queue
                                          /\ i + 1 # 1
                                          /\ Tail(queue)[i] = queue[i + 1]
         /\ \A i \in DOMAIN queue : i # 1 => /\ i - 1 \in DOMAIN Tail(queue)
                                             /\ Tail(queue)[i - 1] = queue[i]
<1>1. /\ Len(queue) \in Nat \ {0}
      /\ DOMAIN queue = 1..Len(queue)
      /\ Tail(queue) \in Seq(Completions)
      /\ Len(Tail(queue)) = Len(queue) - 1
      /\ \A i \in 1..Len(Tail(queue)) : Tail(queue)[i] = queue[i + 1]
  BY EmptySeq, LenProperties, HeadTailProperties DEF TypeOK
<1>2. DOMAIN Tail(queue) = 1..(Len(queue) - 1)
  BY <1>1, LenProperties
<1>3. Head(queue) = queue[1] /\ Head(queue) \in Completions
  BY <1>1, HeadTailProperties DEF TypeOK
<1> QED
  BY <1>1, <1>2, <1>3

-----------------------------------------------------------------------------
(* Accepting takes the first client off the backlog, or nobody.            *)

Waiting(waiting, open) ==
  /\ \A i \in DOMAIN waiting : /\ client[waiting[i]] # "away"
                               /\ ~ open[waiting[i]]
                               /\ sent[waiting[i]] = << >>
  /\ \A i, j \in DOMAIN waiting : waiting[i] = waiting[j] => i = j

LEMMA BacklogTail ==
  ASSUME TypeOK, NotAccepted, backlog # << >>
  PROVE  /\ Head(backlog) \in Clients
         /\ ~ is_open[Head(backlog)]
         /\ sent[Head(backlog)] = << >>
         /\ client[Head(backlog)] # "away"
         /\ Tail(backlog) \in Seq(Clients)
         /\ Waiting(Tail(backlog), [is_open EXCEPT ![Head(backlog)] = TRUE])
<1>1. /\ Len(backlog) \in Nat \ {0}
      /\ DOMAIN backlog = 1..Len(backlog)
      /\ Tail(backlog) \in Seq(Clients)
      /\ Len(Tail(backlog)) = Len(backlog) - 1
      /\ \A i \in 1..Len(Tail(backlog)) : Tail(backlog)[i] = backlog[i + 1]
      /\ Head(backlog) = backlog[1]
      /\ Head(backlog) \in Clients
  BY EmptySeq, LenProperties, HeadTailProperties DEF TypeOK
<1>2. DOMAIN Tail(backlog) = 1..(Len(backlog) - 1)
  BY <1>1, LenProperties
<1>3. 1 \in DOMAIN backlog
  BY <1>1
<1>4. \A i \in DOMAIN Tail(backlog) : /\ i + 1 \in DOMAIN backlog
                                     /\ i + 1 # 1
                                     /\ i \in Nat
                                     /\ Tail(backlog)[i] = backlog[i + 1]
  BY <1>1, <1>2
<1>5. \A i \in DOMAIN backlog : backlog[i] \in Clients
  BY <1>1, ElementOfSeq DEF TypeOK
<1>6. \A i \in DOMAIN Tail(backlog) : /\ Tail(backlog)[i] \in Clients
                                     /\ Tail(backlog)[i] # Head(backlog)
                                     /\ client[Tail(backlog)[i]] # "away"
                                     /\ ~ is_open[Tail(backlog)[i]]
                                     /\ sent[Tail(backlog)[i]] = << >>
  BY <1>1, <1>3, <1>4, <1>5 DEF NotAccepted
<1>7. \A i, j \in DOMAIN Tail(backlog) : Tail(backlog)[i] = Tail(backlog)[j] => i = j
  <2> SUFFICES ASSUME NEW i \in DOMAIN Tail(backlog), NEW j \in DOMAIN Tail(backlog),
                      Tail(backlog)[i] = Tail(backlog)[j]
               PROVE  i = j
    OBVIOUS
  <2>1. i + 1 = j + 1
    BY <1>4 DEF NotAccepted
  <2> QED
    BY <1>4, <2>1
<1>8. \A i \in DOMAIN Tail(backlog) :
         ~ [is_open EXCEPT ![Head(backlog)] = TRUE][Tail(backlog)[i]]
  BY <1>6 DEF TypeOK
<1> QED
  BY <1>1, <1>3, <1>6, <1>7, <1>8 DEF NotAccepted, Waiting

\* What accept() leaves behind; `done' is its completion.
Accepted(done) ==
  /\ done \in Completions
  /\ done.op = "accept"
  /\ done.ok => /\ done.conn = ptr_connection'
                /\ ptr_connection' \in Clients
                /\ ~ is_open[ptr_connection']
                /\ sent[ptr_connection'] = << >>
                /\ client[ptr_connection'] # "away"
                /\ is_open' = [is_open EXCEPT ![ptr_connection'] = TRUE]
  /\ ~ done.ok => is_open' = is_open

AcceptTyped ==
  /\ ptr_connection' \in Clients \cup {Nobody}
  /\ backlog' \in Seq(Clients)
  /\ is_open' \in [Clients -> BOOLEAN]
  /\ Waiting(backlog', is_open')

LEMMA AcceptsEffect ==
  ASSUME TypeOK, NotAccepted, backlog # << >>, NEW done, Accepts(Head(backlog), done)
  PROVE  Accepted(done) /\ AcceptTyped
<1>1. CASE done = Completion("accept", TRUE, Head(backlog))
  <2>1. /\ done.op = "accept" /\ done.ok /\ done.conn = Head(backlog)
        /\ done \in Completions
    BY <1>1, BacklogTail DEF Completion, Completions
  <2>2. /\ ptr_connection' = Head(backlog)
        /\ backlog' = Tail(backlog)
        /\ is_open' = [is_open EXCEPT ![Head(backlog)] = TRUE]
    BY <1>1 DEF Accepts, Completion
  <2>3. is_open' \in [Clients -> BOOLEAN]
    BY <2>2 DEF TypeOK
  <2> QED
    BY <2>1, <2>2, <2>3, BacklogTail DEF Accepted, AcceptTyped
<1>2. CASE done = Completion("accept", FALSE, Nobody)
  <2>1. done.op = "accept" /\ ~ done.ok /\ done \in Completions
    BY <1>2 DEF Completion, Completions
  <2>2. ptr_connection' = Nobody /\ UNCHANGED <<backlog, is_open>>
    BY <1>2 DEF Accepts, Completion
  <2> QED
    BY <2>1, <2>2 DEF Accepted, AcceptTyped, NotAccepted, Waiting, TypeOK
<1> QED
  BY <1>1, <1>2 DEF Accepts

LEMMA StartAcceptEffect ==
  ASSUME TypeOK, NotAccepted, NEW a, StartAccept(a)
  PROVE  /\ AcceptTyped
         /\ accept_op' \in BOOLEAN
         /\ Short(a)
         /\ a # << >> => Accepted(a[1]) /\ accept_op' = accept_op
         /\ a = << >> => is_open' = is_open
<1>1. CASE backlog # << >>
  <2>1. PICK done : Accepts(Head(backlog), done) /\ a = <<done>> /\ accept_op' = accept_op
    BY <1>1 DEF StartAccept
  <2>2. Accepted(done) /\ AcceptTyped
    BY <1>1, <2>1, AcceptsEffect
  <2>3. a # << >> /\ a[1] = done
    BY <2>1
  <2> QED
    BY <2>1, <2>2, <2>3 DEF Short, Accepted, TypeOK
<1>2. CASE backlog = << >>
  BY <1>2 DEF StartAccept, AcceptTyped, Short, NotAccepted, Waiting, TypeOK
<1> QED
  BY <1>1, <1>2

-----------------------------------------------------------------------------
(* A connection writes a message and starts the next read.                 *)

LEMMA WriteEffect ==
  ASSUME TypeOK, CopyRemains, ~ thrown, thrown' = thrown, NEW c \in Clients,
         WriteMessage(c)
  PROVE  /\ sent' \in [Clients -> Seq(Messages)]
         /\ message_queue' \in [Clients -> Seq(Messages)]
         /\ sent' = [sent EXCEPT ![c] = Append(@, Service!Message(Len(@) + 1))]
         /\ Len(sent[c]) \in Nat
         /\ Len(sent'[c]) = Len(sent[c]) + 1
         /\ sent'[c] # << >>
         /\ \A d \in Clients : d # c => sent'[d] = sent[d]
         /\ CopyRemains'
<1> DEFINE m  == message_queue[c]
           n  == Len(sent[c])
           w  == IF m # << >> THEN Head(m) ELSE Default
<1>1. /\ m \in Seq(Messages) /\ sent[c] \in Seq(Messages)
      /\ n \in Nat /\ Len(m) \in Nat /\ Len(Script) \in Nat
      /\ m = << >> <=> Len(m) = 0
  BY ScriptAssumption, LenProperties, EmptySeq DEF TypeOK
<1>2. /\ n <= Len(Script) => /\ Len(m) = Len(Script) - n
                             /\ \A k \in 1..Len(m) : m[k] = Script[n + k]
      /\ n > Len(Script) => m = << >>
  BY DEF CopyRemains
<1>0. ~ thrown /\ n + 1 \in Nat
  BY <1>1
<1>3. /\ sent' = [sent EXCEPT ![c] = Append(@, w)]
      /\ message_queue' = [message_queue EXCEPT ![c] = IF @ # << >> THEN Tail(@) ELSE @]
  BY DEF WriteMessage, Pop
<1>5. w \in Messages
  BY <1>1, ScriptAssumption, HeadTailProperties
<1>6. /\ Append(sent[c], w) \in Seq(Messages)
      /\ Len(Append(sent[c], w)) = n + 1
      /\ Append(sent[c], w) # << >>
  BY <1>1, <1>5, AppendProperties, EmptySeq
<1>7. m # << >> => /\ Tail(m) \in Seq(Messages)
                   /\ Len(Tail(m)) = Len(m) - 1
                   /\ \A k \in 1..Len(Tail(m)) : Tail(m)[k] = m[k + 1]
  BY <1>1, HeadTailProperties
<1>8. /\ sent'[c] = Append(sent[c], w)
      /\ message_queue'[c] = IF m # << >> THEN Tail(m) ELSE m
      /\ \A d \in Clients : d # c => /\ sent'[d] = sent[d]
                                     /\ message_queue'[d] = message_queue[d]
  BY <1>3 DEF TypeOK
<1>10. /\ sent' \in [Clients -> Seq(Messages)]
       /\ message_queue' \in [Clients -> Seq(Messages)]
  BY <1>1, <1>3, <1>6, <1>7 DEF TypeOK
<1> DEFINE copy(d) ==
      /\ Len(sent'[d]) <= Len(Script) =>
           /\ Len(message_queue'[d]) = Len(Script) - Len(sent'[d])
           /\ \A k \in 1..Len(message_queue'[d]) :
                message_queue'[d][k] = Script[Len(sent'[d]) + k]
      /\ Len(sent'[d]) > Len(Script) => message_queue'[d] = << >>
<1>12. \A d \in Clients : d # c => copy(d)
  <2> SUFFICES ASSUME NEW d \in Clients, d # c
               PROVE  copy(d)
    OBVIOUS
  <2>1. sent'[d] = sent[d] /\ message_queue'[d] = message_queue[d]
    BY <1>8
  <2> QED
    BY <2>1 DEF CopyRemains
<1>14. m # << >> => Head(m) = m[1]
  BY <1>1, HeadTailProperties
<1>15. w = IF m # << >> THEN m[1] ELSE Default
  BY <1>14
<1> HIDE DEF m, n, w
<1>4. w = Service!Message(n + 1)
  <2>1. CASE m # << >>
    <3>1. n + 1 <= Len(Script) /\ 1 \in 1..Len(m)
      BY <1>1, <1>2, <2>1
    <3>2. m[1] = Script[n + 1]
      BY <1>1, <1>2, <2>1, <3>1
    <3> QED
      BY <1>15, <2>1, <3>1, <3>2 DEF Service!Message
  <2>2. CASE m = << >>
    <3>1. ~ (n + 1 <= Len(Script))
      BY <1>1, <1>2, <2>2
    <3> QED
      BY <1>15, <2>2, <3>1 DEF Service!Message
  <2> QED
    BY <2>1, <2>2
<1>9. sent' = [sent EXCEPT ![c] = Append(@, Service!Message(Len(@) + 1))]
  BY <1>3, <1>4 DEF n
<1>11. copy(c)
  <2>1. CASE n + 1 <= Len(Script)
    <3>1. m # << >> /\ Len(m) = Len(Script) - n
      BY <1>1, <1>2, <2>1
    <3>2. /\ message_queue'[c] = Tail(m)
          /\ Len(Tail(m)) = Len(Script) - (n + 1)
      BY <1>1, <1>7, <1>8, <3>1
    <3>3. \A k \in 1..Len(Tail(m)) : Tail(m)[k] = Script[(n + 1) + k]
      <4> SUFFICES ASSUME NEW k \in 1..Len(Tail(m))
                   PROVE  Tail(m)[k] = Script[(n + 1) + k]
        OBVIOUS
      <4>1. k + 1 \in 1..Len(m) /\ n + (k + 1) = (n + 1) + k
        BY <1>1, <1>7, <3>1
      <4> QED
        BY <1>1, <1>2, <1>7, <2>1, <3>1, <4>1
    <3>4. ~ (n + 1 > Len(Script))
      BY <1>1, <2>1
    <3> QED
      BY <1>0, <1>6, <1>8, <3>2, <3>3, <3>4
  <2>2. CASE n + 1 > Len(Script)
    <3>1. message_queue'[c] = << >>
      <4>1. CASE m = << >>
        BY <1>8, <4>1
      <4>2. CASE m # << >>
        <5>1. Len(Tail(m)) = 0
          BY <1>1, <1>2, <1>7, <2>2, <4>2
        <5> QED
          BY <1>7, <1>8, <4>2, <5>1, EmptySeq
      <4> QED
        BY <4>1, <4>2
    <3>2. ~ (n + 1 <= Len(Script))
      BY <1>1, <2>2
    <3> QED
      BY <1>6, <1>8, <3>1, <3>2
  <2>3. n + 1 <= Len(Script) \/ n + 1 > Len(Script)
    BY <1>0, <1>1
  <2> QED
    BY <2>1, <2>2, <2>3
<1>13. CopyRemains'
  BY <1>11, <1>12 DEF CopyRemains
<1> QED
  BY <1>1, <1>6, <1>8, <1>9, <1>10, <1>13 DEF n

LEMMA ReadEffect ==
  ASSUME TypeOK, NEW c \in Clients, NEW r, StartRead(c, r)
  PROVE  /\ Short(r)
         /\ reading' \in [Clients -> Nat]
         /\ unread' \in [Clients -> Nat]
         /\ unread'[c] <= unread[c]
         /\ \A d \in Clients : d # c => unread'[d] = unread[d] /\ reading'[d] = reading[d]
         /\ r = << >> => reading'[c] = reading[c] + 1
         /\ r # << >> => /\ r[1].op = "read"
                         /\ r[1].conn = c
                         /\ r[1].ok => unread'[c] < unread[c]
                         /\ reading' = reading
<1>1. ASSUME NEW ok \in BOOLEAN, Receives(c, ok)
      PROVE  /\ unread' \in [Clients -> Nat]
             /\ unread'[c] <= unread[c]
             /\ ok => unread'[c] < unread[c]
             /\ \A d \in Clients : d # c => unread'[d] = unread[d]
  <2>1. CASE ok
    <3>1. PICK n \in 1..unread[c] : unread' = [unread EXCEPT ![c] = @ - n]
      BY <1>1, <2>1 DEF Receives
    <3>2. unread[c] \in Nat
      BY DEF TypeOK
    <3>3. unread[c] - n \in Nat /\ unread[c] - n < unread[c] /\ unread[c] - n <= unread[c]
      BY <3>2
    <3> QED
      BY <3>1, <3>2, <3>3 DEF TypeOK
  <2>2. CASE ~ ok
    BY <1>1, <2>2 DEF Receives, TypeOK
  <2> QED
    BY <2>1, <2>2
<1>2. CASE \E ok \in BOOLEAN : /\ Receives(c, ok)
                               /\ r = <<Completion("read", ok, c)>>
                               /\ UNCHANGED reading
  <2>1. PICK ok \in BOOLEAN : /\ Receives(c, ok)
                              /\ r = <<Completion("read", ok, c)>>
                              /\ UNCHANGED reading
    BY <1>2
  <2> DEFINE e == Completion("read", ok, c)
  <2>2. e.op = "read" /\ e.conn = c /\ e.ok = ok /\ e \in Completions
    BY DEF Completion, Completions
  <2>3. r = <<e>>
    BY <2>1
  <2> HIDE DEF e
  <2>4. r # << >> /\ r[1] = e /\ Short(r)
    BY <2>2, <2>3 DEF Short
  <2> QED
    BY <1>1, <2>1, <2>2, <2>4 DEF TypeOK
<1>3. CASE /\ unread[c] = 0
           /\ r = << >>
           /\ reading' = [reading EXCEPT ![c] = @ + 1]
           /\ UNCHANGED unread
  BY <1>3 DEF Short, TypeOK
<1> QED
  BY <1>2, <1>3 DEF StartRead

\* What both completion handlers do for the connection c they serve: a is what the
\* acceptor posts, if the handler also accepts.
Served(c, r, a) ==
  /\ WriteMessage(c)
  /\ StartRead(c, r)
  /\ queue # << >>
  /\ queue' = Tail(queue) \o r \o a
  /\ Short(a)
  /\ a # << >> => a[1].op = "accept"
  /\ \A d \in Clients : sent[d] # << >> /\ is_open'[d] => is_open[d]
  /\ UNCHANGED <<thrown, written>>

LEMMA ServedEffect ==
  ASSUME TypeOK, OneRead, CopyRemains, Paid, ~ thrown,
         NEW c \in Clients, NEW r, NEW a, Served(c, r, a),
         \A i \in DOMAIN queue : ReadAt(i, c) => i = 1,
         \A d \in Clients : d # c => ~ ReadAt(1, d),
         reading[c] = 0,
         sent[c] = << >> \/ Len(sent[c]) + unread[c] <= written[c]
  PROVE  /\ OneRead'
         /\ CopyRemains'
         /\ Paid'
         /\ queue' \in Seq(Completions)
         /\ reading' \in [Clients -> Nat]
         /\ unread' \in [Clients -> Nat]
         /\ sent' \in [Clients -> Seq(Messages)]
         /\ message_queue' \in [Clients -> Seq(Messages)]
         /\ \A d \in Clients : d # c => sent'[d] = sent[d]
         /\ Len(sent[c]) <= written[c]
         /\ sent' = [sent EXCEPT ![c] = Append(@, Service!Message(Len(@) + 1))]
<1> DEFINE b == Tail(queue)
           p == Len(b) + 1
<1>1. WriteMessage(c) /\ StartRead(c, r) /\ thrown' = thrown /\ written' = written
  BY DEF Served
<1>2. /\ sent' \in [Clients -> Seq(Messages)]
      /\ message_queue' \in [Clients -> Seq(Messages)]
      /\ sent' = [sent EXCEPT ![c] = Append(@, Service!Message(Len(@) + 1))]
      /\ Len(sent[c]) \in Nat
      /\ Len(sent'[c]) = Len(sent[c]) + 1
      /\ sent'[c] # << >>
      /\ \A d \in Clients : d # c => sent'[d] = sent[d]
      /\ CopyRemains'
  BY <1>1, WriteEffect
<1>3. /\ Short(r)
      /\ reading' \in [Clients -> Nat]
      /\ unread' \in [Clients -> Nat]
      /\ unread'[c] <= unread[c]
      /\ \A d \in Clients : d # c => unread'[d] = unread[d] /\ reading'[d] = reading[d]
      /\ r = << >> => reading'[c] = reading[c] + 1
      /\ r # << >> => /\ r[1].op = "read"
                      /\ r[1].conn = c
                      /\ r[1].ok => unread'[c] < unread[c]
                      /\ reading' = reading
  BY <1>1, ReadEffect
<1>4. /\ b \in Seq(Completions)
      /\ \A i \in DOMAIN b : i + 1 \in DOMAIN queue /\ i + 1 # 1 /\ i \in Nat
                             /\ b[i] = queue[i + 1]
      /\ \A i \in DOMAIN queue : i # 1 => i - 1 \in DOMAIN b /\ b[i - 1] = queue[i]
  BY TailMoves DEF Served
<1>5. queue' = b \o r \o a /\ Short(a) /\ (a # << >> => a[1].op = "accept")
  BY DEF Served
<1> HIDE DEF b
<1>e. Extended(queue', b, r, a)
  BY <1>3, <1>4, <1>5, QueueAfter
<1>6. /\ queue' \in Seq(Completions)
      /\ \A i \in DOMAIN b : i \in DOMAIN queue' /\ queue'[i] = b[i]
      /\ \A i \in DOMAIN queue' : \/ i \in DOMAIN b
                                  \/ r # << >> /\ i = p /\ queue'[i] = r[1]
                                  \/ a # << >> /\ queue'[i] = a[1]
      /\ r # << >> => p \in DOMAIN queue' /\ queue'[p] = r[1]
  BY <1>e DEF Extended
<1> HIDE DEF p
<1>7. \A d \in Clients : \A i \in DOMAIN queue' :
        ReadAt(i, d)' => \/ /\ i + 1 \in DOMAIN queue
                            /\ i \in Nat
                            /\ ReadAt(i + 1, d)
                            /\ queue'[i] = queue[i + 1]
                            /\ d # c
                         \/ d = c /\ r # << >> /\ i = p /\ queue'[i] = r[1]
  <2> SUFFICES ASSUME NEW d \in Clients, NEW i \in DOMAIN queue', ReadAt(i, d)'
               PROVE  \/ /\ i + 1 \in DOMAIN queue
                         /\ i \in Nat
                         /\ ReadAt(i + 1, d)
                         /\ queue'[i] = queue[i + 1]
                         /\ d # c
                      \/ d = c /\ r # << >> /\ i = p /\ queue'[i] = r[1]
    OBVIOUS
  <2>1. CASE i \in DOMAIN b
    <3>1. /\ i + 1 \in DOMAIN queue /\ i + 1 # 1 /\ i \in Nat
          /\ queue'[i] = queue[i + 1]
      BY <1>4, <1>6, <2>1
    <3>2. ReadAt(i + 1, d)
      BY <3>1 DEF ReadAt
    <3> QED
      BY <3>1, <3>2
  <2>2. CASE r # << >> /\ i = p /\ queue'[i] = r[1]
    BY <1>3, <2>2 DEF ReadAt
  <2>3. CASE a # << >> /\ queue'[i] = a[1]
    BY <1>5, <2>3 DEF ReadAt
  <2> QED
    BY <1>6, <2>1, <2>2, <2>3
<1>8. \A d \in Clients : d # c /\ ReadFor(d) => ReadFor(d)'
  <2> SUFFICES ASSUME NEW d \in Clients, d # c, NEW i \in DOMAIN queue, ReadAt(i, d)
               PROVE  ReadFor(d)'
    BY DEF ReadFor
  <2>1. i # 1
    OBVIOUS
  <2>2. i - 1 \in DOMAIN queue' /\ queue'[i - 1] = queue[i]
    BY <1>4, <1>6, <2>1
  <2> QED
    BY <2>2 DEF ReadFor, ReadAt
<1>9. r # << >> => ReadFor(c)'
  BY <1>3, <1>6 DEF ReadFor, ReadAt
<1>10. OneRead'
  <2>1. ASSUME NEW d \in Clients, d # c
        PROVE  /\ sent'[d] = << >> => reading'[d] = 0 /\ ~ ReadFor(d)'
               /\ reading'[d] > 0 => reading'[d] = 1 /\ ~ ReadFor(d)'
               /\ \A i, j \in DOMAIN queue' : ReadAt(i, d)' /\ ReadAt(j, d)' => i = j
               /\ is_open'[d] /\ sent'[d] # << >> /\ ~ thrown' => reading'[d] > 0 \/ ReadFor(d)'
    <3>1. sent'[d] = sent[d] /\ reading'[d] = reading[d]
      BY <1>2, <1>3, <2>1
    <3>2. ReadFor(d)' => ReadFor(d)
      BY <1>7, <2>1 DEF ReadFor
    <3>3. \A i, j \in DOMAIN queue' : ReadAt(i, d)' /\ ReadAt(j, d)' => i = j
      <4> SUFFICES ASSUME NEW i \in DOMAIN queue', NEW j \in DOMAIN queue',
                          ReadAt(i, d)', ReadAt(j, d)'
                   PROVE  i = j
        OBVIOUS
      <4>1. i \in Nat /\ j \in Nat /\ i + 1 = j + 1
        BY <1>7, <2>1 DEF OneRead
      <4> QED
        BY <4>1
    <3>4. is_open'[d] /\ sent[d] # << >> => is_open[d]
      BY DEF Served
    <3> QED
      BY <1>1, <1>8, <2>1, <3>1, <3>2, <3>3, <3>4 DEF OneRead
  <2>2. /\ sent'[c] # << >>
        /\ reading'[c] > 0 => reading'[c] = 1 /\ ~ ReadFor(c)'
        /\ \A i, j \in DOMAIN queue' : ReadAt(i, c)' /\ ReadAt(j, c)' => i = j
        /\ reading'[c] > 0 \/ ReadFor(c)'
    <3>1. r = << >> => reading'[c] = 1 /\ ~ ReadFor(c)'
      BY <1>3, <1>7 DEF ReadFor
    <3>2. r # << >> => reading'[c] = 0
      BY <1>3
    <3> QED
      BY <1>2, <1>7, <1>9, <3>1, <3>2
  <2> QED
    BY <2>1, <2>2 DEF OneRead
<1>11. /\ \A d \in Clients : unread[d] \in Nat /\ written[d] \in Nat
       /\ unread'[c] \in Nat
  BY <1>3 DEF TypeOK
<1>12. Len(sent[c]) <= written[c]
       /\ Len(sent'[c]) + unread[c] <= written[c] + 1
  <2>1. CASE sent[c] = << >>
    <3>1. Len(sent[c]) = 0
      BY <2>1
    <3> QED
      BY <1>2, <1>11, <3>1 DEF Paid
  <2>2. CASE Len(sent[c]) + unread[c] <= written[c]
    BY <1>2, <1>11, <2>2
  <2> QED
    BY <2>1, <2>2
<1>13. Paid'
  <2>1. ASSUME NEW d \in Clients, d # c
        PROVE  /\ unread'[d] <= written'[d]
               /\ sent'[d] # << >> => Len(sent'[d]) + unread'[d] <= written'[d] + 1
               /\ \A i \in DOMAIN queue' : ReadAt(i, d)' /\ queue'[i].ok
                                            => Len(sent'[d]) + unread'[d] <= written'[d]
    BY <1>1, <1>2, <1>3, <1>7, <2>1 DEF Paid
  <2>2. unread'[c] <= written'[c]
    <3>1. unread[c] <= written[c]
      BY DEF Paid
    <3> QED
      BY <1>1, <1>3, <1>11, <3>1
  <2>3. Len(sent'[c]) + unread'[c] <= written'[c] + 1
    <3>1. unread'[c] \in Nat /\ unread'[c] <= unread[c] /\ written' = written
      BY <1>1, <1>3, <1>11
    <3>2. Len(sent'[c]) \in Nat /\ unread[c] \in Nat /\ written[c] \in Nat
      BY <1>1, <1>2, <1>11
    <3> QED
      BY <1>12, <3>1, <3>2
  <2>4. \A i \in DOMAIN queue' : ReadAt(i, c)' /\ queue'[i].ok
                                => Len(sent'[c]) + unread'[c] <= written'[c]
    <3> SUFFICES ASSUME NEW i \in DOMAIN queue', ReadAt(i, c)', queue'[i].ok
                 PROVE  Len(sent'[c]) + unread'[c] <= written'[c]
      OBVIOUS
    <3>1. unread'[c] < unread[c]
      BY <1>3, <1>7
    <3> QED
      BY <1>1, <1>2, <1>11, <1>12, <3>1
  <2> QED
    BY <2>1, <2>2, <2>3, <2>4 DEF Paid
<1> QED
  BY <1>2, <1>3, <1>6, <1>10, <1>12, <1>13

-----------------------------------------------------------------------------
(* The parts of the invariant that are about accepting.                    *)

LEMMA AppendExtends ==
  ASSUME TypeOK, NEW e \in Completions, queue' = Append(queue, e)
  PROVE  /\ Extended(queue', queue, << >>, <<e>>)
         /\ Extended(queue', queue, <<e>>, << >>)
<1>1. /\ << >> \in Seq(Completions)
      /\ <<e>> \in Seq(Completions)
      /\ queue \in Seq(Completions)
      /\ Short(<< >>) /\ Short(<<e>>)
  BY DEF TypeOK, Short
<1>2. /\ queue \o << >> = queue
      /\ Append(queue, e) = queue \o <<e>>
      /\ (queue \o <<e>>) \in Seq(Completions)
  BY <1>1, ConcatEmptySeq, AppendIsConcat, ConcatProperties
<1>3. (queue \o <<e>>) \o << >> = queue \o <<e>>
  BY <1>2, ConcatEmptySeq
<1> QED
  BY <1>1, <1>2, <1>3, QueueAfter

LEMMA AcceptedEffect ==
  ASSUME TypeOK, NotAccepted, NEW b, NEW r, NEW a, Extended(queue', b, r, a),
         \A i \in DOMAIN b : b[i].op = "read",
         r # << >> => r[1].op = "read",
         AcceptTyped,
         a # << >> => Accepted(a[1]),
         a = << >> => is_open' = is_open,
         accept_op' => a = << >>,
         client' = client,
         \A d \in Clients : sent'[d] = sent[d] \/ is_open[d]
  PROVE  OneAccept' /\ AcceptHeld' /\ NotAccepted'
<1>1. \A i \in DOMAIN queue' : AcceptAt(i)' => /\ a # << >>
                                              /\ i = Len(b) + Len(r) + 1
                                              /\ queue'[i] = a[1]
  BY DEF Extended, AcceptAt
<1>2. OneAccept'
  BY <1>1 DEF OneAccept
<1>3. \A d \in Clients : is_open[d] => is_open'[d]
  BY DEF Accepted, TypeOK
<1>4. AcceptHeld'
  <2> SUFFICES ASSUME a # << >>, a[1].ok
               PROVE  /\ a[1].conn = ptr_connection'
                      /\ ptr_connection' \in Clients
                      /\ is_open'[ptr_connection']
                      /\ sent'[ptr_connection'] = << >>
    BY <1>1 DEF AcceptHeld
  <2>1. /\ a[1].conn = ptr_connection'
        /\ ptr_connection' \in Clients
        /\ ~ is_open[ptr_connection']
        /\ sent[ptr_connection'] = << >>
        /\ is_open' = [is_open EXCEPT ![ptr_connection'] = TRUE]
    BY DEF Accepted
  <2> QED
    BY <2>1 DEF TypeOK
<1>5. NotAccepted'
  <2>1. \A i \in DOMAIN backlog' : backlog'[i] \in Clients
    BY LenProperties, ElementOfSeq DEF AcceptTyped
  <2>2. \A i \in DOMAIN backlog' : /\ client'[backlog'[i]] # "away"
                                  /\ ~ is_open'[backlog'[i]]
                                  /\ sent'[backlog'[i]] = << >>
    BY <1>3, <2>1 DEF AcceptTyped, Waiting
  <2>3. \A i, j \in DOMAIN backlog' : backlog'[i] = backlog'[j] => i = j
    BY DEF AcceptTyped, Waiting
  <2>4. ASSUME NEW d \in Clients, client'[d] = "away"
        PROVE  ~ is_open'[d] /\ sent'[d] = << >>
    <3>1. ~ is_open[d] /\ sent[d] = << >> /\ sent'[d] = sent[d]
      BY <2>4 DEF NotAccepted
    <3>2. ~ is_open'[d]
      <4>1. CASE a # << >> /\ a[1].ok
        <5>1. client[ptr_connection'] # "away"
              /\ is_open' = [is_open EXCEPT ![ptr_connection'] = TRUE]
          BY <4>1 DEF Accepted
        <5> QED
          BY <2>4, <3>1, <5>1 DEF TypeOK
      <4>2. CASE ~ (a # << >> /\ a[1].ok)
        BY <3>1, <4>2 DEF Accepted
      <4> QED
        BY <4>1, <4>2
    <3> QED
      BY <3>1, <3>2
  <2> QED
    BY <2>2, <2>3, <2>4 DEF NotAccepted
<1> QED
  BY <1>2, <1>4, <1>5

-----------------------------------------------------------------------------
(* ServerInv is inductive.                                                 *)

\* A handler that serves nobody: an error, or a write that throws.
LEMMA DequeueStep ==
  ASSUME TypeOK, ServerInv, queue # << >>, queue' = Tail(queue),
         UNCHANGED <<ptr_connection, accept_op, backlog, reading, client, unread, written,
                     sent>>,
         \A d \in Clients : is_open'[d] = is_open[d] \/ (~ is_open'[d] /\ sent[d] # << >>),
         CopyRemains',
         thrown => thrown',
         \A d \in Clients : ReadAt(1, d) /\ is_open'[d] => thrown'
  PROVE  ServerInv'
<1>1. \A i \in DOMAIN queue' :
        /\ i \in Nat
        /\ i + 1 \in DOMAIN queue
        /\ queue'[i] = queue[i + 1]
        /\ AcceptAt(i)' => AcceptAt(i + 1)
        /\ \A d : ReadAt(i, d)' => ReadAt(i + 1, d)
  BY TailMoves DEF AcceptAt, ReadAt
<1>2. \A i \in DOMAIN queue : i # 1 => i - 1 \in DOMAIN queue' /\ queue'[i - 1] = queue[i]
  BY TailMoves
<1>3. \A i, j \in DOMAIN queue' : i + 1 = j + 1 => i = j
  BY <1>1
<1>4. \A d \in Clients : ReadFor(d)' => ReadFor(d)
  BY <1>1 DEF ReadFor
<1>5. \A d \in Clients : ReadFor(d) => ReadFor(d)' \/ ReadAt(1, d)
  BY <1>2 DEF ReadFor, ReadAt
<1>6. OneAccept'
  BY <1>1, <1>3 DEF ServerInv, OneAccept
<1>7. AcceptHeld'
  <2> SUFFICES ASSUME NEW i \in DOMAIN queue', AcceptAt(i)', queue'[i].ok
               PROVE  /\ queue'[i].conn = ptr_connection
                      /\ ptr_connection \in Clients
                      /\ is_open'[ptr_connection]
                      /\ sent[ptr_connection] = << >>
    BY DEF AcceptHeld
  <2>1. i + 1 \in DOMAIN queue /\ AcceptAt(i + 1) /\ queue'[i] = queue[i + 1]
    BY <1>1
  <2>2. /\ queue'[i].conn = ptr_connection
        /\ ptr_connection \in Clients
        /\ is_open[ptr_connection]
        /\ sent[ptr_connection] = << >>
    BY <2>1 DEF ServerInv, AcceptHeld
  <2> QED
    BY <2>2
<1>8. NotAccepted'
  <2>1. \A i \in DOMAIN backlog : backlog[i] \in Clients
    BY LenProperties, ElementOfSeq DEF TypeOK
  <2> QED
    BY <2>1 DEF ServerInv, NotAccepted
<1>9. OneRead'
  BY <1>1, <1>3, <1>4, <1>5 DEF ServerInv, OneRead
<1>11. Paid'
  BY <1>1 DEF ServerInv, Paid
<1> QED
  BY <1>6, <1>7, <1>8, <1>9, <1>11 DEF ServerInv

LEMMA HandleReadStep ==
  ASSUME TypeOK, ServerInv, HandleRead
  PROVE  /\ ServerInv'
         /\ TypeOK'
         /\ [Service!Next]_<<written, sent>>
<1> DEFINE c == Head(queue).conn
<1>1. /\ ~ thrown
      /\ queue # << >>
      /\ Head(queue).op = "read"
      /\ UNCHANGED remote
  BY DEF HandleRead, HandleError, Dispatch
<1>2. /\ c \in Clients
      /\ 1 \in DOMAIN queue
      /\ queue[1] = Head(queue)
      /\ ReadAt(1, c)
      /\ Tail(queue) \in Seq(Completions)
  BY <1>1, TailMoves DEF Completions, ReadAt
<1>3. /\ \A i \in DOMAIN queue : ReadAt(i, c) => i = 1
      /\ \A d \in Clients : d # c => ~ ReadAt(1, d)
      /\ reading[c] = 0
      /\ sent[c] # << >>
  <2>1. ReadFor(c)
    BY <1>2 DEF ReadFor
  <2>2. \A i \in DOMAIN queue : ReadAt(i, c) => i = 1
    BY <1>2 DEF ServerInv, OneRead
  <2>3. ~ (reading[c] > 0) /\ reading[c] \in Nat /\ sent[c] # << >>
    BY <1>2, <2>1 DEF ServerInv, OneRead, TypeOK
  <2> QED
    BY <1>2, <2>2, <2>3 DEF ReadAt
<1> HIDE DEF c
<1>4. CASE ~ Head(queue).ok
  <2>1. /\ is_open' = [is_open EXCEPT ![c] = FALSE]
        /\ queue' = Tail(queue)
        /\ UNCHANGED <<acceptor, backlog, connections, unread, thrown>>
    BY <1>4 DEF HandleRead, HandleError, c
  <2>2. is_open' \in [Clients -> BOOLEAN]
        /\ \A d \in Clients : IF d = c THEN ~ is_open'[d] ELSE is_open'[d] = is_open[d]
    BY <1>2, <2>1 DEF TypeOK
  <2>3. ServerInv'
    <3>1. CopyRemains'
      BY <2>1 DEF ServerInv, CopyRemains, connections
    <3> QED
      BY <1>1, <1>3, <2>1, <2>2, <3>1, DequeueStep DEF acceptor, connections, remote
  <2> QED
    BY <1>1, <1>2, <2>1, <2>2, <2>3 DEF TypeOK, acceptor, connections, remote
<1>5. CASE /\ Head(queue).ok
           /\ WriteThrows(c)
           /\ queue' = Tail(queue)
  <2>1. ServerInv'
    <3>1. /\ thrown' = TRUE
          /\ UNCHANGED <<ptr_connection, accept_op, backlog, reading, client, unread,
                         written, sent, is_open>>
      BY <1>1, <1>5 DEF WriteThrows, Pop, acceptor, remote
    <3>2. \A d \in Clients : is_open'[d] = is_open[d]
      BY <3>1
    <3>3. CopyRemains'
      BY <3>1 DEF CopyRemains
    <3> QED
      BY <1>1, <1>5, <3>1, <3>2, <3>3, DequeueStep
  <2>2. message_queue' \in [Clients -> Seq(Messages)]
    <3>1. message_queue[c] # << >> => Tail(message_queue[c]) \in Seq(Messages)
      BY <1>2, HeadTailProperties DEF TypeOK
    <3> QED
      BY <1>2, <1>5, <3>1 DEF WriteThrows, Pop, TypeOK
  <2> QED
    BY <1>1, <1>2, <1>5, <2>1, <2>2 DEF TypeOK, WriteThrows, Pop, acceptor, remote
<1>6. ASSUME NEW r, WriteMessage(c), StartRead(c, r), Head(queue).ok,
             queue' = Tail(queue) \o r,
             UNCHANGED <<acceptor, backlog, is_open, thrown>>
      PROVE  /\ ServerInv'
             /\ TypeOK'
             /\ [Service!Next]_<<written, sent>>
  <2>1. Short(r)
    BY <1>2, <1>6, ReadEffect
  <2>2. Tail(queue) \o r \in Seq(Completions)
    <3>1. r \in Seq(Completions)
      <4>1. \A e \in Completions : <<e>> \in Seq(Completions)
        OBVIOUS
      <4>2. << >> \in Seq(Completions)
        OBVIOUS
      <4> QED
        BY <2>1, <4>1, <4>2 DEF Short
    <3> QED
      BY <1>2, <3>1, ConcatProperties
  <2>3. queue' = Tail(queue) \o r \o << >> /\ Short(<< >>)
    BY <1>6, <2>2, ConcatEmptySeq DEF Short
  <2>4. Served(c, r, << >>)
    BY <1>1, <1>6, <2>3 DEF Served, remote
  <2>5. sent[c] = << >> \/ Len(sent[c]) + unread[c] <= written[c]
    BY <1>2, <1>6 DEF ServerInv, Paid
  <2>6. /\ OneRead'
        /\ CopyRemains'
        /\ Paid'
        /\ queue' \in Seq(Completions)
        /\ reading' \in [Clients -> Nat]
        /\ unread' \in [Clients -> Nat]
        /\ sent' \in [Clients -> Seq(Messages)]
        /\ message_queue' \in [Clients -> Seq(Messages)]
        /\ \A d \in Clients : d # c => sent'[d] = sent[d]
        /\ Len(sent[c]) <= written[c]
        /\ sent' = [sent EXCEPT ![c] = Append(@, Service!Message(Len(@) + 1))]
    BY <1>1, <1>2, <1>3, <2>4, <2>5, ServedEffect DEF ServerInv
  <2>7. TypeOK'
    BY <1>1, <1>6, <2>6 DEF TypeOK, acceptor, remote
  <2>8. Extended(queue', Tail(queue), r, << >>)
    BY <1>2, <2>1, <2>3, QueueAfter
  <2>9. \A i \in DOMAIN queue' : AcceptAt(i)' => /\ i \in Nat
                                                /\ i + 1 \in DOMAIN queue
                                                /\ AcceptAt(i + 1)
                                                /\ queue'[i] = queue[i + 1]
    <3>1. r # << >> => r[1].op = "read"
      BY <1>2, <1>6, ReadEffect
    <3> QED
      BY <1>1, <2>8, <3>1, TailMoves DEF Extended, AcceptAt
  <2>10. OneAccept'
    <3>1. \A i, j \in DOMAIN queue' : AcceptAt(i)' /\ AcceptAt(j)' => i = j
      <4> SUFFICES ASSUME NEW i \in DOMAIN queue', NEW j \in DOMAIN queue',
                          AcceptAt(i)', AcceptAt(j)'
                   PROVE  i = j
        OBVIOUS
      <4>1. i \in Nat /\ j \in Nat /\ i + 1 = j + 1
        BY <2>9 DEF ServerInv, OneAccept
      <4> QED
        BY <4>1
    <3> QED
      BY <1>6, <2>9, <3>1 DEF ServerInv, OneAccept, acceptor
  <2>11. AcceptHeld'
    <3> SUFFICES ASSUME NEW i \in DOMAIN queue', AcceptAt(i)', queue'[i].ok
                 PROVE  /\ queue'[i].conn = ptr_connection
                        /\ ptr_connection \in Clients
                        /\ is_open[ptr_connection]
                        /\ sent'[ptr_connection] = << >>
      BY <1>6 DEF AcceptHeld, acceptor
    <3>1. /\ queue'[i].conn = ptr_connection
          /\ ptr_connection \in Clients
          /\ is_open[ptr_connection]
          /\ sent[ptr_connection] = << >>
      BY <2>9 DEF ServerInv, AcceptHeld
    <3> QED
      BY <1>3, <2>6, <3>1
  <2>12. NotAccepted'
    <3>1. \A i \in DOMAIN backlog : backlog[i] \in Clients
      BY LenProperties, ElementOfSeq DEF TypeOK
    <3> QED
      BY <1>1, <1>3, <1>6, <2>6, <3>1 DEF ServerInv, NotAccepted, remote
  <2>13. Service!Tell(c)
    BY <1>1, <2>6 DEF Service!Tell, remote
  <2> QED
    BY <1>2, <2>6, <2>7, <2>10, <2>11, <2>12, <2>13 DEF ServerInv, Service!Next
<1> QED
  BY <1>4, <1>5, <1>6 DEF HandleRead, HandleError, c

LEMMA HandleAcceptStep ==
  ASSUME TypeOK, ServerInv, HandleAccept
  PROVE  /\ ServerInv'
         /\ TypeOK'
         /\ [Service!Next]_<<written, sent>>
<1> DEFINE c == ptr_connection
<1>1. /\ ~ thrown
      /\ queue # << >>
      /\ Head(queue).op = "accept"
      /\ UNCHANGED remote
  BY DEF HandleAccept, Dispatch
<1>2. /\ 1 \in DOMAIN queue
      /\ queue[1] = Head(queue)
      /\ AcceptAt(1)
      /\ Tail(queue) \in Seq(Completions)
      /\ \A d : ~ ReadAt(1, d)
  BY <1>1, TailMoves DEF AcceptAt, ReadAt
<1>3. /\ ~ accept_op
      /\ \A i \in DOMAIN queue : AcceptAt(i) => i = 1
  BY <1>2 DEF ServerInv, OneAccept
<1> HIDE DEF c
<1>4. CASE ~ Head(queue).ok
  <2>1. /\ queue' = Tail(queue)
        /\ UNCHANGED <<acceptor, backlog, is_open, connections, unread, thrown>>
    BY <1>4 DEF HandleAccept
  <2>2. CopyRemains'
    BY <2>1 DEF ServerInv, CopyRemains, connections
  <2>3. ServerInv'
    BY <1>1, <1>2, <2>1, <2>2, DequeueStep DEF acceptor, connections, remote
  <2> QED
    BY <1>1, <1>2, <2>1, <2>3 DEF TypeOK, acceptor, connections, remote
<1>5. ASSUME Head(queue).ok
      PROVE  c \in Clients /\ is_open[c] /\ sent[c] = << >>
  BY <1>2, <1>5 DEF ServerInv, AcceptHeld, c
<1>6. CASE /\ Head(queue).ok
           /\ WriteThrows(c)
           /\ queue' = Tail(queue)
  <2>1. ServerInv'
    <3>1. /\ thrown' = TRUE
          /\ UNCHANGED <<ptr_connection, accept_op, backlog, reading, client, unread,
                         written, sent, is_open>>
      BY <1>1, <1>6 DEF WriteThrows, Pop, acceptor, remote
    <3>2. \A d \in Clients : is_open'[d] = is_open[d]
      BY <3>1
    <3>3. CopyRemains'
      BY <3>1 DEF CopyRemains
    <3> QED
      BY <1>1, <1>6, <3>1, <3>2, <3>3, DequeueStep
  <2>2. message_queue' \in [Clients -> Seq(Messages)]
    <3>1. message_queue[c] # << >> => Tail(message_queue[c]) \in Seq(Messages)
      BY <1>5, <1>6, HeadTailProperties DEF TypeOK
    <3> QED
      BY <1>5, <1>6, <3>1 DEF WriteThrows, Pop, TypeOK
  <2> QED
    BY <1>1, <1>2, <1>6, <2>1, <2>2 DEF TypeOK, WriteThrows, Pop, acceptor, remote
<1>7. ASSUME NEW r, NEW a, WriteMessage(c), StartRead(c, r), StartAccept(a), Head(queue).ok,
             queue' = Tail(queue) \o r \o a,
             UNCHANGED <<thrown, starts>>
      PROVE  /\ ServerInv'
             /\ TypeOK'
             /\ [Service!Next]_<<written, sent>>
  <2>1. /\ AcceptTyped
        /\ accept_op' \in BOOLEAN
        /\ Short(a)
        /\ a # << >> => Accepted(a[1]) /\ accept_op' = accept_op
        /\ a = << >> => is_open' = is_open
    BY <1>7, StartAcceptEffect DEF ServerInv
  <2>2. \A d \in Clients : sent[d] # << >> /\ is_open'[d] => is_open[d]
    BY <2>1 DEF Accepted, TypeOK
  <2>3. Served(c, r, a)
    BY <1>1, <1>7, <2>1, <2>2 DEF Served, Accepted, remote
  <2>4. /\ reading[c] = 0
        /\ \A i \in DOMAIN queue : ~ ReadAt(i, c)
    BY <1>5, <1>7 DEF ServerInv, OneRead, ReadFor
  <2>5. /\ OneRead'
        /\ CopyRemains'
        /\ Paid'
        /\ queue' \in Seq(Completions)
        /\ reading' \in [Clients -> Nat]
        /\ unread' \in [Clients -> Nat]
        /\ sent' \in [Clients -> Seq(Messages)]
        /\ message_queue' \in [Clients -> Seq(Messages)]
        /\ \A d \in Clients : d # c => sent'[d] = sent[d]
        /\ Len(sent[c]) <= written[c]
        /\ sent' = [sent EXCEPT ![c] = Append(@, Service!Message(Len(@) + 1))]
    BY <1>1, <1>2, <1>5, <1>7, <2>3, <2>4, ServedEffect DEF ServerInv
  <2>6. TypeOK'
    BY <1>1, <1>7, <2>1, <2>5 DEF TypeOK, AcceptTyped, remote
  <2>7. Short(r) /\ (r # << >> => r[1].op = "read")
    BY <1>5, <1>7, ReadEffect
  <2>8. Extended(queue', Tail(queue), r, a)
    BY <1>2, <1>7, <2>1, <2>7, QueueAfter
  <2>9. \A i \in DOMAIN Tail(queue) : Tail(queue)[i].op = "read"
    <3> SUFFICES ASSUME NEW i \in DOMAIN Tail(queue)
                 PROVE  Tail(queue)[i].op = "read"
      OBVIOUS
    <3>1. i + 1 \in DOMAIN queue /\ i + 1 # 1 /\ Tail(queue)[i] = queue[i + 1]
      BY <1>1, TailMoves
    <3>2. queue[i + 1] \in Completions /\ ~ AcceptAt(i + 1)
      BY <1>3, <3>1, LenProperties, ElementOfSeq DEF TypeOK
    <3> QED
      BY <3>1, <3>2 DEF AcceptAt, Completions
  <2>10. \A d \in Clients : sent'[d] = sent[d] \/ is_open[d]
    BY <1>5, <1>7, <2>5
  <2>11. accept_op' => a = << >>
    BY <1>3, <2>1
  <2>12. OneAccept' /\ AcceptHeld' /\ NotAccepted'
    BY <1>1, <2>1, <2>7, <2>8, <2>9, <2>10, <2>11, AcceptedEffect DEF ServerInv, remote
  <2>13. Service!Tell(c)
    BY <1>1, <2>5 DEF Service!Tell, remote
  <2> QED
    BY <1>5, <1>7, <2>5, <2>6, <2>12, <2>13 DEF ServerInv, Service!Next
<1> QED
  BY <1>4, <1>6, <1>7 DEF HandleAccept, c

\* Steps of the acceptor that serve nobody yet.
LEMMA AcceptStep ==
  ASSUME TypeOK, ServerInv, NEW a, Short(a), Extended(queue', queue, << >>, a),
         \A i \in DOMAIN queue : ~ AcceptAt(i),
         AcceptTyped, accept_op' \in BOOLEAN,
         a # << >> => Accepted(a[1]) /\ ~ accept_op',
         a = << >> => is_open' = is_open,
         UNCHANGED <<connections, remote, unread, thrown>>, starts' \in Nat
  PROVE  ServerInv' /\ TypeOK'
<1>1. \A i \in DOMAIN queue : queue[i].op = "read"
  <2>1. \A i \in DOMAIN queue : queue[i] \in Completions
    BY LenProperties, ElementOfSeq DEF TypeOK
  <2> QED
    BY <2>1 DEF Completions, AcceptAt
<1>2. OneAccept' /\ AcceptHeld' /\ NotAccepted'
  BY <1>1, AcceptedEffect DEF ServerInv, connections, remote
<1>3. \A d \in Clients : sent[d] # << >> /\ is_open'[d] => is_open[d]
  BY DEF Accepted, TypeOK
<1>4. /\ \A i \in DOMAIN queue : i \in DOMAIN queue' /\ queue'[i] = queue[i]
      /\ \A i \in DOMAIN queue' : \A d : ReadAt(i, d)' => /\ i \in DOMAIN queue
                                                         /\ ReadAt(i, d)
                                                         /\ queue'[i] = queue[i]
  BY DEF Extended, Accepted, ReadAt
<1>5. \A d : ReadFor(d)' <=> ReadFor(d)
  BY <1>4 DEF ReadFor, ReadAt
<1>6. OneRead'
  BY <1>3, <1>4, <1>5 DEF ServerInv, OneRead, connections
<1>7. CopyRemains'
  BY DEF ServerInv, CopyRemains, connections
<1>8. Paid'
  BY <1>4 DEF ServerInv, Paid, connections, remote
<1>9. TypeOK'
  BY DEF TypeOK, AcceptTyped, Extended, connections, remote
<1> QED
  BY <1>2, <1>6, <1>7, <1>8, <1>9 DEF ServerInv

LEMMA ApplicationStartsStep ==
  ASSUME TypeOK, ServerInv, ApplicationStarts
  PROVE  ServerInv' /\ TypeOK'
<1>1. PICK a : StartAccept(a) /\ queue' = queue \o a
  BY DEF ApplicationStarts
<1>2. /\ AcceptTyped
      /\ accept_op' \in BOOLEAN
      /\ Short(a)
      /\ a # << >> => Accepted(a[1]) /\ accept_op' = accept_op
      /\ a = << >> => is_open' = is_open
  BY <1>1, StartAcceptEffect DEF ServerInv
<1>3. ~ accept_op /\ \A i \in DOMAIN queue : ~ AcceptAt(i)
  BY DEF ApplicationStarts, Accepting, AcceptAt
<1>4. queue' = queue \o << >> \o a /\ Short(<< >>)
  BY <1>1, ConcatEmptySeq DEF TypeOK, Short
<1>5. Extended(queue', queue, << >>, a)
  BY <1>2, <1>4, QueueAfter DEF TypeOK
<1>6. starts' \in Nat
  BY DEF ApplicationStarts, TypeOK
<1> QED
  BY <1>2, <1>3, <1>5, <1>6, AcceptStep DEF ApplicationStarts

LEMMA ReactorAcceptStep ==
  ASSUME TypeOK, ServerInv, ReactorAccept
  PROVE  ServerInv' /\ TypeOK'
<1>1. PICK done : /\ Accepts(Head(backlog), done)
                  /\ queue' = Append(queue, done)
  BY DEF ReactorAccept
<1>2. Accepted(done) /\ AcceptTyped
  BY <1>1, AcceptsEffect DEF ReactorAccept, ServerInv
<1>3. Extended(queue', queue, << >>, <<done>>)
  BY <1>1, <1>2, AppendExtends DEF Accepted
<1>4. Short(<<done>>) /\ <<done>> # << >> /\ <<done>>[1] = done
  BY <1>2 DEF Short, Accepted
<1>5. \A i \in DOMAIN queue : ~ AcceptAt(i)
  BY DEF ReactorAccept, ServerInv, OneAccept
<1>6. ~ accept_op' /\ accept_op' \in BOOLEAN /\ starts' \in Nat
  BY DEF ReactorAccept, TypeOK
<1> QED
  BY <1>2, <1>3, <1>4, <1>5, <1>6, AcceptStep DEF ReactorAccept

LEMMA ReactorReadStep ==
  ASSUME TypeOK, ServerInv, NEW c \in Clients, ReactorRead(c)
  PROVE  ServerInv' /\ TypeOK'
<1>1. PICK ok \in BOOLEAN : /\ Receives(c, ok)
                            /\ queue' = Append(queue, Completion("read", ok, c))
  BY DEF ReactorRead
<1> DEFINE e == Completion("read", ok, c)
           p == Len(queue) + 1
<1>2. e.op = "read" /\ e.conn = c /\ e.ok = ok /\ e \in Completions
  BY DEF Completion, Completions
<1>3. /\ reading[c] > 0
      /\ reading' = [reading EXCEPT ![c] = @ - 1]
      /\ UNCHANGED <<acceptor, backlog, is_open, message_queue, sent, remote, thrown>>
  BY DEF ReactorRead
<1>4. queue' = Append(queue, e)
  BY <1>1
<1> HIDE DEF e
<1>5. /\ Extended(queue', queue, <<e>>, << >>)
      /\ <<e>> # << >> /\ <<e>>[1] = e
  BY <1>2, <1>4, AppendExtends
<1>6. /\ queue' \in Seq(Completions)
      /\ \A i \in DOMAIN queue : i \in DOMAIN queue' /\ queue'[i] = queue[i]
      /\ \A i \in DOMAIN queue' : i \in DOMAIN queue \/ (i = p /\ queue'[i] = e)
      /\ p \in DOMAIN queue' /\ queue'[p] = e
  BY <1>5 DEF Extended
<1> HIDE DEF p
<1>7. /\ unread' \in [Clients -> Nat]
      /\ unread'[c] <= unread[c]
      /\ ok => unread'[c] < unread[c]
      /\ \A d \in Clients : d # c => unread'[d] = unread[d]
  <2>1. CASE ok
    <3>1. PICK n \in 1..unread[c] : unread' = [unread EXCEPT ![c] = @ - n]
      BY <1>1, <2>1 DEF Receives
    <3>2. unread[c] \in Nat
      BY DEF TypeOK
    <3>3. unread[c] - n \in Nat /\ unread[c] - n < unread[c] /\ unread[c] - n <= unread[c]
      BY <3>2
    <3> QED
      BY <3>1, <3>2, <3>3 DEF TypeOK
  <2>2. CASE ~ ok
    BY <1>1, <2>2 DEF Receives, TypeOK
  <2> QED
    BY <2>1, <2>2
<1>8. /\ reading[c] = 1
      /\ \A i \in DOMAIN queue : ~ ReadAt(i, c)
      /\ sent[c] # << >>
  BY <1>3 DEF ServerInv, OneRead, ReadFor
<1>9. /\ reading' \in [Clients -> Nat]
      /\ reading'[c] = 0
      /\ \A d \in Clients : d # c => reading'[d] = reading[d]
  BY <1>3, <1>8 DEF TypeOK
<1>10. /\ \A i \in DOMAIN queue' : \A d \in Clients :
             ReadAt(i, d)' => \/ i \in DOMAIN queue /\ ReadAt(i, d) /\ d # c
                                 /\ queue'[i] = queue[i]
                              \/ i = p /\ d = c /\ queue'[i] = e
       /\ \A i \in DOMAIN queue' : AcceptAt(i)' => /\ i \in DOMAIN queue
                                                  /\ AcceptAt(i)
                                                  /\ queue'[i] = queue[i]
  BY <1>2, <1>6, <1>8 DEF ReadAt, AcceptAt
<1>11. /\ ReadFor(c)'
       /\ \A d \in Clients : d # c => (ReadFor(d)' <=> ReadFor(d))
  BY <1>2, <1>6, <1>10 DEF ReadFor, ReadAt
<1>12. OneAccept'
  BY <1>3, <1>10 DEF ServerInv, OneAccept, acceptor
<1>13. AcceptHeld'
  BY <1>3, <1>10 DEF ServerInv, AcceptHeld, acceptor
<1>14. NotAccepted'
  BY <1>3 DEF ServerInv, NotAccepted, remote
<1>15. OneRead'
  <2>1. ASSUME NEW d \in Clients, d # c
        PROVE  /\ sent'[d] = << >> => reading'[d] = 0 /\ ~ ReadFor(d)'
               /\ reading'[d] > 0 => reading'[d] = 1 /\ ~ ReadFor(d)'
               /\ \A i, j \in DOMAIN queue' : ReadAt(i, d)' /\ ReadAt(j, d)' => i = j
               /\ is_open'[d] /\ sent'[d] # << >> /\ ~ thrown' => reading'[d] > 0 \/ ReadFor(d)'
    BY <1>3, <1>9, <1>10, <1>11, <2>1 DEF ServerInv, OneRead
  <2>2. /\ sent'[c] # << >>
        /\ ~ (reading'[c] > 0)
        /\ \A i, j \in DOMAIN queue' : ReadAt(i, c)' /\ ReadAt(j, c)' => i = j
    BY <1>3, <1>8, <1>9, <1>10
  <2> QED
    BY <1>11, <2>1, <2>2 DEF OneRead
<1>16. CopyRemains'
  BY <1>3 DEF ServerInv, CopyRemains
<1>17. Paid'
  <2>0. /\ unread[c] \in Nat /\ unread'[c] \in Nat /\ written[c] \in Nat
        /\ Len(sent[c]) \in Nat
        /\ written' = written /\ sent' = sent
    BY <1>3, <1>7, LenProperties DEF TypeOK, remote
  <2>1. ASSUME NEW d \in Clients, d # c
        PROVE  /\ unread'[d] <= written'[d]
               /\ sent'[d] # << >> => Len(sent'[d]) + unread'[d] <= written'[d] + 1
               /\ \A i \in DOMAIN queue' : ReadAt(i, d)' /\ queue'[i].ok
                                            => Len(sent'[d]) + unread'[d] <= written'[d]
    BY <1>7, <1>10, <2>0, <2>1 DEF ServerInv, Paid
  <2>2. /\ unread[c] <= written[c]
        /\ Len(sent[c]) + unread[c] <= written[c] + 1
    BY <1>8 DEF ServerInv, Paid
  <2>3. /\ unread'[c] <= written[c]
        /\ Len(sent[c]) + unread'[c] <= written[c] + 1
        /\ ok => Len(sent[c]) + unread'[c] <= written[c]
    BY <1>7, <2>0, <2>2
  <2>4. \A i \in DOMAIN queue' : ReadAt(i, c)' /\ queue'[i].ok => ok
    BY <1>2, <1>10
  <2> QED
    BY <2>0, <2>1, <2>3, <2>4 DEF Paid
<1>18. TypeOK'
  BY <1>3, <1>6, <1>7, <1>9 DEF TypeOK, acceptor, remote
<1> QED
  BY <1>12, <1>13, <1>14, <1>15, <1>16, <1>17, <1>18 DEF ServerInv

LEMMA ClientConnectsStep ==
  ASSUME TypeOK, ServerInv, NEW c \in Clients, ClientConnects(c)
  PROVE  ServerInv' /\ TypeOK'
<1>1. /\ client[c] = "away"
      /\ client' = [client EXCEPT ![c] = "connected"]
      /\ backlog' = Append(backlog, c)
      /\ UNCHANGED <<acceptor, queue, is_open, connections, written, unread, thrown>>
  BY DEF ClientConnects
<1>2. /\ backlog' \in Seq(Clients)
      /\ Len(backlog) \in Nat
      /\ DOMAIN backlog = 1..Len(backlog)
      /\ DOMAIN backlog' = 1..(Len(backlog) + 1)
      /\ \A i \in DOMAIN backlog : backlog'[i] = backlog[i]
      /\ backlog'[Len(backlog) + 1] = c
  <2>1. backlog \in Seq(Clients) /\ backlog' = Append(backlog, c)
    BY <1>1 DEF TypeOK
  <2>2. /\ backlog' \in Seq(Clients)
        /\ Len(backlog') = Len(backlog) + 1
        /\ \A i \in 1..Len(backlog) : backlog'[i] = backlog[i]
        /\ backlog'[Len(backlog) + 1] = c
    BY <2>1, AppendProperties
  <2>3. /\ Len(backlog) \in Nat
        /\ DOMAIN backlog = 1..Len(backlog)
        /\ DOMAIN backlog' = 1..Len(backlog')
    BY <2>1, <2>2, LenProperties
  <2> QED
    BY <2>2, <2>3
<1>3. \A i \in DOMAIN backlog' : \/ i \in DOMAIN backlog /\ backlog'[i] = backlog[i]
                                 \/ i = Len(backlog) + 1 /\ backlog'[i] = c
  <2> SUFFICES ASSUME NEW i \in DOMAIN backlog'
               PROVE  \/ i \in DOMAIN backlog /\ backlog'[i] = backlog[i]
                      \/ i = Len(backlog) + 1 /\ backlog'[i] = c
    OBVIOUS
  <2>1. i \in 1..Len(backlog) \/ i = Len(backlog) + 1
    BY <1>2
  <2>2. CASE i \in 1..Len(backlog)
    BY <1>2, <2>2
  <2>3. CASE i = Len(backlog) + 1
    BY <1>2, <2>3
  <2> QED
    BY <2>1, <2>2, <2>3
<1>4. /\ ~ is_open[c] /\ sent[c] = << >>
      /\ \A i \in DOMAIN backlog : backlog[i] # c
  BY <1>1 DEF ServerInv, NotAccepted
<1>5. /\ client' \in [Clients -> {"away", "connected", "gone"}]
      /\ client'[c] = "connected"
      /\ \A d \in Clients : d # c => client'[d] = client[d]
  BY <1>1 DEF TypeOK
<1>6. \A i \in DOMAIN backlog : backlog[i] \in Clients
  BY LenProperties, ElementOfSeq DEF TypeOK
<1>7. NotAccepted'
  BY <1>1, <1>3, <1>4, <1>5, <1>6 DEF ServerInv, NotAccepted, connections
<1>8. TypeOK'
  BY <1>1, <1>2, <1>5 DEF TypeOK, acceptor, connections
<1> USE <1>1 DEF ServerInv, acceptor, connections, ReadAt, ReadFor, AcceptAt
<1>9. OneAccept' /\ AcceptHeld'
  BY DEF OneAccept, AcceptHeld
<1>10. OneRead'
  BY DEF OneRead
<1>11. CopyRemains'
  BY DEF CopyRemains
<1>12. Paid'
  BY DEF Paid
<1> QED
  BY <1>7, <1>8, <1>9, <1>10, <1>11, <1>12

LEMMA ClientWritesStep ==
  ASSUME TypeOK, ServerInv, NEW c \in Clients, ClientWrites(c)
  PROVE  ServerInv' /\ TypeOK' /\ Service!Ask(c)
<1>1. /\ written' = [written EXCEPT ![c] = @ + 1]
      /\ unread' = [unread EXCEPT ![c] = @ + 1]
      /\ UNCHANGED <<acceptor, backlog, queue, is_open, connections, client, thrown>>
  BY DEF ClientWrites
<1>2. /\ unread' \in [Clients -> Nat]
      /\ written' \in [Clients -> Nat]
      /\ unread'[c] = unread[c] + 1
      /\ written'[c] = written[c] + 1
      /\ unread[c] \in Nat /\ written[c] \in Nat /\ Len(sent[c]) \in Nat
      /\ \A d \in Clients : d # c => unread'[d] = unread[d] /\ written'[d] = written[d]
  BY <1>1, LenProperties DEF TypeOK
<1> USE <1>1 DEF ServerInv, acceptor, connections, ReadAt, ReadFor, AcceptAt
<1>3. OneAccept' /\ AcceptHeld' /\ NotAccepted'
  BY DEF OneAccept, AcceptHeld, NotAccepted
<1>4. /\ OneRead'
      /\ CopyRemains'
  <2>1. OneRead'
    BY DEF OneRead
  <2>2. CopyRemains'
    BY DEF CopyRemains
  <2> QED
    BY <2>1, <2>2
<1>5. Paid'
  BY <1>2 DEF Paid
<1>6. TypeOK'
  BY <1>2 DEF TypeOK
<1> QED
  BY <1>3, <1>4, <1>5, <1>6 DEF Service!Ask

LEMMA ClientClosesStep ==
  ASSUME TypeOK, ServerInv, NEW c \in Clients, ClientCloses(c)
  PROVE  ServerInv' /\ TypeOK'
<1>1. /\ client[c] = "connected"
      /\ client' = [client EXCEPT ![c] = "gone"]
      /\ UNCHANGED <<acceptor, backlog, queue, is_open, connections, written, unread, thrown>>
  BY DEF ClientCloses
<1> USE <1>1 DEF ServerInv, acceptor, connections, ReadAt, ReadFor, AcceptAt
<1>2. OneAccept' /\ AcceptHeld'
  BY DEF OneAccept, AcceptHeld
<1>3. NotAccepted'
  <2>1. \A i \in DOMAIN backlog : backlog[i] \in Clients
    BY LenProperties, ElementOfSeq DEF TypeOK
  <2> QED
    BY <2>1 DEF NotAccepted, TypeOK
<1>4. /\ OneRead'
      /\ CopyRemains'
  <2>1. OneRead'
    BY DEF OneRead
  <2>2. CopyRemains'
    BY DEF CopyRemains
  <2> QED
    BY <2>1, <2>2
<1>5. Paid'
  BY DEF Paid
<1>6. TypeOK'
  BY DEF TypeOK
<1> QED
  BY <1>2, <1>3, <1>4, <1>5, <1>6

-----------------------------------------------------------------------------
LEMMA InitInvariant == Init => TypeOK /\ ServerInv
<1> SUFFICES ASSUME Init PROVE TypeOK /\ ServerInv
  OBVIOUS
<1>1. TypeOK
  <2>1. /\ << >> \in Seq(Clients)
        /\ << >> \in Seq(Completions)
        /\ << >> \in Seq(Messages)
    OBVIOUS
  <2> QED
    BY <2>1, ScriptAssumption DEF Init, TypeOK
<1>2. OneAccept /\ AcceptHeld /\ NotAccepted
  BY DEF Init, OneAccept, AcceptHeld, NotAccepted
<1>3. \A i \in DOMAIN queue : FALSE
  BY DEF Init
<1>4. ASSUME NEW c \in Clients
      PROVE  /\ reading[c] = 0
             /\ sent[c] = << >>
             /\ Len(sent[c]) = 0
             /\ unread[c] = 0
             /\ written[c] = 0
             /\ message_queue[c] = Script
  BY DEF Init
<1>5. ASSUME NEW c \in Clients
      PROVE  ~ ReadFor(c)
  BY <1>3 DEF ReadFor
<1>6. OneRead
  <2>1. ~ (0 > 0)
    OBVIOUS
  <2> QED
    BY <1>3, <1>4, <1>5, <2>1, Zenon DEF OneRead
<1>7. CopyRemains
  <2>1. Len(Script) \in Nat
    BY ScriptAssumption, LenProperties
  <2> SUFFICES ASSUME NEW c \in Clients
               PROVE  /\ Len(sent[c]) = 0
                      /\ message_queue[c] = Script
                      /\ ~ (0 > Len(Script))
                      /\ Len(Script) = Len(Script) - 0
                      /\ \A n \in 1..Len(Script) : Script[n] = Script[0 + n]
    BY <1>4 DEF CopyRemains
  <2> QED
    BY <1>4, <2>1
<1>8. Paid
  <2>1. 0 <= 0
    OBVIOUS
  <2> QED
    BY <1>3, <1>4, <2>1, Zenon DEF Paid
<1> QED
  BY <1>1, <1>2, <1>6, <1>7, <1>8 DEF ServerInv

\* Every step keeps the invariant and is one of the abstract service, or none.
LEMMA StepInvariant ==
  TypeOK /\ ServerInv /\ [Next]_vars
    => TypeOK' /\ ServerInv' /\ [Service!Next]_<<written, sent>>
<1> SUFFICES ASSUME TypeOK, ServerInv, [Next]_vars
             PROVE  TypeOK' /\ ServerInv' /\ [Service!Next]_<<written, sent>>
  OBVIOUS
<1>1. CASE ApplicationStarts
  BY <1>1, ApplicationStartsStep DEF ApplicationStarts, connections, remote
<1>2. CASE HandleAccept
  BY <1>2, HandleAcceptStep
<1>3. CASE HandleRead
  BY <1>3, HandleReadStep
<1>4. CASE ReactorAccept
  BY <1>4, ReactorAcceptStep DEF ReactorAccept, connections, remote
<1>5. ASSUME NEW c \in Clients, ReactorRead(c)
      PROVE  TypeOK' /\ ServerInv' /\ [Service!Next]_<<written, sent>>
  BY <1>5, ReactorReadStep DEF ReactorRead, remote
<1>6. ASSUME NEW c \in Clients, ClientConnects(c)
      PROVE  TypeOK' /\ ServerInv' /\ [Service!Next]_<<written, sent>>
  BY <1>6, ClientConnectsStep DEF ClientConnects, connections
<1>7. ASSUME NEW c \in Clients, ClientWrites(c)
      PROVE  TypeOK' /\ ServerInv' /\ [Service!Next]_<<written, sent>>
  BY <1>7, ClientWritesStep DEF Service!Next
<1>8. ASSUME NEW c \in Clients, ClientCloses(c)
      PROVE  TypeOK' /\ ServerInv' /\ [Service!Next]_<<written, sent>>
  BY <1>8, ClientClosesStep DEF ClientCloses, connections
<1>9. CASE UNCHANGED vars
  <2> USE <1>9 DEF vars, acceptor, connections, remote
  <2>1. TypeOK'
    BY DEF TypeOK
  <2>2. OneAccept' /\ AcceptHeld' /\ NotAccepted'
    BY DEF ServerInv, OneAccept, AcceptHeld, NotAccepted, AcceptAt
  <2>3. OneRead' /\ CopyRemains' /\ Paid'
    BY DEF ServerInv, OneRead, CopyRemains, Paid, ReadFor, ReadAt
  <2> QED
    BY <2>1, <2>2, <2>3 DEF ServerInv
<1> QED
  BY <1>1, <1>2, <1>3, <1>4, <1>5, <1>6, <1>7, <1>8, <1>9 DEF Next

(* Every variable of the server keeps to its type, and the invariant of    *)
(* TCPServerInv holds in every reachable state.                            *)
THEOREM ServerCorrect == Spec => [](TypeOK /\ ServerInv)
BY InitInvariant, StepInvariant, PTL DEF Spec

(* The server implements the message service: each connection is sent the  *)
(* queue in order and then the default message, one message for each read, *)
(* with any number of clients and any interleaving.                        *)
THEOREM ServerImplementsService == Spec => ServesMessages
<1>1. Init => Service!Init
  BY DEF Init, Service!Init
<1>2. TypeOK /\ ServerInv /\ [Next]_vars => [Service!Next]_<<written, sent>>
  BY StepInvariant
<1> QED
  BY <1>1, <1>2, ServerCorrect, PTL DEF Spec, ServesMessages, Service!Spec

(* A greeted, open connection always has exactly one read outstanding,     *)
(* which keeps its object alive and its buffer_ from being shared.         *)
THEOREM OneReadAlways == Spec => []OneReadOutstanding
<1>1. TypeOK /\ ServerInv => OneReadOutstanding
  <2> SUFFICES ASSUME TypeOK, ServerInv, NEW c \in Clients
               PROVE  /\ reading[c] <= 1
                      /\ \A i, j \in {k \in DOMAIN queue : ReadAt(k, c)} : i = j
                      /\ ~ (reading[c] > 0 /\ {k \in DOMAIN queue : ReadAt(k, c)} # {})
                      /\ is_open[c] /\ sent[c] # << >> /\ ~ thrown =>
                           reading[c] > 0 \/ {k \in DOMAIN queue : ReadAt(k, c)} # {}
    BY DEF OneReadOutstanding
  <2>1. ReadFor(c) <=> {k \in DOMAIN queue : ReadAt(k, c)} # {}
    BY DEF ReadFor
  <2>2. reading[c] \in Nat
    BY DEF TypeOK
  <2> QED
    BY <2>1, <2>2 DEF ServerInv, OneRead
<1> QED
  BY <1>1, ServerCorrect, PTL

(* HandleAccept always greets the connection that was accepted.            *)
THEOREM AcceptedIsGreeted == Spec => []GreetsTheAccepted
<1>1. TypeOK /\ ServerInv => GreetsTheAccepted
  <2> SUFFICES ASSUME TypeOK, ServerInv, Dispatch("accept"), Head(queue).ok
               PROVE  /\ ptr_connection = Head(queue).conn
                      /\ is_open[ptr_connection]
                      /\ sent[ptr_connection] = << >>
    BY DEF GreetsTheAccepted
  <2>1. queue # << >> /\ Head(queue).op = "accept"
    BY DEF Dispatch
  <2>2. 1 \in DOMAIN queue /\ Head(queue) = queue[1]
    BY <2>1, TailMoves
  <2> QED
    BY <2>1, <2>2 DEF ServerInv, AcceptHeld, AcceptAt
<1> QED
  BY <1>1, ServerCorrect, PTL
=============================================================================
