-------------------------- MODULE TCPClientCounts --------------------------
(***************************************************************************)
(* What adds up in the client.  For any patient application the reads of a *)
(* connection are as many as its writes.  For any application an attempt   *)
(* to connect ends only in a callback; and for one that closes only what   *)
(* it has, each ends in exactly one OnDisconnect.                          *)
(***************************************************************************)
EXTENDS TCPClientPatient, FiniteSetTheorems, FunctionTheorems

(***************************************************************************)
(* The places of a sequence that hold a member of a set, and their number. *)
(***************************************************************************)

Places(s, T) == {i \in DOMAIN s : s[i] \in T}

Occurrences(s, T) == Cardinality(Places(s, T))

LEMMA PlacesFinite ==
  ASSUME NEW S, NEW s \in Seq(S), NEW T
  PROVE  /\ DOMAIN s = 1..Len(s)
         /\ Len(s) \in Nat
         /\ Places(s, T) \in SUBSET (1..Len(s))
         /\ IsFiniteSet(Places(s, T))
         /\ Occurrences(s, T) \in Nat
<1>1. DOMAIN s = 1..Len(s) /\ Len(s) \in Nat
  BY LenProperties
<1>2. Places(s, T) \in SUBSET (1..Len(s))
  BY <1>1 DEF Places
<1>3. IsFiniteSet(1..Len(s))
  BY <1>1, FS_Interval
<1>4. IsFiniteSet(Places(s, T))
  BY <1>2, <1>3, FS_Subset
<1>5. Occurrences(s, T) \in Nat
  BY <1>4, FS_CardinalityType DEF Occurrences
<1> QED
  BY <1>1, <1>2, <1>4, <1>5

LEMMA ShiftedSet ==
  ASSUME NEW A, A \in SUBSET Nat, IsFiniteSet(A), NEW k \in Nat
  PROVE  LET B == {i + k : i \in A}
         IN  IsFiniteSet(B) /\ Cardinality(B) = Cardinality(A)
<1> DEFINE B == {i + k : i \in A}
           f == [i \in A |-> i + k]
<1>1. f \in [A -> B]
  OBVIOUS
<1>2. \A a, b \in A : f[a] = f[b] => a = b
  OBVIOUS
<1>3. \A t \in B : \E s \in A : f[s] = t
  OBVIOUS
<1> HIDE DEF f, B
<1>4. f \in Bijection(A, B)
  BY <1>1, <1>2, <1>3, Fun_IsBij
<1>5. ExistsBijection(A, B)
  BY <1>4, Fun_ExistsBij
<1>6. IsFiniteSet(B) /\ Cardinality(B) = Cardinality(A)
  BY <1>5, FS_Bijection
<1> QED
  BY <1>6 DEF B

LEMMA OccurrencesConcat ==
  ASSUME NEW S, NEW s \in Seq(S), NEW t \in Seq(S), NEW T
  PROVE  Occurrences(s \o t, T) = Occurrences(s, T) + Occurrences(t, T)
<1> DEFINE A == Places(s, T)
           B == {i + Len(s) : i \in Places(t, T)}
<1>1. /\ A \in SUBSET (1..Len(s)) /\ IsFiniteSet(A) /\ Len(s) \in Nat
      /\ DOMAIN s = 1..Len(s)
  BY PlacesFinite
<1>2. /\ Places(t, T) \in SUBSET (1..Len(t)) /\ IsFiniteSet(Places(t, T)) /\ Len(t) \in Nat
      /\ DOMAIN t = 1..Len(t)
  BY PlacesFinite
<1>3. /\ DOMAIN (s \o t) = 1..(Len(s) + Len(t))
      /\ \A i \in 1..(Len(s) + Len(t)) :
           (s \o t)[i] = IF i <= Len(s) THEN s[i] ELSE t[i - Len(s)]
  BY ConcatProperties, LenProperties
<1>4. Places(s \o t, T) = A \cup B
  <2>1. ASSUME NEW i \in Places(s \o t, T) PROVE i \in A \cup B
    <3>1. i \in 1..(Len(s) + Len(t)) /\ (s \o t)[i] \in T
      BY <2>1, <1>3 DEF Places
    <3>2. CASE i <= Len(s)
      <4>1. i \in DOMAIN s /\ s[i] \in T
        BY <1>1, <1>2, <1>3, <3>1, <3>2
      <4> QED
        BY <4>1 DEF Places
    <3>3. CASE ~ (i <= Len(s))
      <4>1. i - Len(s) \in DOMAIN t /\ t[i - Len(s)] \in T /\ i = (i - Len(s)) + Len(s)
        BY <1>1, <1>2, <1>3, <3>1, <3>3
      <4>2. i - Len(s) \in Places(t, T)
        BY <4>1 DEF Places
      <4> QED
        BY <4>1, <4>2
    <3> QED
      BY <3>2, <3>3
  <2>2. ASSUME NEW i \in A PROVE i \in Places(s \o t, T)
    <3>1. i \in DOMAIN s /\ s[i] \in T
      BY <2>2 DEF Places
    <3>2. i \in 1..(Len(s) + Len(t)) /\ i <= Len(s)
      BY <1>1, <1>2, <3>1
    <3> QED
      BY <1>3, <3>1, <3>2 DEF Places
  <2>3. ASSUME NEW j \in Places(t, T) PROVE j + Len(s) \in Places(s \o t, T)
    <3>1. j \in DOMAIN t /\ t[j] \in T
      BY <2>3 DEF Places
    <3>2. j + Len(s) \in 1..(Len(s) + Len(t)) /\ ~ (j + Len(s) <= Len(s))
          /\ (j + Len(s)) - Len(s) = j
      BY <1>1, <1>2, <3>1
    <3> QED
      BY <1>3, <3>1, <3>2 DEF Places
  <2> QED
    BY <2>1, <2>2, <2>3
<1>5. IsFiniteSet(B) /\ Cardinality(B) = Occurrences(t, T)
  <2>1. Places(t, T) \in SUBSET Nat
    BY <1>2
  <2> QED
    BY <1>1, <1>2, <2>1, ShiftedSet DEF Occurrences
<1>6. A \cap B = {}
  BY <1>1, <1>2
<1>7. Cardinality(A \cap B) = 0
  BY <1>6, FS_EmptySet
<1> HIDE DEF A, B
<1>8. Cardinality(A \cup B) = Cardinality(A) + Cardinality(B) - 0
  BY <1>1, <1>5, <1>7, FS_Union
<1>9. Cardinality(A) \in Nat /\ Cardinality(B) \in Nat
  BY <1>1, <1>5, FS_CardinalityType
<1>10. Cardinality(A) = Occurrences(s, T)
  BY DEF A, Occurrences
<1>11. Cardinality(A \cup B) = Cardinality(A) + Cardinality(B)
  BY <1>8, <1>9
<1> QED
  BY <1>4, <1>5, <1>10, <1>11 DEF Occurrences

LEMMA OccurrencesOne ==
  ASSUME NEW e, NEW T
  PROVE  Occurrences(<<e>>, T) = IF e \in T THEN 1 ELSE 0
<1>1. Places(<<e>>, T) = IF e \in T THEN {1} ELSE {}
  BY DEF Places
<1> QED
  BY <1>1, FS_Singleton, FS_EmptySet DEF Occurrences

LEMMA OccurrencesNone ==
  ASSUME NEW S, NEW s \in Seq(S), NEW T, \A i \in DOMAIN s : s[i] \notin T
  PROVE  Occurrences(s, T) = 0
<1>1. Places(s, T) = {}
  BY DEF Places
<1> QED
  BY <1>1, FS_EmptySet DEF Occurrences

LEMMA OccurrencesAppend ==
  ASSUME NEW S, NEW s \in Seq(S), NEW e \in S, NEW T
  PROVE  Occurrences(Append(s, e), T) = Occurrences(s, T) + (IF e \in T THEN 1 ELSE 0)
<1>1. Append(s, e) = s \o <<e>> /\ <<e>> \in Seq(S)
  BY AppendIsConcat
<1>2. Occurrences(s \o <<e>>, T) = Occurrences(s, T) + Occurrences(<<e>>, T)
  BY <1>1, OccurrencesConcat
<1>3. Occurrences(<<e>>, T) = IF e \in T THEN 1 ELSE 0
  BY OccurrencesOne
<1> QED
  BY <1>1, <1>2, <1>3

LEMMA OccurrencesTail ==
  ASSUME NEW S, NEW s \in Seq(S), s # << >>, NEW T
  PROVE  Occurrences(s, T) = (IF Head(s) \in T THEN 1 ELSE 0) + Occurrences(Tail(s), T)
<1>1. /\ Head(s) \in S /\ Tail(s) \in Seq(S) /\ <<Head(s)>> \in Seq(S)
  BY HeadTailProperties
<1>2. s = <<Head(s)>> \o Tail(s)
  <2>1. /\ Len(s) \in Nat /\ Len(s) # 0 /\ Len(Tail(s)) = Len(s) - 1
        /\ \A i \in 1..Len(Tail(s)) : Tail(s)[i] = s[i + 1]
    BY HeadTailProperties, EmptySeq, LenProperties
  <2> QED
    BY <2>1, <1>1
<1>3. Occurrences(<<Head(s)>> \o Tail(s), T)
        = Occurrences(<<Head(s)>>, T) + Occurrences(Tail(s), T)
  BY <1>1, OccurrencesConcat
<1>4. Occurrences(<<Head(s)>>, T) = IF Head(s) \in T THEN 1 ELSE 0
  BY OccurrencesOne
<1> QED
  BY <1>2, <1>3, <1>4

(***************************************************************************)
(* The invariant.                                                          *)
(***************************************************************************)

\* Completions of reads that were started on connection n.
ReadsOf(n) == {c \in Completions : c.op = "read" /\ c.conn = n}

\* Calls that will start one.
Due == {"Read", "Rearm"}

\* Everything that became of a write is still there as a read.
ReadsPaid ==
  sock # "closed" =>
    pending + Occurrences(queue, ReadsOf(conn)) + Occurrences(todo, Due) = writes

LEMMA PaidTyped ==
  ASSUME TypeOK, NEW n
  PROVE  /\ pending \in Nat /\ writes \in Nat
         /\ Occurrences(queue, ReadsOf(n)) \in Nat
         /\ Occurrences(todo, Due) \in Nat
BY PlacesFinite DEF TypeOK

\* What OutstandingReads counts.
LEMMA OutstandingCounted ==
  ASSUME TypeOK
  PROVE  OutstandingReads
           = pending + Occurrences(queue, ReadsOf(conn)) + Occurrences(todo, Due)
<1>1. \A i \in DOMAIN queue : queue[i] \in Completions
  BY QueueElements
<1>2. {i \in DOMAIN queue : queue[i].op = "read" /\ queue[i].conn = conn}
        = Places(queue, ReadsOf(conn))
  BY <1>1 DEF Places, ReadsOf
<1>3. {i \in DOMAIN todo : todo[i] \in {"Read", "Rearm"}} = Places(todo, Due)
  BY DEF Places, Due
<1> QED
  BY <1>2, <1>3 DEF OutstandingReads, Occurrences

LEMMA QuietOccurrences ==
  ASSUME NEW s \in Seq(Frames), Quiet(s)
  PROVE  Occurrences(s, Due) = 0
<1>1. \A i \in DOMAIN s : s[i] \notin Due
  BY DEF Quiet, Counted, Mentions, Due
<1> QED
  BY <1>1, OccurrencesNone

\* A call that is not counted and pushes none that is.
LEMMA PushUncounted ==
  ASSUME TypeOK, todo # << >>, NEW T, Head(todo) \notin T,
         NEW front \in Seq(Frames), Occurrences(front, T) = 0
  PROVE  /\ Occurrences(Tail(todo), T) = Occurrences(todo, T)
         /\ Occurrences(front \o Tail(todo), T) = Occurrences(todo, T)
<1>1. todo \in Seq(Frames) /\ Tail(todo) \in Seq(Frames)
  BY HeadTailProperties DEF TypeOK
<1>2. Occurrences(todo, T) = 0 + Occurrences(Tail(todo), T)
  BY <1>1, OccurrencesTail
<1>3. Occurrences(front \o Tail(todo), T)
        = Occurrences(front, T) + Occurrences(Tail(todo), T)
  BY <1>1, OccurrencesConcat
<1>4. Occurrences(Tail(todo), T) \in Nat
  BY <1>1, PlacesFinite
<1> QED
  BY <1>2, <1>3, <1>4

\* A call that neither is a read nor pushes one.
LEMMA QuietPush ==
  ASSUME TypeOK, todo # << >>, Head(todo) \notin Due,
         NEW front \in Seq(Frames), Quiet(front)
  PROVE  /\ Occurrences(Tail(todo), Due) = Occurrences(todo, Due)
         /\ Occurrences(front \o Tail(todo), Due) = Occurrences(todo, Due)
BY QuietOccurrences, PushUncounted

\* A step that moves no read.
LEMMA ReadsUnmoved ==
  ASSUME ReadsPaid, UNCHANGED <<pending, conn, writes>>,
         sock' # "closed" => sock # "closed",
         Occurrences(todo', Due) = Occurrences(todo, Due),
         Occurrences(queue', ReadsOf(conn)) = Occurrences(queue, ReadsOf(conn))
  PROVE  ReadsPaid'
BY DEF ReadsPaid

\* A completion that is posted on an open socket is counted when it is of a read.
LEMMA Posted ==
  ASSUME TypeOK, NEW op \in {"resolve", "connect", "read"}, NEW ok \in BOOLEAN,
         op = "read" => sock # "closed"
  PROVE  Occurrences(Append(queue, Completion(op, ok)), ReadsOf(conn))
           = Occurrences(queue, ReadsOf(conn)) + (IF op = "read" THEN 1 ELSE 0)
<1>1. Completion(op, ok) \in Completions /\ queue \in Seq(Completions)
  BY CompletionTyped DEF TypeOK
<1>2. Completion(op, ok) \in ReadsOf(conn) <=> op = "read"
  BY <1>1 DEF ReadsOf, Completion
<1>3. Occurrences(Append(queue, Completion(op, ok)), ReadsOf(conn))
        = Occurrences(queue, ReadsOf(conn))
            + (IF Completion(op, ok) \in ReadsOf(conn) THEN 1 ELSE 0)
  BY <1>1, OccurrencesAppend
<1> QED
  BY <1>2, <1>3

\* async_read_some on an open socket is one read more, in the reactor or the queue.
LEMMA ReadStarted ==
  ASSUME TypeOK, StartRead, sock # "closed"
  PROVE  pending' + Occurrences(queue', ReadsOf(conn))
           = pending + Occurrences(queue, ReadsOf(conn)) + 1
<1>0. pending \in Nat /\ Occurrences(queue, ReadsOf(conn)) \in Nat
  BY PaidTyped
<1>1. CASE \E ok \in BOOLEAN : /\ queue' = Append(queue, Completion("read", ok))
                               /\ pending' = pending
  BY <1>0, <1>1, Posted
<1>2. CASE queue' = queue /\ pending' = pending + 1
  BY <1>0, <1>2
<1> QED
  BY <1>1, <1>2 DEF StartRead, Receive

\* The running call of TCPSocket::Read or the end of TCPSocket::OnRead.
LEMMA DueStarted ==
  ASSUME TypeOK, ReadsPaid, todo # << >>, Head(todo) \in Due, todo' = Tail(todo),
         UNCHANGED <<sock, conn, writes>>, sock # "closed" => StartRead
  PROVE  ReadsPaid'
<1>1. Occurrences(todo, Due) = 1 + Occurrences(todo', Due) /\ Occurrences(todo', Due) \in Nat
  <2>1. todo \in Seq(Frames) /\ Tail(todo) \in Seq(Frames)
    BY HeadTailProperties DEF TypeOK
  <2>2. Occurrences(todo, Due) = 1 + Occurrences(Tail(todo), Due)
    BY <2>1, OccurrencesTail
  <2> QED
    BY <2>1, <2>2, PlacesFinite
<1>2. SUFFICES ASSUME sock # "closed"
               PROVE  pending' + Occurrences(queue', ReadsOf(conn)) + Occurrences(todo', Due)
                        = writes
  BY DEF ReadsPaid
<1>3. pending' + Occurrences(queue', ReadsOf(conn))
        = pending + Occurrences(queue, ReadsOf(conn)) + 1
  BY <1>2, ReadStarted
<1>4. pending + Occurrences(queue, ReadsOf(conn)) + Occurrences(todo, Due) = writes
  BY <1>2 DEF ReadsPaid
<1>5. pending \in Nat /\ Occurrences(queue, ReadsOf(conn)) \in Nat
  BY PaidTyped
<1> QED
  BY <1>1, <1>3, <1>4, <1>5

\* On a socket that is opened nothing is outstanding: of earlier connections there are
\* only completions, with their numbers.
LEMMA SocketConnectReads ==
  ASSUME TypeOK, PatientInv, ReadsPaid, SocketConnect
  PROVE  ReadsPaid'
<1>0. todo # << >> /\ Head(todo) = "SocketConnect" /\ todo' = Tail(todo)
  BY DEF SocketConnect, Calling, Return
<1>1. Mentions(todo, "SocketConnect")
  BY <1>0, MentionsTail DEF TypeOK
<1>2. CASE sock = "closed"
  <2>1. /\ queue' = queue /\ conn' = conn + 1 /\ writes' = 0 /\ pending' = pending
    BY <1>2 DEF SocketConnect
  <2>2. pending = 0
    BY <1>2 DEF PatientInv, SocketHeld, TypeOK
  <2>3. Occurrences(queue', ReadsOf(conn')) = 0
    <3>1. \A i \in DOMAIN queue : queue[i].conn <= conn /\ queue[i] \in Completions
      BY QueueElements DEF PatientInv, SocketHeld
    <3>2. \A c \in Completions : c.conn <= conn => c \notin ReadsOf(conn + 1)
      BY DEF Completions, ReadsOf, TypeOK
    <3>3. \A i \in DOMAIN queue : queue[i] \notin ReadsOf(conn')
      BY <2>1, <3>1, <3>2
    <3>4. queue \in Seq(Completions)
      BY DEF TypeOK
    <3> QED
      BY <2>1, <3>3, <3>4, OccurrencesNone
  <2>4. Occurrences(todo', Due) = 0
    <3>1. ~ ReadDue
      BY <1>1 DEF PatientInv, DeadReadsDrop
    <3>2. Tail(todo) \in Seq(Frames)
      BY <1>0, HeadTailProperties DEF TypeOK
    <3>3. ~ Mentions(Tail(todo), "Read") /\ ~ Mentions(Tail(todo), "Rearm")
      BY <1>0, <3>1, MentionsTail DEF ReadDue, TypeOK
    <3>4. \A i \in DOMAIN Tail(todo) : Tail(todo)[i] \notin Due
      BY <3>3 DEF Mentions, Due
    <3> QED
      BY <1>0, <3>2, <3>4, OccurrencesNone
  <2> QED
    BY <2>1, <2>2, <2>3, <2>4 DEF ReadsPaid
<1>3. CASE sock # "closed"
  <2>1. /\ queue' = Append(queue, Completion("connect", FALSE))
        /\ UNCHANGED <<pending, conn, writes, sock>>
    BY <1>3 DEF SocketConnect, kernel, session
  <2>2. Occurrences(queue', ReadsOf(conn)) = Occurrences(queue, ReadsOf(conn))
    <3>1. Occurrences(queue', ReadsOf(conn)) = Occurrences(queue, ReadsOf(conn)) + 0
      BY <2>1, Posted
    <3> QED
      BY <3>1, PaidTyped
  <2>3. Occurrences(todo', Due) = Occurrences(todo, Due)
    BY <1>0, QuietPush, QuietScripts, HandlersTyped DEF Due
  <2> QED
    BY <2>1, <2>2, <2>3, ReadsUnmoved
<1> QED
  BY <1>2, <1>3

\* A write that is sent is a read that is due.
LEMMA WriteReads ==
  ASSUME TypeOK, ReadsPaid, Write
  PROVE  ReadsPaid'
<1>0. /\ todo # << >> /\ Head(todo) = "Write"
      /\ UNCHANGED <<queue, sock, pending, conn>>
  BY DEF Write, Calling, reactor, kernel
<1>1. Quiet(<< >>) /\ << >> \in Seq(Frames) /\ "Write" \notin Due
  BY QuietScripts DEF Due
<1>2. Occurrences(Tail(todo), Due) = Occurrences(todo, Due)
  BY <1>0, <1>1, QuietPush
<1>3. CASE writes' = writes /\ todo' \in {todo, Tail(todo)}
  BY <1>0, <1>2, <1>3 DEF ReadsPaid
<1>4. CASE writes' = writes + 1 /\ todo' = <<"Read">> \o Tail(todo)
  <2>1. Tail(todo) \in Seq(Frames) /\ <<"Read">> \in Seq(Frames)
    BY <1>0, HeadTailProperties, HandlersTyped DEF TypeOK
  <2>2. Occurrences(<<"Read">>, Due) = 1
    BY OccurrencesOne DEF Due
  <2>3. Occurrences(todo', Due) = 1 + Occurrences(todo, Due)
    <3>1. Occurrences(<<"Read">> \o Tail(todo), Due)
            = Occurrences(<<"Read">>, Due) + Occurrences(Tail(todo), Due)
      BY <2>1, OccurrencesConcat
    <3> QED
      BY <1>2, <1>4, <2>2, <3>1
  <2>4. pending \in Nat /\ Occurrences(queue, ReadsOf(conn)) \in Nat
        /\ Occurrences(todo, Due) \in Nat
    BY PaidTyped
  <2> QED
    BY <1>0, <1>4, <2>3, <2>4 DEF ReadsPaid
<1> QED
  BY <1>3, <1>4 DEF Write, Return

\* The dispatch of anything but a read of this connection.
LEMMA DispatchUncounted ==
  ASSUME TypeOK, queue # << >>, queue' = Tail(queue), Head(queue) \notin ReadsOf(conn)
  PROVE  Occurrences(queue', ReadsOf(conn)) = Occurrences(queue, ReadsOf(conn))
<1>1. queue \in Seq(Completions) /\ Tail(queue) \in Seq(Completions)
  BY HeadTailProperties DEF TypeOK
<1>2. Occurrences(queue, ReadsOf(conn)) = 0 + Occurrences(Tail(queue), ReadsOf(conn))
  BY <1>1, OccurrencesTail
<1>3. Occurrences(Tail(queue), ReadsOf(conn)) \in Nat
  BY <1>1, PlacesFinite
<1> QED
  BY <1>2, <1>3

\* What the handlers push: one read, after a read.
LEMMA HandlerReads ==
  /\ Occurrences(<< >>, Due) = 0
  /\ Occurrences(ErrorHandler, Due) = 0
  /\ Occurrences(<<"OnConnect">>, Due) = 0
  /\ Occurrences(<<"OnHostResolved", "SocketConnect">>, Due) = 0
  /\ Occurrences(<<"OnRead", "Rearm">>, Due) = 1
  /\ Occurrences(ErrorHandler \o <<"Rearm">>, Due) = 1
<1>1. /\ Occurrences(<< >>, Due) = 0
      /\ Occurrences(ErrorHandler, Due) = 0
      /\ Occurrences(<<"OnConnect">>, Due) = 0
  <2>1. << >> \in Seq(Frames)
    OBVIOUS
  <2> QED
    BY <2>1, QuietScripts, QuietOccurrences, HandlersTyped
<1>2. Places(<<"OnHostResolved", "SocketConnect">>, Due) = {}
  BY DEF Places, Due
<1>3. Places(<<"OnRead", "Rearm">>, Due) = {2}
  BY DEF Places, Due
<1>4. Occurrences(<<"Rearm">>, Due) = 1
  BY OccurrencesOne DEF Due
<1>5. Occurrences(ErrorHandler \o <<"Rearm">>, Due)
        = Occurrences(ErrorHandler, Due) + Occurrences(<<"Rearm">>, Due)
  <2>1. <<"Rearm">> \in Seq(Frames)
    BY FrameNames
  <2> QED
    BY <2>1, HandlersTyped, OccurrencesConcat
<1>6. Occurrences(<<"OnHostResolved", "SocketConnect">>, Due) = 0
  BY <1>2, FS_EmptySet DEF Occurrences
<1>7. Occurrences(<<"OnRead", "Rearm">>, Due) = 1
  BY <1>3, FS_Singleton DEF Occurrences
<1>8. Occurrences(ErrorHandler \o <<"Rearm">>, Due) = 0 + 1
  BY <1>1, <1>4, <1>5
<1> QED
  BY <1>1, <1>6, <1>7, <1>8

\* A read of this connection finds it connected and is followed by another; one of an
\* earlier connection was not counted and is dropped.
LEMMA OnReadReads ==
  ASSUME TypeOK, PatientInv, ReadsPaid, OnRead
  PROVE  ReadsPaid'
<1>0. /\ todo = << >> /\ queue # << >> /\ queue' = Tail(queue) /\ Head(queue).op = "read"
      /\ UNCHANGED <<sock, pending, conn, writes, is_connected>>
  BY DEF OnRead, Dispatch, Dispatched, reactor, kernel
<1>1. 1 \in DOMAIN queue /\ Head(queue) = queue[1] /\ queue[1] \in Completions
  BY <1>0, EmptySeq, QueueElements DEF TypeOK
<1>2. Occurrences(todo, Due) = 0
  BY <1>0, HandlerReads
<1>3. SUFFICES ASSUME sock # "closed"
               PROVE  ReadsPaid'
  BY <1>0 DEF ReadsPaid
<1>4. is_connected <=> Head(queue) \in ReadsOf(conn)
  <2>1. DeadAt(1) => ~ is_connected
    BY <1>1 DEF PatientInv, DeadReadsDrop
  <2>2. AliveAt(1) => is_connected
    BY <1>1 DEF PatientInv, SocketHeld
  <2>3. AliveAt(1) <=> Head(queue) \in ReadsOf(conn)
    BY <1>0, <1>1, <1>3 DEF AliveAt, ReadAt, ReadsOf
  <2>4. DeadAt(1) <=> ~ AliveAt(1)
    BY <1>0, <1>1, <1>3 DEF AliveAt, DeadAt, ReadAt
  <2> QED
    BY <2>1, <2>2, <2>3, <2>4 DEF TypeOK
<1>5. CASE ~ is_connected
  <2>1. todo' = todo
    BY <1>5 DEF OnRead
  <2> QED
    BY <1>0, <1>4, <1>5, <2>1, DispatchUncounted, ReadsUnmoved
<1>6. CASE is_connected
  <2>1. todo' \in {<<"OnRead", "Rearm">>, ErrorHandler \o <<"Rearm">>}
    BY <1>6 DEF OnRead, ReadCalls
  <2>2. Occurrences(todo', Due) = 1
    BY <2>1, HandlerReads
  <2>3. queue \in Seq(Completions) /\ Tail(queue) \in Seq(Completions)
    BY <1>0, HeadTailProperties DEF TypeOK
  <2>4. Occurrences(queue, ReadsOf(conn)) = 1 + Occurrences(queue', ReadsOf(conn))
    BY <1>0, <1>4, <1>6, <2>3, OccurrencesTail
  <2>5. Occurrences(queue', ReadsOf(conn)) \in Nat /\ pending \in Nat
    BY <1>0, <2>3, PlacesFinite DEF TypeOK
  <2> QED
    BY <1>0, <1>2, <1>3, <2>2, <2>4, <2>5 DEF ReadsPaid
<1> QED
  BY <1>5, <1>6

\* A read leaves the reactor for the queue.
LEMMA ReactorReadReads ==
  ASSUME TypeOK, ReadsPaid, ReactorRead
  PROVE  ReadsPaid'
<1>1. /\ sock # "closed" /\ pending > 0 /\ pending' = pending - 1
      /\ UNCHANGED <<todo, sock, conn, writes>>
      /\ \E ok \in BOOLEAN : queue' = Append(queue, Completion("read", ok))
  BY DEF ReactorRead, Readable, AtEOF, Receive, client, kernel, session
<1>2. Occurrences(queue', ReadsOf(conn)) = Occurrences(queue, ReadsOf(conn)) + 1
  BY <1>1, Posted
<1>3. pending \in Nat /\ Occurrences(queue, ReadsOf(conn)) \in Nat
      /\ Occurrences(todo, Due) \in Nat
  BY PaidTyped
<1> QED
  BY <1>1, <1>2, <1>3 DEF ReadsPaid

-----------------------------------------------------------------------------
(* With a patient application, what an open connection owes its reads is   *)
(* what was written on it.                                                 *)
THEOREM ReadsPaidAlways == Patient => (Spec => []ReadsPaid)
<1> SUFFICES ASSUME Patient
             PROVE  Spec => []ReadsPaid
  OBVIOUS
<1>1. Init => ReadsPaid
  BY DEF Init, ReadsPaid
<1>2. TypeOK /\ PatientInv /\ ReadsPaid /\ [Next]_vars => ReadsPaid'
  <2> SUFFICES ASSUME TypeOK, PatientInv, ReadsPaid, [Next]_vars
               PROVE  ReadsPaid'
    OBVIOUS
  <2>0. << >> \in Seq(Frames) /\ Quiet(<< >>) /\ todo \in Seq(Frames)
    BY QuietScripts DEF TypeOK
  <2>1. CASE Connect \/ SkipConnect
    <3>1. /\ todo # << >> /\ Head(todo) \notin Due /\ todo' = Tail(todo)
          /\ UNCHANGED <<queue, pending, sock, conn, writes>>
      BY <2>1 DEF Connect, SkipConnect, Calling, Return, Due, reactor, kernel, session
    <3> QED
      BY <2>0, <3>1, QuietPush, ReadsUnmoved
  <2>2. CASE SocketConnect
    BY <2>2, SocketConnectReads
  <2>3. CASE Disconnect
    BY <2>3 DEF Disconnect, Close, ReadsPaid
  <2>4. CASE Write
    BY <2>4, WriteReads
  <2>5. CASE Read
    <3>1. /\ todo # << >> /\ Head(todo) \in Due /\ todo' = Tail(todo)
          /\ UNCHANGED <<sock, conn, writes>>
      BY <2>5 DEF Read, Calling, Return, Due, kernel, session
    <3>2. sock # "closed" => is_connected
      <4>1. ReadDue
        BY <2>0, <2>5, MentionsTail DEF Read, Calling, ReadDue
      <4> QED
        BY <4>1 DEF PatientInv, DeadReadsDrop, SocketHeld
    <3>3. sock # "closed" => StartRead
      BY <2>5, <3>2 DEF Read
    <3> QED
      BY <3>1, <3>3, DueStarted
  <2>6. CASE Rearm
    <3>1. /\ todo # << >> /\ Head(todo) \in Due /\ todo' = Tail(todo)
          /\ UNCHANGED <<sock, conn, writes>> /\ StartRead
      BY <2>6 DEF Rearm, Calling, Return, Due, kernel, session
    <3> QED
      BY <3>1, DueStarted
  <2>7. CASE ResolveHostHandler \/ OnConnect
    <3>1. /\ todo = << >> /\ queue # << >> /\ queue' = Tail(queue)
          /\ Head(queue).op # "read"
          /\ UNCHANGED <<pending, sock, conn, writes>>
      BY <2>7 DEF ResolveHostHandler, OnConnect, Dispatch, Dispatched, reactor, kernel, session
    <3>2. todo' \in {<<"OnHostResolved", "SocketConnect">>, <<"OnConnect">>, ErrorHandler}
      BY <2>7 DEF ResolveHostHandler, OnConnect, ResolveCalls, ConnectCalls
    <3>3. Occurrences(todo', Due) = Occurrences(todo, Due)
      BY <3>1, <3>2, HandlerReads
    <3>4. Head(queue) \notin ReadsOf(conn)
      BY <3>1 DEF ReadsOf
    <3> QED
      BY <3>1, <3>3, <3>4, DispatchUncounted, ReadsUnmoved
  <2>8. CASE OnRead
    BY <2>8, OnReadReads
  <2>9. ASSUME NEW cb \in Callbacks, Callback(cb)
        PROVE  ReadsPaid'
    <3>1. PICK script \in Overrides[cb] : todo' = script \o Tail(todo)
      BY <2>9 DEF Callback
    <3>2. script \in Seq(Frames) /\ Quiet(script)
      BY OverridesAssumption, FrameNames, SeqMonotonic, QuietScripts
    <3>3. /\ todo # << >> /\ Head(todo) \notin Due
          /\ UNCHANGED <<queue, pending, sock, conn, writes>>
      BY <2>9 DEF Callback, Calling, Callbacks, Due, reactor, kernel, session
    <3>4. Occurrences(todo', Due) = Occurrences(todo, Due)
      BY <3>1, <3>2, <3>3, QuietPush
    <3> QED
      BY <3>3, <3>4, ReadsUnmoved
  <2>10. CASE OutsideCall
    <3>1. PICK call \in Outside : todo' = <<call>>
      BY <2>10 DEF OutsideCall
    <3>2. Occurrences(todo', Due) = 0
      BY <3>1, OutsideAssumption, OccurrencesOne DEF ApiCalls, Due
    <3>3. todo = << >> /\ UNCHANGED <<queue, pending, sock, conn, writes>>
      BY <2>10 DEF OutsideCall, reactor, kernel, session
    <3>4. Occurrences(todo, Due) = 0
      BY <3>3, HandlerReads
    <3> QED
      BY <3>2, <3>3, <3>4, ReadsUnmoved
  <2>11. CASE Resolved \/ ReactorConnect
    <3>1. /\ UNCHANGED <<todo, pending, sock, conn, writes>>
          /\ \E op \in {"resolve", "connect"}, ok \in BOOLEAN :
               queue' = Append(queue, Completion(op, ok))
      BY <2>11 DEF Resolved, ReactorConnect, client, reactor, kernel, session
    <3>2. Occurrences(queue', ReadsOf(conn)) = Occurrences(queue, ReadsOf(conn))
      BY <3>1, Posted, PaidTyped
    <3> QED
      BY <3>1, <3>2, ReadsUnmoved
  <2>12. CASE ReactorRead
    BY <2>12, ReactorReadReads
  <2>13. CASE ConnectionSettles
    BY <2>13, ReadsUnmoved DEF ConnectionSettles, client, reactor, session
  <2>14. CASE ChunkArrives \/ PeerCloses \/ UNCHANGED vars
    BY <2>14, ReadsUnmoved
    DEF ChunkArrives, PeerCloses, vars, client, reactor, kernel, session
  <2> QED
    BY <2>1, <2>2, <2>3, <2>4, <2>5, <2>6, <2>7, <2>8, <2>9, <2>10, <2>11, <2>12,
       <2>13, <2>14
    DEF Next, Handlers, Calls, Reactor, Network
<1> QED
  BY <1>1, <1>2, TypeCorrect, PatientInvariant, PTL DEF Spec

(* So on an established connection the number of reads in flight is the    *)
(* number of writes, for ever: TCPSocket::Write adds a read, OnRead        *)
(* replaces the one it consumed, and neither is lost or doubled.           *)
THEOREM ReadsMatchWrites == Patient => (Spec => []OneReadPerWrite)
<1> SUFFICES ASSUME Patient
             PROVE  Spec => []OneReadPerWrite
  OBVIOUS
<1>1. TypeOK /\ ReadsPaid => OneReadPerWrite
  BY OutstandingCounted DEF ReadsPaid, OneReadPerWrite
<1> QED
  BY <1>1, TypeCorrect, ReadsPaidAlways, PTL

(***************************************************************************)
(* Attempts to connect.                                                    *)
(***************************************************************************)

\* Completions of an operation.
Of(op) == {c \in Completions : c.op = op}

Opening == {"SocketConnect"}

\* Attempts, in terms of occurrences.
AttemptsIn(r, q, t, c) ==
  r + Occurrences(q, Of("resolve")) + Occurrences(q, Of("connect"))
    + Occurrences(t, Opening) + (IF c THEN 1 ELSE 0)

LEMMA AttemptsCounted ==
  ASSUME NEW r \in Nat, NEW q \in Seq(Completions), NEW t \in Seq(Frames), NEW c \in BOOLEAN
  PROVE  /\ \A op : Cardinality({i \in DOMAIN q : q[i].op = op}) = Occurrences(q, Of(op))
         /\ Cardinality({i \in DOMAIN t : t[i] = "SocketConnect"}) = Occurrences(t, Opening)
         /\ Occurrences(q, Of("resolve")) \in Nat
         /\ Occurrences(q, Of("connect")) \in Nat
         /\ Occurrences(t, Opening) \in Nat
         /\ AttemptsIn(r, q, t, c) \in Nat
<1>1. \A i \in DOMAIN q : q[i] \in Completions
  BY LenProperties, ElementOfSeq
<1>2. \A op : {i \in DOMAIN q : q[i].op = op} = Places(q, Of(op))
  BY <1>1 DEF Places, Of
<1>3. {i \in DOMAIN t : t[i] = "SocketConnect"} = Places(t, Opening)
  BY DEF Places, Opening
<1>4. /\ Occurrences(q, Of("resolve")) \in Nat
      /\ Occurrences(q, Of("connect")) \in Nat
      /\ Occurrences(t, Opening) \in Nat
  BY PlacesFinite
<1>5. AttemptsIn(r, q, t, c) \in Nat
  BY <1>4 DEF AttemptsIn
<1> QED
  BY <1>2, <1>3, <1>4, <1>5 DEF Occurrences

LEMMA AttemptsAre ==
  ASSUME TypeOK, TypeOK'
  PROVE  /\ Attempts = AttemptsIn(resolving, queue, todo, connect_op)
         /\ Attempts' = AttemptsIn(resolving', queue', todo', connect_op')
         /\ Attempts \in Nat
<1>1. Attempts = AttemptsIn(resolving, queue, todo, connect_op) /\ Attempts \in Nat
  <2>1. /\ resolving \in Nat /\ queue \in Seq(Completions)
        /\ todo \in Seq(Frames) /\ connect_op \in BOOLEAN
    BY DEF TypeOK
  <2>2. /\ \A op : Count(op) = Occurrences(queue, Of(op))
        /\ Cardinality({i \in DOMAIN todo : todo[i] = "SocketConnect"})
             = Occurrences(todo, Opening)
        /\ AttemptsIn(resolving, queue, todo, connect_op) \in Nat
    BY <2>1, AttemptsCounted DEF Count
  <2> QED
    BY <2>2 DEF Attempts, AttemptsIn
<1>2. Attempts' = AttemptsIn(resolving', queue', todo', connect_op')
  <2>1. /\ resolving' \in Nat /\ queue' \in Seq(Completions)
        /\ todo' \in Seq(Frames) /\ connect_op' \in BOOLEAN
    BY DEF TypeOK
  <2>2. /\ \A op : Cardinality({i \in DOMAIN queue' : queue'[i].op = op})
                    = Occurrences(queue', Of(op))
        /\ Cardinality({i \in DOMAIN todo' : todo'[i] = "SocketConnect"})
             = Occurrences(todo', Opening)
    BY <2>1, AttemptsCounted
  <2> QED
    BY <2>2 DEF Attempts, AttemptsIn, Count
<1> QED
  BY <1>1, <1>2

LEMMA AttemptTypes ==
  ASSUME TypeOK
  PROVE  /\ resolving \in Nat
         /\ Occurrences(queue, Of("resolve")) \in Nat
         /\ Occurrences(queue, Of("connect")) \in Nat
         /\ Occurrences(todo, Opening) \in Nat
BY AttemptsCounted DEF TypeOK

\* An async_connect waits on an open socket.
OpenedForConnect == connect_op => sock # "closed"

LEMMA OpenedStep ==
  ASSUME OpenedForConnect, [Next]_vars
  PROVE  OpenedForConnect'
<1> USE DEF OpenedForConnect
<1>1. CASE SocketConnect
  BY <1>1 DEF SocketConnect, kernel
<1>2. CASE Disconnect
  BY <1>2 DEF Disconnect, Close
<1>3. CASE ReactorConnect
  BY <1>3 DEF ReactorConnect
<1>4. CASE ConnectionSettles
  BY <1>4 DEF ConnectionSettles, reactor
<1>5. CASE UNCHANGED <<connect_op, sock>>
  BY <1>5
<1> QED
  BY <1>1, <1>2, <1>3, <1>4, <1>5
  DEF Next, Handlers, Calls, Reactor, Network, Connect, SkipConnect, Write, Read, Rearm,
      Callback, ResolveHostHandler, OnConnect, OnRead, ReactorRead, ChunkArrives, PeerCloses,
      Resolved, OutsideCall, vars, reactor, kernel

LEMMA PostedOf ==
  ASSUME TypeOK, NEW op \in {"resolve", "connect", "read"}, NEW ok \in BOOLEAN, NEW other
  PROVE  Occurrences(Append(queue, Completion(op, ok)), Of(other))
           = Occurrences(queue, Of(other)) + (IF op = other THEN 1 ELSE 0)
<1>1. Completion(op, ok) \in Completions /\ queue \in Seq(Completions)
  BY CompletionTyped DEF TypeOK
<1>2. Completion(op, ok) \in Of(other) <=> op = other
  BY <1>1 DEF Of, Completion
<1>3. Occurrences(Append(queue, Completion(op, ok)), Of(other))
        = Occurrences(queue, Of(other)) + (IF Completion(op, ok) \in Of(other) THEN 1 ELSE 0)
  BY <1>1, OccurrencesAppend
<1> QED
  BY <1>2, <1>3

\* A connection attempt that is closed is still to be told of.
LEMMA AbortedOf ==
  ASSUME TypeOK
  PROVE  /\ Occurrences(queue \o Aborted, Of("resolve")) = Occurrences(queue, Of("resolve"))
         /\ Occurrences(queue \o Aborted, Of("connect"))
              = Occurrences(queue, Of("connect")) + (IF connect_op THEN 1 ELSE 0)
<1>1. queue \in Seq(Completions) /\ Aborted \in Seq(Completions) /\ pending \in Nat
      /\ connect_op \in BOOLEAN
  BY AbortedTyped DEF TypeOK
<1> DEFINE n == pending + (IF connect_op THEN 1 ELSE 0)
<1>2. DOMAIN Aborted = 1..n
  BY DEF Aborted
<1>3. \A i \in 1..n : Aborted[i].op = IF i <= pending THEN "read" ELSE "connect"
  BY DEF Aborted, Completion
<1>4. \A i \in 1..n : Aborted[i] \in Completions
  BY <1>1, <1>2, ElementOfSeq, LenProperties
<1>5. Places(Aborted, Of("resolve")) = {}
  BY <1>2, <1>3 DEF Places, Of
<1>6. Places(Aborted, Of("connect")) = IF connect_op THEN {pending + 1} ELSE {}
  BY <1>1, <1>2, <1>3, <1>4 DEF Places, Of
<1>7. Occurrences(Aborted, Of("resolve")) = 0
  BY <1>5, FS_EmptySet DEF Occurrences
<1>8. Occurrences(Aborted, Of("connect")) = IF connect_op THEN 1 ELSE 0
  BY <1>6, FS_EmptySet, FS_Singleton DEF Occurrences
<1>9. \A op : Occurrences(queue \o Aborted, Of(op))
                = Occurrences(queue, Of(op)) + Occurrences(Aborted, Of(op))
  BY <1>1, OccurrencesConcat
<1> QED
  BY <1>7, <1>8, <1>9, AttemptTypes

LEMMA DispatchedOf ==
  ASSUME TypeOK, queue # << >>, NEW op
  PROVE  /\ Occurrences(queue, Of(op))
              = (IF Head(queue).op = op THEN 1 ELSE 0) + Occurrences(Tail(queue), Of(op))
         /\ Occurrences(Tail(queue), Of(op)) \in Nat
<1>1. queue \in Seq(Completions) /\ Tail(queue) \in Seq(Completions)
      /\ Head(queue) \in Completions
  BY HeadTailProperties DEF TypeOK
<1>2. Head(queue) \in Of(op) <=> Head(queue).op = op
  BY <1>1 DEF Of
<1>3. Occurrences(queue, Of(op))
        = (IF Head(queue) \in Of(op) THEN 1 ELSE 0) + Occurrences(Tail(queue), Of(op))
  BY <1>1, OccurrencesTail
<1> QED
  BY <1>1, <1>2, <1>3, PlacesFinite

\* What the handlers push: one call of TCPSocket::Connect, after a lookup.
LEMMA HandlerOpens ==
  /\ Occurrences(<< >>, Opening) = 0
  /\ Occurrences(ErrorHandler, Opening) = 0
  /\ Occurrences(<<"OnConnect">>, Opening) = 0
  /\ Occurrences(<<"OnHostResolved", "SocketConnect">>, Opening) = 1
  /\ Occurrences(<<"OnRead", "Rearm">>, Opening) = 0
  /\ Occurrences(ErrorHandler \o <<"Rearm">>, Opening) = 0
  /\ Occurrences(<<"OnDisconnect">>, Opening) = 0
  /\ Occurrences(<<"Read">>, Opening) = 0
  /\ \A script \in Seq(ApiCalls) : Occurrences(script, Opening) = 0
<1>1. \A s \in Seq(Frames) : ~ Mentions(s, "SocketConnect") => Occurrences(s, Opening) = 0
  <2>1. \A s : ~ Mentions(s, "SocketConnect") => \A i \in DOMAIN s : s[i] \notin Opening
    BY DEF Mentions, Opening
  <2> QED
    BY <2>1, OccurrencesNone
<1>2. /\ ~ Mentions(<< >>, "SocketConnect")
      /\ ~ Mentions(ErrorHandler, "SocketConnect")
      /\ ~ Mentions(<<"OnConnect">>, "SocketConnect")
      /\ ~ Mentions(<<"OnDisconnect">>, "SocketConnect")
      /\ \A script \in Seq(ApiCalls) : ~ Mentions(script, "SocketConnect")
  BY QuietScripts DEF Quiet, Counted
<1>3. /\ ~ Mentions(<<"OnRead", "Rearm">>, "SocketConnect")
      /\ ~ Mentions(ErrorHandler \o <<"Rearm">>, "SocketConnect")
  BY OneDue
<1>4. ~ Mentions(<<"Read">>, "SocketConnect")
  BY DEF Mentions
<1>5. << >> \in Seq(Frames) /\ \A script \in Seq(ApiCalls) : script \in Seq(Frames)
  BY FrameNames, SeqMonotonic
<1>6. Places(<<"OnHostResolved", "SocketConnect">>, Opening) = {2}
  BY DEF Places, Opening
<1>7. Occurrences(<<"OnHostResolved", "SocketConnect">>, Opening) = 1
  BY <1>6, FS_Singleton DEF Occurrences
<1> QED
  BY <1>1, <1>2, <1>3, <1>4, <1>5, <1>7, HandlersTyped

\* The calls of the client that are not of Connect or TCPSocket::Connect.
LEMMA CallsKeepAttempts ==
  ASSUME TypeOK, TypeOK', SkipConnect \/ Disconnect \/ Write \/ Read \/ Rearm
                          \/ \E cb \in Callbacks : Callback(cb)
  PROVE  Attempts' = Attempts
<1>0. << >> \in Seq(Frames)
  OBVIOUS
<1>1. Occurrences(todo', Opening) = Occurrences(todo, Opening)
  <2>1. CASE SkipConnect \/ Read \/ Rearm
    <3>1. todo # << >> /\ Head(todo) \notin Opening /\ todo' = Tail(todo)
      BY <2>1 DEF SkipConnect, Read, Rearm, Calling, Return, Opening
    <3> QED
      BY <1>0, <3>1, PushUncounted, HandlerOpens
  <2>2. CASE Disconnect
    <3>1. todo # << >> /\ Head(todo) \notin Opening /\ todo' = <<"OnDisconnect">> \o Tail(todo)
      BY <2>2 DEF Disconnect, Calling, Opening
    <3> QED
      BY <3>1, PushUncounted, HandlerOpens, HandlersTyped
  <2>3. CASE Write
    <3>1. /\ todo # << >> /\ Head(todo) \notin Opening
          /\ todo' \in {todo, Tail(todo), <<"Read">> \o Tail(todo)}
      BY <2>3 DEF Write, Calling, Return, Opening
    <3> QED
      BY <3>1, PushUncounted, HandlerOpens, HandlersTyped
  <2>4. ASSUME NEW cb \in Callbacks, Callback(cb)
        PROVE  Occurrences(todo', Opening) = Occurrences(todo, Opening)
    <3>1. PICK script \in Overrides[cb] : todo' = script \o Tail(todo)
      BY <2>4 DEF Callback
    <3>2. script \in Seq(ApiCalls) /\ script \in Seq(Frames)
      BY OverridesAssumption, FrameNames, SeqMonotonic
    <3>3. todo # << >> /\ Head(todo) \notin Opening
      BY <2>4 DEF Callback, Calling, Callbacks, Opening
    <3> QED
      BY <3>1, <3>2, <3>3, PushUncounted, HandlerOpens
  <2> QED
    BY <2>1, <2>2, <2>3, <2>4
<1>2. resolving' = resolving
  BY DEF SkipConnect, Disconnect, Write, Read, Rearm, Callback
<1>3. CASE Disconnect
  <2>1. queue' = queue \o Aborted /\ connect_op' = FALSE
    BY <1>3 DEF Disconnect, Close
  <2> QED
    BY <1>1, <1>2, <2>1, AbortedOf, AttemptsAre, AttemptTypes DEF AttemptsIn
<1>4. CASE ~ Disconnect
  <2>1. connect_op' = connect_op
    BY <1>4 DEF SkipConnect, Write, Read, Rearm, Callback, reactor
  <2>2. \/ queue' = queue
        \/ \E ok \in BOOLEAN : queue' = Append(queue, Completion("read", ok))
    BY <1>4 DEF SkipConnect, Write, Read, Rearm, Callback, StartRead, Receive
  <2>3. /\ Occurrences(queue', Of("resolve")) = Occurrences(queue, Of("resolve"))
        /\ Occurrences(queue', Of("connect")) = Occurrences(queue, Of("connect"))
    <3>1. CASE queue' = queue
      BY <3>1
    <3>2. ASSUME NEW ok \in BOOLEAN, queue' = Append(queue, Completion("read", ok))
          PROVE  /\ Occurrences(queue', Of("resolve")) = Occurrences(queue, Of("resolve")) + 0
                 /\ Occurrences(queue', Of("connect")) = Occurrences(queue, Of("connect")) + 0
      BY <3>2, PostedOf
    <3> QED
      BY <2>2, <3>1, <3>2, AttemptTypes
  <2> QED
    BY <1>1, <1>2, <2>1, <2>3, AttemptsAre DEF AttemptsIn
<1> QED
  BY <1>3, <1>4

\* TCPSocket::Connect turns a call into an operation, or into news of its failure.
LEMMA OpeningKeepsAttempts ==
  ASSUME TypeOK, TypeOK', OpenedForConnect, SocketConnect
  PROVE  Attempts' = Attempts
<1>1. todo # << >> /\ Head(todo) \in Opening /\ todo' = Tail(todo) /\ todo \in Seq(Frames)
      /\ resolving' = resolving
  BY DEF SocketConnect, Calling, Return, Opening, TypeOK
<1>2. Occurrences(todo, Opening) = 1 + Occurrences(todo', Opening)
  BY <1>1, OccurrencesTail
<1>3. Occurrences(todo', Opening) \in Nat
  BY AttemptsCounted DEF TypeOK
<1>4. CASE sock = "closed"
  <2>1. queue' = queue /\ connect_op' = TRUE /\ ~ connect_op
    BY <1>4 DEF SocketConnect, OpenedForConnect
  <2> DEFINE q == resolving + Occurrences(queue, Of("resolve")) + Occurrences(queue, Of("connect"))
  <2>2. q \in Nat
    BY AttemptTypes
  <2>3. Attempts = q + Occurrences(todo, Opening) + 0
    BY <2>1, AttemptsAre DEF AttemptsIn
  <2>4. Attempts' = q + Occurrences(todo', Opening) + 1
    BY <1>1, <2>1, AttemptsAre DEF AttemptsIn
  <2> HIDE DEF q
  <2> QED
    BY <1>2, <1>3, <2>2, <2>3, <2>4
<1>5. CASE sock # "closed"
  <2>1. queue' = Append(queue, Completion("connect", FALSE)) /\ connect_op' = connect_op
    BY <1>5 DEF SocketConnect
  <2>2. /\ Occurrences(queue', Of("resolve")) = Occurrences(queue, Of("resolve")) + 0
        /\ Occurrences(queue', Of("connect")) = Occurrences(queue, Of("connect")) + 1
    BY <2>1, PostedOf
  <2> DEFINE c == IF connect_op THEN 1 ELSE 0
             r == Occurrences(queue, Of("resolve"))
             n == Occurrences(queue, Of("connect"))
  <2>3. r \in Nat /\ n \in Nat /\ resolving \in Nat /\ c \in Nat
    BY AttemptTypes
  <2>4. Attempts = resolving + r + n + Occurrences(todo, Opening) + c
    BY AttemptsAre DEF AttemptsIn
  <2>5. Attempts' = resolving + (r + 0) + (n + 1) + Occurrences(todo', Opening) + c
    BY <1>1, <2>1, <2>2, AttemptsAre DEF AttemptsIn
  <2> HIDE DEF c, r, n
  <2> QED
    BY <1>2, <1>3, <2>3, <2>4, <2>5
<1> QED
  BY <1>4, <1>5

LEMMA ConnectAddsAttempt ==
  ASSUME TypeOK, TypeOK', Connect
  PROVE  Attempts' = Attempts + 1
<1>1. /\ todo # << >> /\ Head(todo) \notin Opening /\ todo' = Tail(todo)
      /\ resolving' = resolving + 1 /\ queue' = queue /\ connect_op' = connect_op
  BY DEF Connect, Calling, Return, Opening, reactor
<1>2. << >> \in Seq(Frames)
  OBVIOUS
<1>3. Occurrences(todo', Opening) = Occurrences(todo, Opening)
  BY <1>1, <1>2, PushUncounted, HandlerOpens
<1>4. /\ Attempts = AttemptsIn(resolving, queue, todo, connect_op)
      /\ Attempts' = AttemptsIn(resolving + 1, queue, todo', connect_op)
  BY <1>1, AttemptsAre
<1>5. /\ resolving \in Nat
      /\ Occurrences(queue, Of("resolve")) \in Nat /\ Occurrences(queue, Of("connect")) \in Nat
      /\ Occurrences(todo, Opening) \in Nat /\ (IF connect_op THEN 1 ELSE 0) \in Nat
  BY AttemptTypes
<1> QED
  BY <1>3, <1>4, <1>5 DEF AttemptsIn

\* Of the handlers, those end an attempt that go on to OnConnect or OnError.
LEMMA HandlersEndAttempts ==
  ASSUME TypeOK, TypeOK', Handlers
  PROVE  /\ ResolveHostHandler /\ Head(queue).ok => Attempts' = Attempts
         /\ ResolveHostHandler /\ ~ Head(queue).ok => Attempts' = Attempts - 1
         /\ OnConnect => Attempts' = Attempts - 1
         /\ OnRead => Attempts' = Attempts
<1>1. todo = << >> /\ queue # << >> /\ queue' = Tail(queue)
      /\ resolving' = resolving /\ connect_op' = connect_op
  BY DEF Handlers, ResolveHostHandler, OnConnect, OnRead, Dispatch, Dispatched, reactor
<1>2. Occurrences(todo, Opening) = 0
  BY <1>1, HandlerOpens
<1>3. \A op : /\ Occurrences(queue, Of(op))
                   = (IF Head(queue).op = op THEN 1 ELSE 0) + Occurrences(queue', Of(op))
              /\ Occurrences(queue', Of(op)) \in Nat
  BY <1>1, DispatchedOf
<1>4. CASE ResolveHostHandler
  <2>1. Head(queue).op = "resolve" /\ todo' = ResolveCalls(Head(queue).ok)
    BY <1>4 DEF ResolveHostHandler, Dispatch
  <2>2. /\ Occurrences(queue, Of("resolve")) = 1 + Occurrences(queue', Of("resolve"))
        /\ Occurrences(queue, Of("connect")) = Occurrences(queue', Of("connect"))
    BY <1>3, <2>1
  <2>3. Occurrences(todo', Opening) = IF Head(queue).ok THEN 1 ELSE 0
    BY <2>1, HandlerOpens DEF ResolveCalls
  <2>4. /\ Head(queue).ok => Attempts' = Attempts
        /\ ~ Head(queue).ok => Attempts' = Attempts - 1
    <3>1. /\ Attempts = AttemptsIn(resolving, queue, todo, connect_op)
          /\ Attempts' = AttemptsIn(resolving, queue', todo', connect_op)
      BY <1>1, AttemptsAre
    <3>2. /\ resolving \in Nat /\ (IF connect_op THEN 1 ELSE 0) \in Nat
          /\ Occurrences(queue', Of("resolve")) \in Nat
          /\ Occurrences(queue', Of("connect")) \in Nat
      BY <1>3, AttemptTypes
    <3> QED
      BY <1>2, <2>2, <2>3, <3>1, <3>2 DEF AttemptsIn
  <2>5. ~ OnConnect /\ ~ OnRead
    BY <2>1 DEF OnConnect, OnRead, Dispatch
  <2> QED
    BY <2>4, <2>5
<1>5. CASE OnConnect
  <2>1. Head(queue).op = "connect" /\ todo' = ConnectCalls(Head(queue).ok)
    BY <1>5 DEF OnConnect, Dispatch
  <2>2. /\ Occurrences(queue, Of("resolve")) = Occurrences(queue', Of("resolve"))
        /\ Occurrences(queue, Of("connect")) = 1 + Occurrences(queue', Of("connect"))
    BY <1>3, <2>1
  <2>3. Occurrences(todo', Opening) = 0
    BY <2>1, HandlerOpens DEF ConnectCalls
  <2>4. Attempts' = Attempts - 1
    BY <1>1, <1>2, <1>3, <2>2, <2>3, AttemptsAre, AttemptTypes DEF AttemptsIn
  <2>5. ~ ResolveHostHandler /\ ~ OnRead
    BY <2>1 DEF ResolveHostHandler, OnRead, Dispatch
  <2> QED
    BY <2>4, <2>5
<1>6. CASE OnRead
  <2>1. Head(queue).op = "read" /\ todo' \in {todo, ReadCalls(Head(queue).ok)}
    BY <1>6 DEF OnRead, Dispatch
  <2>2. /\ Occurrences(queue, Of("resolve")) = Occurrences(queue', Of("resolve"))
        /\ Occurrences(queue, Of("connect")) = Occurrences(queue', Of("connect"))
    BY <1>3, <2>1
  <2>3. Occurrences(todo', Opening) = 0
    BY <1>2, <2>1, HandlerOpens DEF ReadCalls
  <2>4. Attempts' = Attempts
    BY <1>1, <1>2, <1>3, <2>2, <2>3, AttemptsAre, AttemptTypes DEF AttemptsIn
  <2>5. ~ ResolveHostHandler /\ ~ OnConnect
    BY <2>1 DEF ResolveHostHandler, OnConnect, Dispatch
  <2> QED
    BY <2>4, <2>5
<1> QED
  BY <1>4, <1>5, <1>6 DEF Handlers

\* Everybody else.
LEMMA OthersKeepAttempts ==
  ASSUME TypeOK, TypeOK', Reactor \/ Network \/ Resolved \/ OutsideCall \/ UNCHANGED vars
  PROVE  Attempts' = Attempts
<1>1. CASE Resolved
  <2>1. /\ resolving > 0 /\ resolving' = resolving - 1 /\ todo' = todo
        /\ connect_op' = connect_op
        /\ \E ok \in BOOLEAN : queue' = Append(queue, Completion("resolve", ok))
    BY <1>1 DEF Resolved, client, reactor
  <2>2. /\ Occurrences(queue', Of("resolve")) = Occurrences(queue, Of("resolve")) + 1
        /\ Occurrences(queue', Of("connect")) = Occurrences(queue, Of("connect")) + 0
    BY <2>1, PostedOf
  <2> QED
    BY <2>1, <2>2, AttemptsAre, AttemptTypes DEF AttemptsIn
<1>2. CASE ReactorConnect
  <2>1. /\ connect_op /\ connect_op' = FALSE /\ todo' = todo /\ resolving' = resolving
        /\ \E ok \in BOOLEAN : queue' = Append(queue, Completion("connect", ok))
    BY <1>2 DEF ReactorConnect, client
  <2>2. /\ Occurrences(queue', Of("resolve")) = Occurrences(queue, Of("resolve")) + 0
        /\ Occurrences(queue', Of("connect")) = Occurrences(queue, Of("connect")) + 1
    BY <2>1, PostedOf
  <2> QED
    BY <2>1, <2>2, AttemptsAre, AttemptTypes DEF AttemptsIn
<1>3. CASE ReactorRead
  <2>1. /\ connect_op' = connect_op /\ todo' = todo /\ resolving' = resolving
        /\ \E ok \in BOOLEAN : queue' = Append(queue, Completion("read", ok))
    BY <1>3 DEF ReactorRead, Receive, client
  <2>2. /\ Occurrences(queue', Of("resolve")) = Occurrences(queue, Of("resolve")) + 0
        /\ Occurrences(queue', Of("connect")) = Occurrences(queue, Of("connect")) + 0
    BY <2>1, PostedOf
  <2> QED
    BY <2>1, <2>2, AttemptsAre, AttemptTypes DEF AttemptsIn
<1>4. CASE OutsideCall
  <2>1. /\ todo = << >> /\ \E call \in Outside : todo' = <<call>>
        /\ UNCHANGED <<resolving, queue, connect_op>>
    BY <1>4 DEF OutsideCall, reactor
  <2>2. Occurrences(todo, Opening) = 0 /\ Occurrences(todo', Opening) = 0
    BY <2>1, HandlerOpens, OutsideAssumption, OccurrencesOne DEF ApiCalls, Opening
  <2> QED
    BY <2>1, <2>2, AttemptsAre DEF AttemptsIn
<1>5. CASE UNCHANGED <<resolving, queue, todo, connect_op>>
  BY <1>5, AttemptsAre
<1> QED
  BY <1>1, <1>2, <1>3, <1>4, <1>5
  DEF Reactor, Network, ConnectionSettles, ChunkArrives, PeerCloses, vars, client, reactor

-----------------------------------------------------------------------------
(* Whatever the application does, overlapping attempts included, none of   *)
(* them ends but in a handler that calls OnConnect or OnError next.        *)
THEOREM AttemptsEndInCallback == Spec => AttemptEndsInCallback
<1> DEFINE A == Attempts' < Attempts =>
                  todo' # << >> /\ Head(todo') \in {"OnConnect", "OnError"}
<1>1. Init => OpenedForConnect
  BY DEF Init, OpenedForConnect
<1>2. OpenedForConnect /\ [Next]_vars => OpenedForConnect'
  BY OpenedStep
<1>3. TypeOK /\ TypeOK' /\ OpenedForConnect /\ [Next]_vars => [A]_vars
  <2> SUFFICES ASSUME TypeOK, TypeOK', OpenedForConnect, [Next]_vars, Attempts' < Attempts
               PROVE  todo' # << >> /\ Head(todo') \in {"OnConnect", "OnError"}
    OBVIOUS
  <2>1. Attempts \in Nat /\ Attempts' # Attempts /\ Attempts' # Attempts + 1
    BY AttemptsAre
  <2>2. Handlers
    BY <2>1, CallsKeepAttempts, OpeningKeepsAttempts, ConnectAddsAttempt, OthersKeepAttempts
    DEF Next, Calls
  <2>3. \/ ResolveHostHandler /\ ~ Head(queue).ok
        \/ OnConnect
    BY <2>1, <2>2, HandlersEndAttempts DEF Handlers
  <2>4. todo' \in {ErrorHandler, <<"OnConnect">>}
    BY <2>3 DEF ResolveHostHandler, OnConnect, ResolveCalls, ConnectCalls
  <2> QED
    BY <2>4 DEF ErrorHandler
<1> QED
  BY <1>1, <1>2, <1>3, TypeCorrect, PTL DEF Spec, AttemptEndsInCallback

(***************************************************************************)
(* A client that believes it is connected.  The news of a connection is    *)
(* taken for true long after it was posted; it still is when nobody closes *)
(* the socket in between, which only a handler from elsewhere could.       *)
(***************************************************************************)

\* Disconnect is called by callbacks only.
ClosesInCallbacks == Patient /\ "Disconnect" \notin Outside

\* In s, f comes last.
OnlyLast(s, f) == \A i \in DOMAIN s : s[i] = f => i = Len(s)

GoodNews == \E i \in DOMAIN queue : queue[i].op = "connect" /\ queue[i].ok

Closing == Mentions(todo, "Disconnect")

\* Until the news of a connection is heard, nothing is called that closes its socket.
BelievedOpen ==
  /\ OnlyLast(todo, "SocketConnect")
  /\ connect_op \/ GoodNews => todo \in {<< >>, <<"Connect">>, <<"Write">>}
  /\ GoodNews => sock = "established"
  /\ is_connected /\ sock # "established" => Closing

LEMMA LastPush ==
  ASSUME TypeOK, todo # << >>, NEW f, OnlyLast(todo, f),
         NEW front \in Seq(Frames), ~ Mentions(front, f)
  PROVE  OnlyLast(Tail(todo), f) /\ OnlyLast(front \o Tail(todo), f)
<1>1. /\ Tail(todo) \in Seq(Frames) /\ Len(Tail(todo)) = Len(todo) - 1 /\ Len(todo) \in Nat
      /\ \A i \in 1..Len(Tail(todo)) : Tail(todo)[i] = todo[i + 1]
      /\ DOMAIN todo = 1..Len(todo) /\ DOMAIN Tail(todo) = 1..Len(Tail(todo))
  BY HeadTailProperties, LenProperties DEF TypeOK
<1>2. OnlyLast(Tail(todo), f)
  <2> SUFFICES ASSUME NEW i \in 1..Len(Tail(todo)), Tail(todo)[i] = f
               PROVE  i = Len(Tail(todo))
    BY <1>1 DEF OnlyLast
  <2>1. i + 1 \in DOMAIN todo /\ todo[i + 1] = f
    BY <1>1
  <2>2. i + 1 = Len(todo)
    BY <2>1 DEF OnlyLast
  <2>3. Len(todo) \in Nat /\ Len(Tail(todo)) = Len(todo) - 1
    BY <1>1
  <2>4. i \in Int
    BY <2>3
  <2> QED
    BY <2>2, <2>3, <2>4
<1>3. OnlyLast(front \o Tail(todo), f)
  <2> DEFINE s == front \o Tail(todo)
  <2>1. /\ DOMAIN s = 1..(Len(front) + Len(Tail(todo))) /\ Len(s) = Len(front) + Len(Tail(todo))
        /\ \A i \in 1..(Len(front) + Len(Tail(todo))) :
             s[i] = IF i <= Len(front) THEN front[i] ELSE Tail(todo)[i - Len(front)]
        /\ Len(front) \in Nat /\ DOMAIN front = 1..Len(front)
    BY <1>1, ConcatProperties, LenProperties
  <2> HIDE DEF s
  <2> SUFFICES ASSUME NEW i \in DOMAIN s, s[i] = f
               PROVE  i = Len(s)
    BY DEF OnlyLast, s
  <2>2. ~ (i <= Len(front))
    <3> SUFFICES ASSUME i <= Len(front) PROVE FALSE
      OBVIOUS
    <3>1. i \in DOMAIN front /\ front[i] = f
      BY <1>1, <2>1
    <3> QED
      BY <3>1 DEF Mentions
  <2>3. i - Len(front) \in DOMAIN Tail(todo) /\ Tail(todo)[i - Len(front)] = f
    BY <1>1, <2>1, <2>2
  <2>4. i - Len(front) = Len(Tail(todo))
    BY <1>2, <2>3 DEF OnlyLast
  <2> QED
    BY <1>1, <2>1, <2>4
<1> QED
  BY <1>2, <1>3

\* Calls that are not Disconnect leave it to be made.
LEMMA ClosingKept ==
  ASSUME TypeOK, todo # << >>, Head(todo) # "Disconnect", NEW front \in Seq(Frames), Closing
  PROVE  Mentions(Tail(todo), "Disconnect") /\ Mentions(front \o Tail(todo), "Disconnect")
<1>1. todo \in Seq(Frames) /\ Tail(todo) \in Seq(Frames)
  BY HeadTailProperties DEF TypeOK
<1>2. Mentions(Tail(todo), "Disconnect")
  BY <1>1, MentionsTail DEF Closing
<1> QED
  BY <1>1, <1>2, MentionsConcat

\* No step but that of the reactor brings good news.
LEMMA NoOtherNews ==
  ASSUME TypeOK,
         \/ queue' = queue
         \/ queue # << >> /\ queue' = Tail(queue)
         \/ queue' = queue \o Aborted
         \/ \E op \in {"resolve", "connect", "read"}, ok \in BOOLEAN :
              (op = "connect" => ~ ok) /\ queue' = Append(queue, Completion(op, ok))
  PROVE  GoodNews' => GoodNews
<1>1. CASE queue' = queue
  BY <1>1 DEF GoodNews
<1>2. CASE queue # << >> /\ queue' = Tail(queue)
  <2> SUFFICES ASSUME NEW i \in DOMAIN queue', queue'[i].op = "connect", queue'[i].ok
               PROVE  GoodNews
    BY DEF GoodNews
  <2>1. /\ Len(queue) \in Nat \ {0} /\ DOMAIN queue = 1..Len(queue)
        /\ i \in 1..(Len(queue) - 1) /\ queue[i + 1] = queue'[i]
    BY <1>2, QueueDispatched
  <2>2. i + 1 \in DOMAIN queue
    BY <2>1
  <2> QED
    BY <2>1, <2>2 DEF GoodNews
<1>3. CASE queue' = queue \o Aborted
  <2> SUFFICES ASSUME NEW i \in DOMAIN queue', queue'[i].op = "connect", queue'[i].ok
               PROVE  GoodNews
    BY DEF GoodNews
  <2>1. i \in DOMAIN queue /\ queue'[i] = queue[i]
    BY <1>3, QueueAborted
  <2> QED
    BY <2>1 DEF GoodNews
<1>4. ASSUME NEW op \in {"resolve", "connect", "read"}, NEW ok \in BOOLEAN,
             op = "connect" => ~ ok, queue' = Append(queue, Completion(op, ok))
      PROVE  GoodNews' => GoodNews
  <2> SUFFICES ASSUME NEW i \in DOMAIN queue', queue'[i].op = "connect", queue'[i].ok
               PROVE  GoodNews
    BY DEF GoodNews
  <2>1. Completion(op, ok) \in Completions
    BY CompletionTyped
  <2>2. Completion(op, ok).op = op /\ Completion(op, ok).ok = ok
    BY DEF Completion
  <2>3. i \in DOMAIN queue /\ queue'[i] = queue[i]
    BY <1>4, <2>1, <2>2, QueueAppended
  <2> QED
    BY <2>3 DEF GoodNews
<1> QED
  BY <1>1, <1>2, <1>3, <1>4

\* While the client is connected, opening, looking up or about to hear of either, there
\* is no news besides.
LEMMA NoNewsYet ==
  ASSUME TypeOK, PatientInv,
         is_connected \/ Mentions(todo, "SocketConnect")
           \/ (queue # << >> /\ Head(queue).op = "resolve")
  PROVE  ~ connect_op /\ ~ GoodNews
<1>1. CASE is_connected
  BY <1>1 DEF PatientInv, ConnectedIsSettled, Connecting, GoodNews
<1>2. CASE Mentions(todo, "SocketConnect")
  BY <1>2 DEF PatientInv, OneAttempt, AttemptAt, GoodNews
<1>3. CASE queue # << >> /\ Head(queue).op = "resolve"
  <2>1. 1 \in DOMAIN queue /\ Head(queue) = queue[1]
    BY <1>3, EmptySeq, QueueElements DEF TypeOK
  <2>2. AttemptAt(1)
    BY <1>3, <2>1 DEF AttemptAt
  <2>3. \A i \in DOMAIN queue : AttemptAt(i) => i = 1
    BY <2>1, <2>2 DEF PatientInv, OneAttempt
  <2>4. ~ GoodNews
    BY <1>3, <2>1, <2>3 DEF GoodNews, AttemptAt
  <2> QED
    BY <2>1, <2>2, <2>4 DEF PatientInv, OneAttempt
<1> QED
  BY <1>1, <1>2, <1>3

\* Once the news of a connection is taken from the queue, there is no other.
LEMMA NewsHeard ==
  ASSUME TypeOK, PatientInv, queue # << >>, Head(queue).op = "connect", queue' = Tail(queue)
  PROVE  ~ connect_op /\ ~ GoodNews' /\ ~ is_connected
         /\ (Head(queue).ok => GoodNews)
<1>1. 1 \in DOMAIN queue /\ Head(queue) = queue[1]
  BY EmptySeq, QueueElements DEF TypeOK
<1>2. AttemptAt(1)
  BY <1>1 DEF AttemptAt
<1>3. \A i \in DOMAIN queue : AttemptAt(i) => i = 1
  BY <1>1, <1>2 DEF PatientInv, OneAttempt
<1>4. ~ GoodNews'
  <2> SUFFICES ASSUME NEW i \in DOMAIN queue', queue'[i].op = "connect"
               PROVE  FALSE
    BY DEF GoodNews
  <2>1. i + 1 \in DOMAIN queue /\ queue[i + 1] = queue'[i] /\ i \in Nat \ {0}
    BY QueueDispatched
  <2>2. i + 1 = 1
    BY <1>3, <2>1 DEF AttemptAt
  <2> QED
    BY <2>1, <2>2
<1>5. ~ connect_op
  BY <1>1, <1>2 DEF PatientInv, OneAttempt
<1>6. ~ is_connected
  BY <1>1 DEF PatientInv, ConnectedIsSettled, Connecting
<1> QED
  BY <1>1, <1>4, <1>5, <1>6 DEF GoodNews

\* A call that the news does not wait for, or that leaves nothing to call.
LEMMA BelievedCall ==
  ASSUME TypeOK, BelievedOpen, todo # << >>, Head(todo) # "Disconnect",
         NEW front \in Seq(Frames), ~ Mentions(front, "SocketConnect"),
         todo' \in {todo, Tail(todo), front \o Tail(todo)},
         connect_op \/ GoodNews => todo' = todo \/ todo' = Tail(todo),
         GoodNews' => GoodNews, UNCHANGED <<connect_op, sock, is_connected>>
  PROVE  BelievedOpen'
<1>1. OnlyLast(todo', "SocketConnect")
  BY LastPush DEF BelievedOpen
<1>2. connect_op \/ GoodNews => todo' \in {<< >>, <<"Connect">>, <<"Write">>}
  <2> SUFFICES ASSUME connect_op \/ GoodNews, todo' = Tail(todo)
               PROVE  todo' = << >>
    BY DEF BelievedOpen
  <2>1. todo = <<"Connect">> \/ todo = <<"Write">>
    BY DEF BelievedOpen
  <2>2. Tail(<<"Connect">>) = << >> /\ Tail(<<"Write">>) = << >>
    OBVIOUS
  <2> QED
    BY <2>1, <2>2
<1>3. Closing => Closing'
  BY ClosingKept DEF Closing
<1> QED
  BY <1>1, <1>2, <1>3 DEF BelievedOpen

LEMMA BelievedCalls ==
  ASSUME TypeOK, PatientInv, BelievedOpen,
         Connect \/ SkipConnect \/ Write \/ Read \/ Rearm \/ \E cb \in Callbacks : Callback(cb)
  PROVE  BelievedOpen'
<1>0. /\ << >> \in Seq(Frames) /\ ~ Mentions(<< >>, "SocketConnect")
      /\ <<"Read">> \in Seq(Frames) /\ ~ Mentions(<<"Read">>, "SocketConnect")
  <2>1. ~ Mentions(<< >>, "SocketConnect") /\ ~ Mentions(<<"Read">>, "SocketConnect")
    BY DEF Mentions
  <2> QED
    BY <2>1, HandlersTyped
<1>1. CASE Connect \/ SkipConnect
  <2>1. /\ todo # << >> /\ Head(todo) # "Disconnect" /\ todo' = Tail(todo)
        /\ UNCHANGED <<queue, connect_op, sock, is_connected>>
    BY <1>1 DEF Connect, SkipConnect, Calling, Return, reactor, kernel
  <2> QED
    BY <1>0, <2>1, NoOtherNews, BelievedCall
<1>2. CASE Write
  <2>1. /\ todo # << >> /\ Head(todo) # "Disconnect"
        /\ todo' \in {todo, Tail(todo), <<"Read">> \o Tail(todo)}
        /\ ~ is_connected => todo' = Tail(todo)
        /\ UNCHANGED <<queue, connect_op, sock, is_connected>>
    BY <1>2 DEF Write, Calling, Return, reactor, kernel
  <2>2. connect_op \/ GoodNews => todo' = Tail(todo)
    BY <2>1, NoNewsYet
  <2> QED
    BY <1>0, <2>1, <2>2, NoOtherNews, BelievedCall
<1>3. CASE Read \/ Rearm
  <2>1. /\ todo # << >> /\ Head(todo) # "Disconnect" /\ todo' = Tail(todo)
        /\ UNCHANGED <<connect_op, sock, is_connected>>
        /\ \/ queue' = queue
           \/ \E ok \in BOOLEAN : queue' = Append(queue, Completion("read", ok))
    BY <1>3 DEF Read, Rearm, StartRead, Receive, Calling, Return, kernel
  <2>2. GoodNews' => GoodNews
    BY <2>1, NoOtherNews
  <2> QED
    BY <1>0, <2>1, <2>2, BelievedCall
<1>4. ASSUME NEW cb \in Callbacks, Callback(cb)
      PROVE  BelievedOpen'
  <2>1. PICK script \in Overrides[cb] : todo' = script \o Tail(todo)
    BY <1>4 DEF Callback
  <2>2. script \in Seq(Frames) /\ ~ Mentions(script, "SocketConnect")
    BY OverridesAssumption, FrameNames, SeqMonotonic, QuietScripts DEF Quiet, Counted
  <2>3. /\ todo # << >> /\ Head(todo) \notin {"Connect", "Write", "Disconnect"}
        /\ UNCHANGED <<queue, connect_op, sock, is_connected>>
    BY <1>4 DEF Callback, Calling, Callbacks, reactor, kernel
  <2>4. ~ connect_op /\ ~ GoodNews
    <3>1. todo \notin {<< >>, <<"Connect">>, <<"Write">>}
      BY <2>3
    <3> QED
      BY <3>1 DEF BelievedOpen
  <2> QED
    BY <2>1, <2>2, <2>3, <2>4, NoOtherNews, BelievedCall
<1> QED
  BY <1>1, <1>2, <1>3, <1>4

LEMMA BelievedSocketCalls ==
  ASSUME TypeOK, PatientInv, BelievedOpen, SocketConnect \/ Disconnect
  PROVE  BelievedOpen'
<1>1. CASE SocketConnect
  <2>1. todo # << >> /\ Head(todo) = "SocketConnect" /\ todo' = Tail(todo)
    BY <1>1 DEF SocketConnect, Calling, Return
  <2>2. Mentions(todo, "SocketConnect") /\ 1 \in DOMAIN todo /\ todo[1] = "SocketConnect"
    <3>1. 1 \in DOMAIN todo /\ todo[1] = Head(todo)
      BY <2>1, EmptySeq, LenProperties DEF TypeOK
    <3> QED
      BY <2>1, <3>1 DEF Mentions
  <2>3. todo' = << >>
    <3>1. Len(todo) = 1
      BY <2>2 DEF BelievedOpen, OnlyLast
    <3>2. Tail(todo) \in Seq(Frames) /\ Len(Tail(todo)) = 0
      BY <2>1, <3>1, HeadTailProperties DEF TypeOK
    <3> QED
      BY <2>1, <3>2, EmptySeq
  <2>4. ~ connect_op /\ ~ GoodNews
    BY <2>2, NoNewsYet
  <2>5. ~ is_connected
    BY <2>2 DEF PatientInv, ConnectedIsSettled, Connecting
  <2>6. \A i \in DOMAIN queue : ~ NewsAt(i)
    BY <2>2 DEF PatientInv, OneAttempt, AttemptAt, NewsAt
  <2>7. sock = "closed"
    BY <2>4, <2>5, <2>6 DEF PatientInv, SocketHeld
  <2>8. queue' = queue /\ is_connected' = is_connected
    BY <1>1, <2>7 DEF SocketConnect
  <2>9. ~ GoodNews' /\ OnlyLast(todo', "SocketConnect")
    BY <2>3, <2>4, <2>8 DEF GoodNews, OnlyLast
  <2> QED
    BY <2>3, <2>5, <2>8, <2>9 DEF BelievedOpen
<1>2. CASE Disconnect
  <2>1. /\ todo # << >> /\ Head(todo) = "Disconnect" /\ todo' = <<"OnDisconnect">> \o Tail(todo)
        /\ is_connected' = FALSE /\ connect_op' = FALSE /\ queue' = queue \o Aborted
    BY <1>2 DEF Disconnect, Calling, Close
  <2>2. todo \notin {<< >>, <<"Connect">>, <<"Write">>}
    BY <2>1
  <2>3. ~ GoodNews'
    BY <2>1, <2>2, NoOtherNews DEF BelievedOpen
  <2>4. ~ Mentions(<<"OnDisconnect">>, "SocketConnect")
    BY DEF Mentions
  <2>5. OnlyLast(todo', "SocketConnect")
    BY <2>1, <2>4, LastPush, HandlersTyped DEF BelievedOpen
  <2> QED
    BY <2>1, <2>3, <2>5 DEF BelievedOpen
<1> QED
  BY <1>1, <1>2

LEMMA BelievedHandlers ==
  ASSUME TypeOK, PatientInv, BelievedOpen, Handlers
  PROVE  BelievedOpen'
<1>0. /\ todo = << >> /\ queue # << >> /\ queue' = Tail(queue)
      /\ UNCHANGED <<connect_op, sock>>
  BY DEF Handlers, ResolveHostHandler, OnConnect, OnRead, Dispatch, Dispatched, reactor, kernel
<1>1. ~ Closing
  BY <1>0 DEF Closing, Mentions
<1>2. GoodNews' => GoodNews
  BY <1>0, NoOtherNews
<1>3. Mentions(ErrorHandler, "Disconnect")
  BY DEF ErrorHandler, Mentions
<1>4. \A s : ~ Mentions(s, "SocketConnect") => OnlyLast(s, "SocketConnect")
  BY DEF Mentions, OnlyLast
<1>5. /\ OnlyLast(<< >>, "SocketConnect")
      /\ OnlyLast(ErrorHandler, "SocketConnect")
      /\ OnlyLast(<<"OnConnect">>, "SocketConnect")
      /\ OnlyLast(<<"OnRead", "Rearm">>, "SocketConnect")
      /\ OnlyLast(ErrorHandler \o <<"Rearm">>, "SocketConnect")
  BY <1>4, QuietScripts, OneDue DEF Quiet, Counted
<1>6. OnlyLast(<<"OnHostResolved", "SocketConnect">>, "SocketConnect")
  BY DEF OnlyLast
<1>7. CASE ResolveHostHandler
  <2>1. /\ Head(queue).op = "resolve" /\ is_connected' = is_connected
        /\ todo' \in {<<"OnHostResolved", "SocketConnect">>, ErrorHandler}
    BY <1>7 DEF ResolveHostHandler, ResolveCalls, Dispatch
  <2>2. ~ connect_op /\ ~ GoodNews'
    BY <1>0, <1>2, <2>1, NoNewsYet
  <2> QED
    BY <1>0, <1>1, <1>5, <1>6, <2>1, <2>2 DEF BelievedOpen
<1>8. CASE OnConnect
  <2>1. Head(queue).op = "connect" /\ todo' = ConnectCalls(Head(queue).ok)
    BY <1>8 DEF OnConnect, Dispatch
  <2>2. ~ connect_op /\ ~ GoodNews' /\ (Head(queue).ok => GoodNews)
    BY <1>0, <2>1, NewsHeard
  <2>3. Head(queue).ok => sock = "established" /\ todo' = <<"OnConnect">>
    BY <2>1, <2>2 DEF BelievedOpen, ConnectCalls
  <2>4. ~ Head(queue).ok => todo' = ErrorHandler
    BY <2>1 DEF ConnectCalls
  <2> QED
    BY <1>0, <1>3, <1>5, <2>2, <2>3, <2>4 DEF BelievedOpen, Closing
<1>9. CASE OnRead
  <2>1. /\ is_connected' = is_connected
        /\ ~ is_connected => todo' = todo
        /\ is_connected => todo' \in {<<"OnRead", "Rearm">>, ErrorHandler \o <<"Rearm">>}
    BY <1>9 DEF OnRead, ReadCalls
  <2>2. is_connected => ~ connect_op /\ ~ GoodNews' /\ sock = "established"
    BY <1>1, <1>2, NoNewsYet DEF BelievedOpen
  <2>3. CASE is_connected
    BY <1>0, <1>5, <2>1, <2>2, <2>3 DEF BelievedOpen
  <2>4. CASE ~ is_connected
    BY <1>0, <1>2, <2>1, <2>4 DEF BelievedOpen
  <2> QED
    BY <2>3, <2>4
<1> QED
  BY <1>7, <1>8, <1>9 DEF Handlers

LEMMA BelievedOthers ==
  ASSUME TypeOK, PatientInv, BelievedOpen, ClosesInCallbacks,
         Reactor \/ Network \/ Resolved \/ OutsideCall \/ UNCHANGED vars
  PROVE  BelievedOpen'
<1>1. CASE OutsideCall
  <2>1. PICK call \in Outside : todo' = <<call>>
    BY <1>1 DEF OutsideCall
  <2>2. todo = << >> /\ UNCHANGED <<queue, connect_op, sock, is_connected>>
    BY <1>1 DEF OutsideCall, reactor, kernel
  <2>3. call \in {"Connect", "Write"}
    BY OutsideAssumption DEF ClosesInCallbacks, ApiCalls
  <2>4. ~ Closing /\ OnlyLast(todo', "SocketConnect")
    BY <2>1, <2>2, <2>3 DEF Closing, Mentions, OnlyLast
  <2> QED
    BY <2>1, <2>2, <2>3, <2>4 DEF BelievedOpen, GoodNews
<1>2. CASE Resolved \/ ReactorRead
  <2>1. /\ UNCHANGED <<todo, connect_op, sock, is_connected>>
        /\ \E op \in {"resolve", "read"}, ok \in BOOLEAN :
             queue' = Append(queue, Completion(op, ok))
    BY <1>2 DEF Resolved, ReactorRead, Receive, client, reactor, kernel
  <2>2. GoodNews' => GoodNews
    BY <2>1, NoOtherNews
  <2> QED
    BY <2>1, <2>2 DEF BelievedOpen, Closing
<1>3. CASE ReactorConnect
  <2>1. /\ todo = << >> /\ ~ connect_op' /\ UNCHANGED <<todo, sock, is_connected>>
        /\ queue' = Append(queue, Completion("connect", sock = "established"))
    BY <1>3 DEF ReactorConnect, client, kernel
  <2>2. GoodNews' => sock = "established"
    <3> SUFFICES ASSUME sock # "established"
                 PROVE  ~ GoodNews'
      OBVIOUS
    <3>1. queue' = Append(queue, Completion("connect", FALSE))
      BY <2>1
    <3> QED
      BY <3>1, NoOtherNews DEF BelievedOpen
  <2> QED
    BY <2>1, <2>2 DEF BelievedOpen, Closing
<1>4. CASE ConnectionSettles
  BY <1>4 DEF ConnectionSettles, BelievedOpen, Closing, GoodNews, client, reactor
<1>5. CASE UNCHANGED <<todo, queue, connect_op, sock, is_connected>>
  BY <1>5 DEF BelievedOpen, Closing, GoodNews
<1> QED
  BY <1>1, <1>2, <1>3, <1>4, <1>5
  DEF Reactor, Network, ChunkArrives, PeerCloses, vars, client, reactor, kernel

-----------------------------------------------------------------------------
(* For an application that is patient and calls Disconnect from its        *)
(* callbacks only, news of a connection stays true until it is heard.      *)
THEOREM BelievedOpenAlways == ClosesInCallbacks => (Spec => []BelievedOpen)
<1> SUFFICES ASSUME ClosesInCallbacks
             PROVE  Spec => []BelievedOpen
  OBVIOUS
<1>1. Init => BelievedOpen
  BY DEF Init, BelievedOpen, OnlyLast, GoodNews
<1>2. TypeOK /\ PatientInv /\ BelievedOpen /\ [Next]_vars => BelievedOpen'
  <2> SUFFICES ASSUME TypeOK, PatientInv, BelievedOpen, [Next]_vars
               PROVE  BelievedOpen'
    OBVIOUS
  <2> QED
    BY BelievedCalls, BelievedSocketCalls, BelievedHandlers, BelievedOthers DEF Next, Calls
<1>3. Patient
  BY DEF ClosesInCallbacks
<1> QED
  BY <1>1, <1>2, <1>3, TypeCorrect, PatientInvariant, PTL DEF Spec

-----------------------------------------------------------------------------
(* Such an application, whenever and how often it disconnects, never finds *)
(* is_connected_ set on a socket that is not open, between two handlers.   *)
THEOREM OpenBetween == ClosesInCallbacks => (Spec => []OpenBetweenHandlers)
<1> SUFFICES ASSUME ClosesInCallbacks
             PROVE  Spec => []OpenBetweenHandlers
  OBVIOUS
<1>1. BelievedOpen => OpenBetweenHandlers
  BY DEF BelievedOpen, OpenBetweenHandlers, Closing, Mentions
<1> QED
  BY <1>1, BelievedOpenAlways, PTL

\* The application does not answer an error with a Write: it is told of one while
\* is_connected_ is still set, before the Disconnect of ErrorHandler.
NoWriteOnError ==
  \A script \in Overrides["OnError"] : ~ Mentions(script, "Write")

\* Nothing that s calls before its Disconnect may write.
AboutToClose(s) ==
  \E i \in DOMAIN s :
    /\ s[i] = "Disconnect"
    /\ \A j \in DOMAIN s : j < i => s[j] \in {"OnError", "Connect", "Disconnect"}

\* From a failed attempt to the Disconnect that answers it, and after a throw.
FailureClosed ==
  /\ is_connected /\ sock # "established" => AboutToClose(todo)
  /\ ThrowsOnLossOnly

LEMMA CloseIsNear ==
  ASSUME TypeOK, AboutToClose(todo),
         NEW front \in Seq({"Connect", "Disconnect"})
  PROVE  /\ todo # << >> /\ Head(todo) \in {"OnError", "Connect", "Disconnect"}
         /\ Head(todo) # "Disconnect" => AboutToClose(Tail(todo))
         /\ Head(todo) # "Disconnect" => AboutToClose(front \o Tail(todo))
<1>1. PICK i \in DOMAIN todo :
        /\ todo[i] = "Disconnect"
        /\ \A j \in DOMAIN todo : j < i => todo[j] \in {"OnError", "Connect", "Disconnect"}
  BY DEF AboutToClose
<1>2. Len(todo) \in Nat /\ DOMAIN todo = 1..Len(todo)
  BY LenProperties DEF TypeOK
<1>3. todo # << >> /\ 1 \in DOMAIN todo /\ Head(todo) = todo[1]
  BY <1>1, <1>2, EmptySeq DEF TypeOK
<1>4. Head(todo) \in {"OnError", "Connect", "Disconnect"}
  <2>1. i = 1 \/ 1 < i
    BY <1>1, <1>2
  <2> QED
    BY <1>1, <1>3, <2>1
<1> SUFFICES ASSUME Head(todo) # "Disconnect"
             PROVE  AboutToClose(Tail(todo)) /\ AboutToClose(front \o Tail(todo))
  BY <1>3, <1>4
<1> DEFINE rest == Tail(todo)
           k == i - 1
<1>5. /\ rest \in Seq(Frames) /\ Len(rest) = Len(todo) - 1 /\ DOMAIN rest = 1..Len(rest)
      /\ \A j \in 1..Len(rest) : rest[j] = todo[j + 1]
  BY <1>3, HeadTailProperties, LenProperties DEF TypeOK
<1>6. k \in 1..Len(rest)
  BY <1>1, <1>2, <1>3, <1>5
<1>7. rest[k] = "Disconnect"
  <2>1. rest[k] = todo[k + 1] /\ k + 1 = i
    BY <1>1, <1>2, <1>5, <1>6
  <2> QED
    BY <1>1, <2>1
<1>8. ASSUME NEW j \in 1..Len(rest), j < k
      PROVE  rest[j] \in {"OnError", "Connect", "Disconnect"}
  <2>1. j + 1 \in DOMAIN todo /\ j + 1 < i /\ rest[j] = todo[j + 1]
    BY <1>2, <1>5, <1>6, <1>8
  <2> QED
    BY <1>1, <2>1
<1> HIDE DEF rest, k
<1>9. AboutToClose(rest)
  BY <1>5, <1>6, <1>7, <1>8 DEF AboutToClose
<1>10. AboutToClose(front \o rest)
  <2> DEFINE s == front \o rest
             n == Len(front)
  <2>1. front \in Seq(Frames)
    BY FrameNames, SeqMonotonic DEF ApiCalls
  <2>2. /\ n \in Nat /\ DOMAIN front = 1..n
        /\ \A j \in 1..n : front[j] \in {"Connect", "Disconnect"}
    BY LenProperties, ElementOfSeq
  <2>3. /\ DOMAIN s = 1..(n + Len(rest)) /\ Len(rest) \in Nat
        /\ \A j \in 1..(n + Len(rest)) :
             s[j] = IF j <= n THEN front[j] ELSE rest[j - n]
    <3>1. /\ s \in Seq(Frames) /\ Len(s) = n + Len(rest)
          /\ \A j \in 1..(n + Len(rest)) : s[j] = IF j <= n THEN front[j] ELSE rest[j - n]
      BY <1>5, <2>1, ConcatProperties
    <3>2. Len(rest) \in Nat /\ DOMAIN s = 1..Len(s)
      BY <1>5, <3>1, LenProperties
    <3> QED
      BY <3>1, <3>2
  <2> HIDE DEF s, n
  <2>4. n + k \in DOMAIN s /\ s[n + k] = "Disconnect"
    <3>1. n + k \in 1..(n + Len(rest)) /\ ~ (n + k <= n) /\ (n + k) - n = k
      BY <1>6, <2>2, <2>3
    <3> QED
      BY <1>7, <2>3, <3>1
  <2>5. ASSUME NEW j \in DOMAIN s, j < n + k
        PROVE  s[j] \in {"OnError", "Connect", "Disconnect"}
    <3>1. CASE j <= n
      BY <2>2, <2>3, <3>1
    <3>2. CASE ~ (j <= n)
      <4>1. j - n \in 1..Len(rest) /\ j - n < k /\ s[j] = rest[j - n]
        BY <1>6, <2>2, <2>3, <2>5, <3>2
      <4> QED
        BY <1>8, <4>1
    <3> QED
      BY <3>1, <3>2
  <2>6. AboutToClose(s)
    BY <2>4, <2>5 DEF AboutToClose
  <2> QED
    BY <2>6 DEF s
<1> QED
  BY <1>9, <1>10 DEF rest

\* A failure raises is_connected_ only together with the Disconnect that lowers it, and
\* the calls in between leave both alone.
LEMMA FailureClosedStep ==
  ASSUME TypeOK, PatientInv, BelievedOpen, NoWriteOnError, FailureClosed, [Next]_vars
  PROVE  FailureClosed'
<1>1. << >> \in Seq({"Connect", "Disconnect"}) /\ ~ AboutToClose(<< >>)
  BY DEF AboutToClose
<1>2. ASSUME UNCHANGED <<is_connected, sock, todo>>
      PROVE  is_connected' /\ sock' # "established" => AboutToClose(todo')
  BY <1>2 DEF FailureClosed
<1>3. ASSUME todo = << >>, is_connected' => is_connected,
             sock' # "established" => sock # "established"
      PROVE  is_connected' /\ sock' # "established" => AboutToClose(todo')
  BY <1>1, <1>3 DEF FailureClosed
<1>4. ASSUME UNCHANGED <<thrown, sock>>, peer_closed => peer_closed'
      PROVE  ThrowsOnLossOnly'
  BY <1>4 DEF FailureClosed, ThrowsOnLossOnly
<1>5. CASE Connect \/ SkipConnect
  <2>1. todo' = Tail(todo) /\ Head(todo) = "Connect" /\ UNCHANGED <<is_connected, thrown, kernel>>
    BY <1>5 DEF Connect, SkipConnect, Calling, Return
  <2>2. is_connected' /\ sock' # "established" => AboutToClose(todo')
    BY <1>1, <2>1, CloseIsNear DEF FailureClosed, kernel
  <2> QED
    BY <1>4, <2>1, <2>2 DEF FailureClosed, kernel
<1>6. CASE SocketConnect
  <2>1. todo # << >> /\ Head(todo) = "SocketConnect" /\ ~ thrown
        /\ UNCHANGED <<is_connected, thrown>>
    BY <1>6 DEF SocketConnect, Calling
  <2>2. Mentions(todo, "SocketConnect")
    BY <2>1, MentionsTail DEF TypeOK
  <2>3. ~ is_connected
    BY <2>2 DEF PatientInv, ConnectedIsSettled, Connecting
  <2> QED
    BY <2>1, <2>3 DEF FailureClosed, ThrowsOnLossOnly
<1>7. CASE Disconnect
  BY <1>7 DEF Disconnect, Close, Calling, FailureClosed, ThrowsOnLossOnly
<1>8. CASE Write
  <2>1. todo # << >> /\ Head(todo) = "Write" /\ UNCHANGED <<is_connected, kernel>>
    BY <1>8 DEF Write, Calling
  <2>2. ~ is_connected \/ sock = "established"
    BY <1>1, <2>1, CloseIsNear DEF FailureClosed
  <2>3. is_connected' /\ sock' # "established" => AboutToClose(todo')
    BY <2>1, <2>2 DEF kernel
  <2>4. \/ UNCHANGED thrown
        \/ is_connected /\ WriteFails
    BY <1>8 DEF Write
  <2>5. ThrowsOnLossOnly'
    BY <1>4, <2>1, <2>2, <2>4 DEF WriteFails, ThrowsOnLossOnly, kernel
  <2> QED
    BY <2>3, <2>5 DEF FailureClosed
<1>9. CASE Read \/ Rearm
  <2>1. /\ todo # << >> /\ Head(todo) \in {"Read", "Rearm"}
        /\ UNCHANGED <<is_connected, thrown, kernel>>
    BY <1>9 DEF Read, Rearm, Calling
  <2>2. ~ is_connected \/ sock = "established"
    BY <1>1, <2>1, CloseIsNear DEF FailureClosed
  <2> QED
    BY <1>4, <2>1, <2>2 DEF FailureClosed, kernel
<1>10. ASSUME NEW cb \in Callbacks, Callback(cb)
       PROVE  FailureClosed'
  <2>1. PICK script \in Overrides[cb] : todo' = script \o Tail(todo)
    BY <1>10 DEF Callback
  <2>2. /\ todo # << >> /\ Head(todo) = cb /\ cb \notin {"Connect", "Disconnect"}
        /\ UNCHANGED <<is_connected, thrown, kernel>>
    BY <1>10 DEF Callback, Calling, Callbacks
  <2>3. ASSUME is_connected, sock # "established"
        PROVE  AboutToClose(todo')
    <3>1. AboutToClose(todo)
      BY <2>3 DEF FailureClosed
    <3>2. cb = "OnError"
      BY <1>1, <2>2, <3>1, CloseIsNear
    <3>3. script \in Seq(ApiCalls) /\ ~ Mentions(script, "Write")
      BY <2>1, <3>2, OverridesAssumption DEF NoWriteOnError, Callbacks
    <3>4. script \in Seq({"Connect", "Disconnect"})
      <4>1. \A i \in 1..Len(script) : script[i] \in {"Connect", "Disconnect"}
        BY <3>3, ElementOfSeq, LenProperties DEF Mentions, ApiCalls
      <4> QED
        BY <3>3, <4>1, IsASeq, LenProperties
    <3> QED
      BY <2>1, <2>2, <3>1, <3>4, CloseIsNear
  <2> QED
    BY <1>4, <2>2, <2>3 DEF FailureClosed, kernel
<1>11. CASE OnConnect
  <2>1. /\ todo' = ConnectCalls(Head(queue).ok) /\ UNCHANGED <<thrown, kernel>>
        /\ queue # << >> /\ Head(queue).op = "connect" /\ queue' = Tail(queue)
    BY <1>11 DEF OnConnect, Dispatch, Dispatched
  <2>2. Head(queue).ok => sock = "established"
    BY <2>1, NewsHeard DEF BelievedOpen
  <2>3. AboutToClose(ErrorHandler)
    BY DEF AboutToClose, ErrorHandler
  <2> QED
    BY <1>4, <2>1, <2>2, <2>3 DEF FailureClosed, ConnectCalls, kernel
<1>12. CASE ResolveHostHandler \/ OnRead \/ OutsideCall
  <2>1. todo = << >> /\ UNCHANGED <<is_connected, thrown, kernel>>
    BY <1>12 DEF ResolveHostHandler, OnRead, OutsideCall, Dispatch
  <2> QED
    BY <1>3, <1>4, <2>1 DEF FailureClosed, kernel
<1>13. CASE ConnectionSettles
  <2>1. sock = "connecting" /\ UNCHANGED <<is_connected, todo, thrown>>
    BY <1>13 DEF ConnectionSettles, client
  <2> QED
    BY <2>1 DEF FailureClosed, ThrowsOnLossOnly
<1>14. CASE Reactor \/ Resolved \/ UNCHANGED vars
  <2>1. UNCHANGED <<is_connected, todo, thrown, sock, peer_closed>>
    BY <1>14 DEF Reactor, ReactorConnect, ReactorRead, Resolved, vars, client, kernel
  <2> QED
    BY <1>2, <1>4, <2>1 DEF FailureClosed
<1>15. CASE ChunkArrives \/ PeerCloses
  <2>1. UNCHANGED <<is_connected, todo, thrown, sock>> /\ (peer_closed => peer_closed')
    BY <1>15 DEF ChunkArrives, PeerCloses, client
  <2> QED
    BY <1>2, <1>4, <2>1 DEF FailureClosed
<1> QED
  BY <1>5, <1>6, <1>7, <1>8, <1>9, <1>10, <1>11, <1>12, <1>13, <1>14, <1>15
  DEF Next, Handlers, Calls, Network

-----------------------------------------------------------------------------
(* If, besides, it does not write when it is told of an error, what it     *)
(* believes holds for each of its writes too: only a peer that has gone    *)
(* makes one throw out of io_service::run.                                 *)
THEOREM BelievesOnlyOpen ==
  ClosesInCallbacks /\ NoWriteOnError => (Spec => []ConnectedMeansOpen)
<1> SUFFICES ASSUME ClosesInCallbacks, NoWriteOnError
             PROVE  Spec => []ConnectedMeansOpen
  OBVIOUS
<1>1. Init => FailureClosed
  BY DEF Init, FailureClosed, ThrowsOnLossOnly
<1>2. TypeOK /\ PatientInv /\ BelievedOpen /\ FailureClosed /\ [Next]_vars => FailureClosed'
  BY FailureClosedStep
<1>3. OpenBetweenHandlers /\ FailureClosed => ConnectedMeansOpen
  BY DEF FailureClosed, ConnectedMeansOpen
<1>4. Patient
  BY DEF ClosesInCallbacks
<1> QED
  BY <1>1, <1>2, <1>3, <1>4, TypeCorrect, PatientInvariant, BelievedOpenAlways, OpenBetween, PTL
  DEF Spec

(***************************************************************************)
(* Every attempt ends once.                                                *)
(***************************************************************************)

\* The application disconnects only a connection it has: once, from OnConnect or OnRead.
ClosesWhatItHas ==
  /\ ClosesInCallbacks
  /\ \A cb \in Callbacks : \A script \in Overrides[cb] :
       /\ Once(script, {"Disconnect"})
       /\ Mentions(script, "Disconnect") => cb \in {"OnConnect", "OnRead"}

Parting == {"OnDisconnect"}

\* The connection there is, or the one that is about to be closed.
Live == IF is_connected \/ Closing THEN 1 ELSE 0

\* A call of a virtual that an override may disconnect from.
EventDue == Mentions(todo, "OnConnect") \/ Mentions(todo, "OnRead")

Balanced ==
  /\ Once(todo, {"Disconnect"})
  /\ EventDue => is_connected /\ todo \in {<<"OnConnect">>, <<"OnRead", "Rearm">>}
  /\ connects = farewells + Occurrences(todo, Parting) + Attempts + Live

LEMMA PartingTyped ==
  ASSUME TypeOK
  PROVE  /\ Occurrences(todo, Parting) \in Nat /\ connects \in Nat /\ farewells \in Nat
         /\ Live \in Nat
BY PlacesFinite DEF TypeOK, Live

LEMMA NotMentioned ==
  ASSUME NEW s \in Seq(Frames), NEW f, ~ Mentions(s, f)
  PROVE  Occurrences(s, {f}) = 0
<1>1. \A i \in DOMAIN s : s[i] \notin {f}
  BY DEF Mentions
<1> QED
  BY <1>1, OccurrencesNone

\* Once its first call is made, a handler has no such call left.
LEMMA EventMade ==
  ASSUME TypeOK, Balanced, todo # << >>, NEW f \in {"OnConnect", "OnRead"},
         NEW front \in Seq(Frames), ~ Mentions(front, f)
  PROVE  ~ Mentions(Tail(todo), f) /\ ~ Mentions(front \o Tail(todo), f)
<1>1. todo \in Seq(Frames) /\ Tail(todo) \in Seq(Frames)
  BY HeadTailProperties DEF TypeOK
<1>2. ~ Mentions(Tail(todo), f)
  <2> SUFFICES ASSUME Mentions(Tail(todo), f) PROVE FALSE
    OBVIOUS
  <2>1. Mentions(todo, f)
    BY <1>1, MentionsTail
  <2>2. todo = <<"OnConnect">> \/ todo = <<"OnRead", "Rearm">>
    BY <2>1 DEF Balanced, EventDue
  <2>3. Tail(<<"OnConnect">>) = << >> /\ Tail(<<"OnRead", "Rearm">>) = <<"Rearm">>
    OBVIOUS
  <2>4. ~ Mentions(<< >>, f) /\ ~ Mentions(<<"Rearm">>, f)
    BY DEF Mentions
  <2> QED
    BY <2>2, <2>3, <2>4
<1> QED
  BY <1>1, <1>2, MentionsConcat

\* A call of neither Disconnect nor OnDisconnect that pushes neither.
LEMMA BalancedCall ==
  ASSUME TypeOK, Balanced, todo # << >>, Head(todo) \notin {"Disconnect", "OnDisconnect"},
         NEW front \in Seq(Frames),
         \A f \in {"Disconnect", "OnDisconnect", "OnConnect", "OnRead"} : ~ Mentions(front, f),
         todo' \in {Tail(todo), front \o Tail(todo)},
         UNCHANGED <<is_connected, farewells>>,
         \/ connects' = connects /\ Attempts' = Attempts
         \/ connects' = connects + 1 /\ Attempts' = Attempts + 1,
         Attempts \in Nat
  PROVE  Balanced'
<1>1. todo \in Seq(Frames) /\ Tail(todo) \in Seq(Frames)
  BY HeadTailProperties DEF TypeOK
<1>2. Once(todo', {"Disconnect"})
  <2>1. Once(Tail(todo), {"Disconnect"})
    BY <1>1, OnceTail DEF Balanced
  <2>2. Once(front, {"Disconnect"}) /\ \A f \in {"Disconnect"} : ~ Mentions(front, f)
    BY DEF Once, Mentions
  <2> QED
    BY <1>1, <2>1, <2>2, OnceConcat
<1>3. ~ EventDue'
  BY EventMade DEF EventDue
<1>4. Closing' <=> Closing
  <2>1. Mentions(todo, "Disconnect") <=> Mentions(Tail(todo), "Disconnect")
    BY <1>1, MentionsTail
  <2>2. Mentions(front \o Tail(todo), "Disconnect")
          <=> Mentions(front, "Disconnect") \/ Mentions(Tail(todo), "Disconnect")
    BY <1>1, MentionsConcat
  <2>3. ~ Mentions(front, "Disconnect")
    OBVIOUS
  <2>4. todo' = Tail(todo) \/ todo' = front \o Tail(todo)
    OBVIOUS
  <2> QED
    BY <2>1, <2>2, <2>3, <2>4 DEF Closing
<1>5. Occurrences(todo', Parting) = Occurrences(todo, Parting)
  <2>1. Occurrences(front, Parting) = 0
    BY NotMentioned DEF Parting
  <2> QED
    BY <2>1, PushUncounted DEF Parting
<1>6. Live' = Live
  BY <1>4 DEF Live
<1> QED
  BY <1>2, <1>3, <1>5, <1>6, PartingTyped DEF Balanced

LEMMA BalancedCalls ==
  ASSUME TypeOK, TypeOK', PatientInv, OpenedForConnect, Balanced,
         Connect \/ SkipConnect \/ SocketConnect \/ Read \/ Rearm
  PROVE  Balanced'
<1>0. /\ << >> \in Seq(Frames)
      /\ \A f \in {"Disconnect", "OnDisconnect", "OnConnect", "OnRead"} : ~ Mentions(<< >>, f)
      /\ Attempts \in Nat
  BY AttemptsAre DEF Mentions
<1>1. /\ todo # << >> /\ Head(todo) \notin {"Disconnect", "OnDisconnect"}
      /\ todo' = Tail(todo) /\ UNCHANGED <<is_connected, farewells>>
  BY DEF Connect, SkipConnect, SocketConnect, Read, Rearm, Calling, Return, calls
<1>2. CASE Connect
  <2>1. connects' = connects + 1 /\ Attempts' = Attempts + 1
    BY <1>2, ConnectAddsAttempt DEF Connect
  <2> QED
    BY <1>0, <1>1, <2>1, BalancedCall
<1>3. CASE SkipConnect \/ SocketConnect \/ Read \/ Rearm
  <2>1. connects' = connects /\ Attempts' = Attempts
    BY <1>3, CallsKeepAttempts, OpeningKeepsAttempts
    DEF SkipConnect, SocketConnect, Read, Rearm, calls
  <2> QED
    BY <1>0, <1>1, <2>1, BalancedCall
<1> QED
  BY <1>2, <1>3

LEMMA BalancedWrite ==
  ASSUME TypeOK, TypeOK', Balanced, Write
  PROVE  Balanced'
<1>1. /\ todo # << >> /\ Head(todo) \notin {"Disconnect", "OnDisconnect"}
      /\ todo' \in {todo, Tail(todo), <<"Read">> \o Tail(todo)}
      /\ UNCHANGED <<is_connected, farewells, connects>>
  BY DEF Write, Calling, Return, calls
<1>2. Attempts' = Attempts /\ Attempts \in Nat
  BY CallsKeepAttempts, AttemptsAre
<1>3. CASE todo' = todo
  BY <1>1, <1>2, <1>3 DEF Balanced, EventDue, Live, Closing
<1>4. CASE todo' # todo
  <2>1. \A f \in {"Disconnect", "OnDisconnect", "OnConnect", "OnRead"} :
          ~ Mentions(<<"Read">>, f)
    BY DEF Mentions
  <2> QED
    BY <1>1, <1>2, <1>4, <2>1, BalancedCall, HandlersTyped
<1> QED
  BY <1>3, <1>4

\* What was live is told that it ends.
LEMMA BalancedDisconnect ==
  ASSUME TypeOK, TypeOK', Balanced, Disconnect
  PROVE  Balanced'
<1>1. /\ todo # << >> /\ Head(todo) = "Disconnect" /\ todo' = <<"OnDisconnect">> \o Tail(todo)
      /\ is_connected' = FALSE /\ connects' = connects /\ farewells' = farewells
  BY DEF Disconnect, Calling, Close, calls
<1>2. /\ todo \in Seq(Frames) /\ Tail(todo) \in Seq(Frames)
      /\ <<"OnDisconnect">> \in Seq(Frames)
  BY <1>1, HeadTailProperties, HandlersTyped DEF TypeOK
<1>3. \A f \in {"Disconnect", "OnConnect", "OnRead"} : ~ Mentions(<<"OnDisconnect">>, f)
  BY DEF Mentions
<1>4. /\ Once(Tail(todo), {"Disconnect"})
      /\ ~ Mentions(Tail(todo), "Disconnect")
  BY <1>1, <1>2, OnceTail DEF Balanced
<1>5. Once(todo', {"Disconnect"}) /\ ~ Closing'
  <2>1. Once(<<"OnDisconnect">>, {"Disconnect"})
    BY DEF Once
  <2>2. \A f \in {"Disconnect"} : ~ Mentions(<<"OnDisconnect">>, f)
    BY <1>3
  <2> QED
    BY <1>1, <1>2, <1>3, <1>4, <2>1, <2>2, OnceConcat, MentionsConcat DEF Closing
<1>6. ~ EventDue'
  BY <1>1, <1>2, <1>3, EventMade DEF EventDue
<1>7. Occurrences(todo', Parting) = 1 + Occurrences(todo, Parting)
  <2>1. Occurrences(<<"OnDisconnect">> \o Tail(todo), Parting)
          = Occurrences(<<"OnDisconnect">>, Parting) + Occurrences(Tail(todo), Parting)
    BY <1>2, OccurrencesConcat
  <2>2. Occurrences(<<"OnDisconnect">>, Parting) = 1
    BY OccurrencesOne DEF Parting
  <2>3. Occurrences(todo, Parting) = 0 + Occurrences(Tail(todo), Parting)
    BY <1>1, <1>2, OccurrencesTail DEF Parting
  <2>4. Occurrences(Tail(todo), Parting) \in Nat
    BY <1>2, PlacesFinite
  <2> QED
    BY <1>1, <2>1, <2>2, <2>3, <2>4
<1>8. Live = 1 /\ Live' = 0
  BY <1>1, <1>2, <1>5, MentionsTail DEF Live, Closing
<1>9. Attempts' = Attempts /\ Attempts \in Nat
  BY CallsKeepAttempts, AttemptsAre
<1> QED
  BY <1>1, <1>5, <1>6, <1>7, <1>8, <1>9, PartingTyped DEF Balanced

LEMMA BalancedCallback ==
  ASSUME TypeOK, TypeOK', Balanced, ClosesWhatItHas, NEW cb \in Callbacks, Callback(cb)
  PROVE  Balanced'
<1>1. PICK script \in Overrides[cb] : todo' = script \o Tail(todo)
  BY DEF Callback
<1>2. script \in Seq(Frames) /\ script \in Seq(ApiCalls)
  BY OverridesAssumption, FrameNames, SeqMonotonic
<1>3. \A f \in Callbacks : ~ Mentions(script, f)
  <2>1. \A i \in DOMAIN script : script[i] \in ApiCalls
    BY <1>2, LenProperties, ElementOfSeq
  <2> QED
    BY <2>1 DEF Mentions, ApiCalls, Callbacks
<1>4. /\ Once(script, {"Disconnect"})
      /\ Mentions(script, "Disconnect") => cb \in {"OnConnect", "OnRead"}
  BY DEF ClosesWhatItHas
<1>5. /\ todo # << >> /\ Head(todo) = cb /\ UNCHANGED <<is_connected, connects>>
      /\ farewells' = IF cb = "OnDisconnect" THEN farewells + 1 ELSE farewells
  BY DEF Callback, Calling
<1>6. todo \in Seq(Frames) /\ Tail(todo) \in Seq(Frames)
  BY <1>5, HeadTailProperties DEF TypeOK
<1>7. ~ EventDue'
  BY <1>1, <1>2, <1>3, <1>5, EventMade DEF EventDue, Callbacks
<1>8. cb # "Disconnect"
  BY DEF Callbacks
<1>9. Closing <=> Mentions(Tail(todo), "Disconnect")
  BY <1>5, <1>6, <1>8, MentionsTail DEF Closing
<1>10. Closing' <=> Mentions(script, "Disconnect") \/ Closing
  BY <1>1, <1>2, <1>6, <1>9, MentionsConcat DEF Closing
<1>11. cb \in {"OnConnect", "OnRead"} => is_connected /\ ~ Closing
  <2> SUFFICES ASSUME cb \in {"OnConnect", "OnRead"}
               PROVE  is_connected /\ ~ Closing
    OBVIOUS
  <2>1. EventDue
    BY <1>5, <1>6, MentionsTail DEF EventDue
  <2>2. is_connected /\ (todo = <<"OnConnect">> \/ todo = <<"OnRead", "Rearm">>)
    BY <2>1 DEF Balanced
  <2>3. ~ Mentions(<<"OnConnect">>, "Disconnect")
        /\ ~ Mentions(<<"OnRead", "Rearm">>, "Disconnect")
    BY DEF Mentions
  <2> QED
    BY <2>2, <2>3 DEF Closing
<1>12. Once(todo', {"Disconnect"})
  <2>1. Once(Tail(todo), {"Disconnect"})
    BY <1>5, <1>6, OnceTail DEF Balanced
  <2>2. \/ \A f \in {"Disconnect"} : ~ Mentions(script, f)
        \/ \A f \in {"Disconnect"} : ~ Mentions(Tail(todo), f)
    BY <1>4, <1>9, <1>11
  <2> QED
    BY <1>1, <1>2, <1>4, <1>6, <2>1, <2>2, OnceConcat
<1>13. Live' = Live
  BY <1>4, <1>5, <1>10, <1>11 DEF Live
<1>14. farewells' + Occurrences(todo', Parting) = farewells + Occurrences(todo, Parting)
  <2>1. Occurrences(script, Parting) = 0
    <3>1. ~ Mentions(script, "OnDisconnect")
      BY <1>3 DEF Callbacks
    <3> QED
      BY <1>2, <3>1, NotMentioned DEF Parting
  <2>2. Occurrences(todo', Parting)
          = Occurrences(script, Parting) + Occurrences(Tail(todo), Parting)
    BY <1>1, <1>2, <1>6, OccurrencesConcat
  <2>3. Occurrences(todo, Parting)
          = (IF cb = "OnDisconnect" THEN 1 ELSE 0) + Occurrences(Tail(todo), Parting)
    <3>1. Occurrences(todo, Parting)
            = (IF Head(todo) \in Parting THEN 1 ELSE 0) + Occurrences(Tail(todo), Parting)
      BY <1>5, <1>6, OccurrencesTail
    <3> QED
      BY <1>5, <3>1 DEF Parting
  <2>4. Occurrences(Tail(todo), Parting) \in Nat /\ farewells \in Nat
    BY <1>6, PlacesFinite, PartingTyped
  <2> QED
    BY <1>5, <2>1, <2>2, <2>3, <2>4
<1>15. Attempts' = Attempts /\ Attempts \in Nat
  BY CallsKeepAttempts, AttemptsAre
<1>16. connects' = farewells' + Occurrences(todo', Parting) + Attempts' + Live'
  BY <1>5, <1>13, <1>14, <1>15 DEF Balanced
<1> QED
  BY <1>7, <1>12, <1>16 DEF Balanced

\* An attempt that ends in a handler leaves a connection to close, failed or not.
LEMMA BalancedHandlers ==
  ASSUME TypeOK, TypeOK', PatientInv, Balanced, Handlers
  PROVE  Balanced'
<1>0. /\ todo = << >> /\ queue # << >> /\ queue' = Tail(queue)
      /\ UNCHANGED <<connects, farewells>>
  BY DEF Handlers, ResolveHostHandler, OnConnect, OnRead, Dispatch, Dispatched, calls
<1>1. Attempts \in Nat
  BY AttemptsAre
<1>2. /\ \A f \in {"Disconnect", "OnDisconnect", "OnConnect", "OnRead"} : ~ Mentions(<< >>, f)
      /\ \A f \in {"Disconnect", "OnDisconnect", "OnConnect", "OnRead"} :
           ~ Mentions(<<"OnHostResolved", "SocketConnect">>, f)
      /\ \A f \in {"Disconnect", "OnDisconnect", "OnRead"} : ~ Mentions(<<"OnConnect">>, f)
      /\ \A f \in {"Disconnect", "OnDisconnect", "OnConnect"} :
           ~ Mentions(<<"OnRead", "Rearm">>, f)
      /\ \A f \in {"OnDisconnect", "OnConnect", "OnRead"} : ~ Mentions(ErrorHandler, f)
      /\ Mentions(ErrorHandler, "Disconnect") /\ Once(ErrorHandler, {"Disconnect"})
  BY DEF Mentions, ErrorHandler, Once
<1>3. /\ \A f \in {"OnDisconnect", "OnConnect", "OnRead"} :
           ~ Mentions(ErrorHandler \o <<"Rearm">>, f)
      /\ Mentions(ErrorHandler \o <<"Rearm">>, "Disconnect")
      /\ Once(ErrorHandler \o <<"Rearm">>, {"Disconnect"})
  <2>1. <<"Rearm">> \in Seq(Frames) /\ ErrorHandler \in Seq(Frames)
    BY FrameNames, HandlersTyped
  <2>2. \A f \in {"Disconnect", "OnDisconnect", "OnConnect", "OnRead"} :
          ~ Mentions(<<"Rearm">>, f)
    BY DEF Mentions
  <2>3. Once(<<"Rearm">>, {"Disconnect"}) /\ \A f \in {"Disconnect"} : ~ Mentions(<<"Rearm">>, f)
    BY <2>2 DEF Once
  <2>4. \A f : Mentions(ErrorHandler \o <<"Rearm">>, f)
                <=> Mentions(ErrorHandler, f) \/ Mentions(<<"Rearm">>, f)
    BY <2>1, MentionsConcat
  <2>5. Once(ErrorHandler, {"Disconnect"})
    BY <1>2
  <2>6. Once(ErrorHandler \o <<"Rearm">>, {"Disconnect"})
    BY <2>1, <2>3, <2>5, OnceConcat
  <2> QED
    BY <1>2, <2>2, <2>4, <2>6
<1>4. \A s : ~ Mentions(s, "Disconnect") => Once(s, {"Disconnect"})
  BY DEF Mentions, Once
<1>5. Live = IF is_connected THEN 1 ELSE 0
  BY <1>0, <1>2 DEF Live, Closing
<1>6. \A s \in Seq(Frames) : ~ Mentions(s, "OnDisconnect") => Occurrences(s, Parting) = 0
  BY NotMentioned DEF Parting
<1>7. todo' \in Seq(Frames) /\ todo \in Seq(Frames)
  BY DEF TypeOK
<1>8. Occurrences(todo, Parting) = 0
  BY <1>0, <1>2, <1>6, <1>7
<1>9. CASE ResolveHostHandler
  <2>1. /\ Head(queue).op = "resolve" /\ is_connected' = is_connected
        /\ todo' = ResolveCalls(Head(queue).ok)
    BY <1>9 DEF ResolveHostHandler, Dispatch
  <2>2. ~ is_connected
    <3>1. 1 \in DOMAIN queue /\ Head(queue) = queue[1]
      BY <1>0, EmptySeq, QueueElements DEF TypeOK
    <3> QED
      BY <2>1, <3>1 DEF PatientInv, ConnectedIsSettled, Connecting
  <2>3. CASE Head(queue).ok
    <3>1. todo' = <<"OnHostResolved", "SocketConnect">> /\ Attempts' = Attempts
      BY <1>9, <2>1, <2>3, HandlersEndAttempts DEF ResolveCalls
    <3>2. Once(todo', {"Disconnect"}) /\ ~ EventDue' /\ ~ Closing'
      BY <1>2, <1>4, <3>1 DEF EventDue, Closing
    <3>3. Occurrences(todo', Parting) = 0
      BY <1>2, <1>6, <1>7, <3>1
    <3>4. Live = 0 /\ Live' = 0
      BY <1>5, <2>1, <2>2, <3>2 DEF Live
    <3> QED
      BY <1>0, <1>8, <3>1, <3>2, <3>3, <3>4 DEF Balanced
  <2>4. CASE ~ Head(queue).ok
    <3>1. todo' = ErrorHandler /\ Attempts' = Attempts - 1
      BY <1>9, <2>1, <2>4, HandlersEndAttempts DEF ResolveCalls
    <3>2. Once(todo', {"Disconnect"}) /\ ~ EventDue' /\ Closing'
      BY <1>2, <3>1 DEF EventDue, Closing
    <3>3. Occurrences(todo', Parting) = 0
      BY <1>2, <1>6, <1>7, <3>1
    <3>4. Live = 0 /\ Live' = 1
      BY <1>5, <2>1, <2>2, <3>2 DEF Live
    <3> QED
      BY <1>0, <1>1, <1>8, <3>1, <3>2, <3>3, <3>4, PartingTyped DEF Balanced
  <2> QED
    BY <2>3, <2>4
<1>10. CASE OnConnect
  <2>1. /\ Head(queue).op = "connect" /\ is_connected' = TRUE
        /\ todo' = ConnectCalls(Head(queue).ok)
    BY <1>10 DEF OnConnect, Dispatch
  <2>2. ~ is_connected
    BY <1>0, <2>1, NewsHeard
  <2>3. todo' = <<"OnConnect">> \/ todo' = ErrorHandler
    BY <2>1 DEF ConnectCalls
  <2>4. Once(todo', {"Disconnect"})
    BY <1>2, <1>4, <2>3
  <2>5. EventDue' => todo' = <<"OnConnect">>
    BY <1>2, <2>3 DEF EventDue
  <2>6. Occurrences(todo', Parting) = 0
    BY <1>2, <1>6, <1>7, <2>3
  <2>7. Live = 0 /\ Live' = 1 /\ Attempts' = Attempts - 1
    BY <1>5, <1>10, <2>1, <2>2, HandlersEndAttempts DEF Live
  <2> QED
    BY <1>0, <1>1, <1>8, <2>1, <2>4, <2>5, <2>6, <2>7, PartingTyped DEF Balanced
<1>11. CASE OnRead
  <2>1. is_connected' = is_connected /\ Attempts' = Attempts
    BY <1>11, HandlersEndAttempts DEF OnRead
  <2>2. CASE ~ is_connected
    <3>1. todo' = todo
      BY <1>11, <2>2 DEF OnRead
    <3> QED
      BY <1>0, <2>1, <3>1 DEF Balanced, EventDue, Live, Closing
  <2>3. CASE is_connected
    <3>1. todo' = <<"OnRead", "Rearm">> \/ todo' = ErrorHandler \o <<"Rearm">>
      BY <1>11, <2>3 DEF OnRead, ReadCalls
    <3>2. Once(todo', {"Disconnect"})
      BY <1>2, <1>3, <1>4, <3>1
    <3>3. EventDue' => todo' = <<"OnRead", "Rearm">>
      BY <1>3, <3>1 DEF EventDue
    <3>4. Occurrences(todo', Parting) = 0
      BY <1>2, <1>3, <1>6, <1>7, <3>1
    <3>5. Live = 1 /\ Live' = 1
      BY <2>1, <2>3 DEF Live
    <3> QED
      BY <1>0, <1>8, <2>1, <2>3, <3>2, <3>3, <3>4, <3>5 DEF Balanced
  <2> QED
    BY <2>2, <2>3
<1> QED
  BY <1>9, <1>10, <1>11 DEF Handlers

LEMMA BalancedOthers ==
  ASSUME TypeOK, TypeOK', Balanced, ClosesWhatItHas,
         Reactor \/ Network \/ Resolved \/ OutsideCall \/ UNCHANGED vars
  PROVE  Balanced'
<1>1. Attempts' = Attempts
  BY OthersKeepAttempts
<1>2. CASE OutsideCall
  <2>1. PICK call \in Outside : todo' = <<call>>
    BY <1>2 DEF OutsideCall
  <2>2. todo = << >> /\ UNCHANGED <<is_connected, connects, farewells>>
    BY <1>2 DEF OutsideCall, calls
  <2>3. call \in {"Connect", "Write"}
    BY OutsideAssumption DEF ClosesWhatItHas, ClosesInCallbacks, ApiCalls
  <2>4. /\ \A f \in {"Disconnect", "OnDisconnect", "OnConnect", "OnRead"} : ~ Mentions(<<call>>, f)
        /\ \A f \in {"Disconnect", "OnDisconnect", "OnConnect", "OnRead"} : ~ Mentions(<< >>, f)
        /\ Once(<<call>>, {"Disconnect"})
    BY <2>3 DEF Mentions, Once
  <2>5. Occurrences(todo, Parting) = 0 /\ Occurrences(todo', Parting) = 0
    BY <2>1, <2>2, <2>4, NotMentioned DEF TypeOK, Parting
  <2>6. Live' = Live /\ ~ EventDue'
    BY <2>1, <2>2, <2>4 DEF Live, Closing, EventDue
  <2> QED
    BY <1>1, <2>1, <2>2, <2>4, <2>5, <2>6 DEF Balanced
<1>3. CASE UNCHANGED <<todo, is_connected, connects, farewells>>
  BY <1>1, <1>3 DEF Balanced, EventDue, Live, Closing
<1> QED
  BY <1>2, <1>3
  DEF Reactor, Network, Resolved, ReactorConnect, ReactorRead, ConnectionSettles, ChunkArrives,
      PeerCloses, vars, client, calls

-----------------------------------------------------------------------------
(* For a patient application that disconnects what it has, as those of the *)
(* repository do, each call of Connect is under way, is the connection     *)
(* there is, or has ended in one call of OnDisconnect: none is lost, and   *)
(* none is ended twice.                                                    *)
THEOREM ConnectsEndOnce == ClosesWhatItHas => (Spec => []EveryConnectEndsOnce)
<1> SUFFICES ASSUME ClosesWhatItHas
             PROVE  Spec => []EveryConnectEndsOnce
  OBVIOUS
<1>1. Init => OpenedForConnect
  BY DEF Init, OpenedForConnect
<1>2. OpenedForConnect /\ [Next]_vars => OpenedForConnect'
  BY OpenedStep
<1>3. Init /\ TypeOK => Balanced
  <2> SUFFICES ASSUME Init, TypeOK PROVE Balanced
    OBVIOUS
  <2>1. /\ todo = <<"Connect">> /\ queue = << >> /\ resolving = 0 /\ connect_op = FALSE
        /\ is_connected = FALSE /\ connects = 0 /\ farewells = 0
    BY DEF Init
  <2>2. /\ Once(<<"Connect">>, {"Disconnect"})
        /\ \A f \in {"Disconnect", "OnConnect", "OnRead"} : ~ Mentions(<<"Connect">>, f)
    BY DEF Once, Mentions
  <2>3. Occurrences(todo, Parting) = 0
    BY <2>1, OccurrencesOne DEF Parting
  <2>4. Attempts = 0
    <3>1. \A op : Count(op) = 0
      BY <2>1, FS_EmptySet DEF Count
    <3>2. {i \in DOMAIN todo : todo[i] = "SocketConnect"} = {}
      BY <2>1
    <3>3. Cardinality({i \in DOMAIN todo : todo[i] = "SocketConnect"}) = 0
      BY <3>2, FS_EmptySet
    <3>4. Count("resolve") = 0 /\ Count("connect") = 0
      BY <3>1
    <3> QED
      BY <2>1, <3>3, <3>4 DEF Attempts
  <2> QED
    BY <2>1, <2>2, <2>3, <2>4 DEF Balanced, EventDue, Live, Closing
<1>4. /\ TypeOK /\ TypeOK' /\ PatientInv /\ OpenedForConnect /\ Balanced /\ [Next]_vars
      => Balanced'
  <2> SUFFICES ASSUME TypeOK, TypeOK', PatientInv, OpenedForConnect, Balanced, [Next]_vars
               PROVE  Balanced'
    OBVIOUS
  <2> QED
    BY BalancedCalls, BalancedWrite, BalancedDisconnect, BalancedCallback, BalancedHandlers,
       BalancedOthers
    DEF Next, Calls
<1>5. TypeOK /\ Balanced => EveryConnectEndsOnce
  <2> SUFFICES ASSUME TypeOK, Balanced, todo = << >>
               PROVE  connects = farewells + Attempts + (IF is_connected THEN 1 ELSE 0)
    BY DEF EveryConnectEndsOnce
  <2>1. ~ Mentions(<< >>, "Disconnect") /\ ~ Mentions(<< >>, "OnDisconnect")
    BY DEF Mentions
  <2>2. Occurrences(todo, Parting) = 0
    BY <2>1, NotMentioned DEF TypeOK, Parting
  <2>3. Live = IF is_connected THEN 1 ELSE 0
    BY <2>1 DEF Live, Closing
  <2> QED
    BY <2>2, <2>3, PartingTyped DEF Balanced
<1>6. Patient
  BY DEF ClosesWhatItHas, ClosesInCallbacks
<1> QED
  BY <1>1, <1>2, <1>3, <1>4, <1>5, <1>6, TypeCorrect, PatientInvariant, PTL DEF Spec
=============================================================================
