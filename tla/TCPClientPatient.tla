-------------------------- MODULE TCPClientPatient --------------------------
(* PatientInv is inductive for a patient application: one lemma per kind   *)
(* of step, then the theorems about the client's reads.                    *)
EXTENDS TCPClientProofs

\* Everything the invariant speaks of besides todo.
Rest == <<is_connected, buffer, queue, resolving, connect_op, pending, sock, taken,
          conn, writes, delivered>>

\* Calls, callbacks and arrivals that leave the counted frames and the rest alone.
LEMMA QuietStep ==
  ASSUME PatientInv, NoMoreDue(todo, todo'), UNCHANGED Rest
  PROVE  PatientInv'
<1> USE DEF PatientInv, Rest, NoMoreDue, Counted, AttemptAt, NewsAt, ReadAt,
            AliveAt, DeadAt, ReadDue
<1>1. OneAttempt'
  BY DEF OneAttempt
<1>2. ConnectedIsSettled'
  BY DEF ConnectedIsSettled, Connecting
<1>3. SocketHeld'
  BY DEF SocketHeld
<1>4. DeadReadsDrop'
  BY DEF DeadReadsDrop
<1>5. SoleReader'
  BY DEF SoleReader
<1>6. BufferKept'
  BY DEF BufferKept, DeliveredInOrder
<1> QED
  BY <1>1, <1>2, <1>3, <1>4, <1>5, <1>6

LEMMA QueueElements ==
  ASSUME TypeOK
  PROVE  /\ Len(queue) \in Nat
         /\ DOMAIN queue = 1..Len(queue)
         /\ \A i \in DOMAIN queue : queue[i] \in Completions
BY LenProperties, ElementOfSeq DEF TypeOK

LEMMA ConnectStep ==
  ASSUME TypeOK, PatientInv, Patient, Connect
  PROVE  PatientInv'
<1>0. << >> \in Seq(Frames) /\ "Connect" \notin Counted /\ Quiet(<< >>)
  BY QuietScripts DEF Counted
<1>1. NoMoreDue(todo, todo')
  BY <1>0, PushQuiet DEF TypeOK, Connect, Calling, Return
<1> USE <1>1 DEF PatientInv, NoMoreDue, Counted, AttemptAt, NewsAt, ReadAt, AliveAt,
                 DeadAt, ReadDue, Connect, MayConnect, reactor, kernel, session
<1>2. OneAttempt'
  BY DEF OneAttempt, Connecting, TypeOK
<1>3. ConnectedIsSettled'
  BY DEF ConnectedIsSettled, Connecting
<1>4. SocketHeld'
  BY DEF SocketHeld
<1>5. DeadReadsDrop'
  BY DEF DeadReadsDrop
<1>6. SoleReader'
  BY DEF SoleReader
<1>7. BufferKept'
  BY DEF BufferKept, DeliveredInOrder
<1> QED
  BY <1>2, <1>3, <1>4, <1>5, <1>6, <1>7

\* A patient application's TCPSocket::Connect finds the socket closed and nothing
\* of an earlier connection but dead reads.
LEMMA SocketConnectStep ==
  ASSUME TypeOK, PatientInv, SocketConnect
  PROVE  PatientInv'
<1>1. Mentions(todo, "SocketConnect")
  BY MentionsTail DEF TypeOK, SocketConnect, Calling
<1>2. /\ ~ Mentions(todo', "SocketConnect")
      /\ Once(todo', {"SocketConnect"})
  BY OnceTail DEF TypeOK, SocketConnect, Calling, Return, PatientInv, OneAttempt
<1>3. sock = "closed" /\ ~ is_connected /\ ~ connect_op
  BY <1>1 DEF PatientInv, OneAttempt, ConnectedIsSettled, SocketHeld, Connecting,
              AttemptAt, NewsAt
<1>4. /\ resolving = 0
      /\ \A i \in DOMAIN queue : ~ AttemptAt(i)
  BY <1>1 DEF PatientInv, OneAttempt, TypeOK
<1>5. ~ ReadDue
  BY <1>1 DEF PatientInv, DeadReadsDrop
<1>6. ~ ReadDue'
  BY <1>5, MentionsTail DEF TypeOK, SocketConnect, Calling, Return, ReadDue
<1>7. pending = 0
  BY <1>3 DEF PatientInv, SocketHeld, TypeOK
<1>8. /\ queue' = queue
      /\ is_connected' = is_connected
      /\ resolving' = resolving
      /\ pending' = pending
      /\ sock' = "connecting"
      /\ connect_op'
      /\ conn' = conn + 1
      /\ taken' = 0
      /\ writes' = 0
      /\ delivered' = << >>
  BY <1>3 DEF SocketConnect
<1>9. \A i \in DOMAIN queue : /\ queue[i].conn <= conn'
                              /\ queue[i].conn # conn'
  <2>1. \A i \in DOMAIN queue : queue[i].conn <= conn /\ queue[i].conn \in Nat
    BY QueueElements DEF PatientInv, SocketHeld, Completions
  <2> QED
    BY <1>8, <2>1 DEF TypeOK
<1>10. \A i \in DOMAIN queue : ~ NewsAt(i)' /\ ~ AliveAt(i)' /\ ~ AttemptAt(i)'
  BY <1>4, <1>8, <1>9 DEF NewsAt, AliveAt, ReadAt, AttemptAt
<1>11. OneAttempt'
  BY <1>2, <1>4, <1>8, <1>10 DEF OneAttempt
<1>12. ConnectedIsSettled'
  BY <1>3, <1>8 DEF ConnectedIsSettled
<1>13. SocketHeld'
  BY <1>7, <1>8, <1>9, <1>10 DEF SocketHeld
<1>14. DeadReadsDrop'
  BY <1>3, <1>6, <1>8, <1>10 DEF DeadReadsDrop
<1>15. Once(todo', {"Read", "Rearm"})
  BY <1>6 DEF ReadDue, Mentions, Once
<1>16. SoleReader'
  BY <1>6, <1>7, <1>8, <1>10, <1>15 DEF SoleReader
<1>17. BufferKept'
  <2>1. Len(delivered') = 0 /\ DOMAIN delivered' = {}
    BY <1>8
  <2> QED
    BY <1>8, <1>10, <2>1 DEF BufferKept, DeliveredInOrder
<1> QED
  BY <1>11, <1>12, <1>13, <1>14, <1>16, <1>17 DEF PatientInv
\* Disconnect leaves dead reads, at most one failed connect, and behind all of them.
LEMMA DisconnectStep ==
  ASSUME TypeOK, PatientInv, Disconnect
  PROVE  PatientInv'
<1>0. "Disconnect" \notin Counted /\ Quiet(<<"OnDisconnect">>)
  BY QuietScripts DEF Counted
<1>1. NoMoreDue(todo, todo')
  BY <1>0, PushQuiet, HandlersTyped DEF TypeOK, Disconnect, Calling
<1>2. /\ ~ is_connected'
      /\ sock' = "closed"
      /\ ~ connect_op'
      /\ pending' = 0
      /\ queue' = queue \o Aborted
      /\ resolving' = resolving
      /\ taken' = taken
      /\ conn' = conn
      /\ writes' = writes
      /\ delivered' = delivered
  BY DEF Disconnect, Close, session
<1>3. /\ DOMAIN queue \subseteq DOMAIN queue'
      /\ \A i \in DOMAIN queue : queue'[i] = queue[i] /\ i <= Len(queue) /\ i \in Nat
      /\ Len(queue) \in Nat
      /\ DOMAIN queue' \subseteq Nat
  BY <1>2, QueueAborted
<1>4. \A i \in DOMAIN queue' \ DOMAIN queue :
        /\ i > Len(queue)
        /\ queue'[i].op \in {"read", "connect"}
        /\ queue'[i].op = "read" => pending > 0
        /\ queue'[i].op = "connect" => connect_op /\ i = Len(queue) + pending + 1
        /\ queue'[i].conn <= conn
  <2>1. 0 <= conn /\ conn <= conn
    BY DEF TypeOK
  <2> QED
    BY <1>2, <2>1, QueueAborted
<1>5. \A f \in Counted : Mentions(todo', f) => Mentions(todo, f)
  BY <1>1 DEF NoMoreDue
<1>6. \A i \in DOMAIN queue' : NewsAt(i)' => IF i \in DOMAIN queue THEN NewsAt(i)
                                               ELSE connect_op /\ i = Len(queue) + pending + 1
  BY <1>3, <1>4 DEF NewsAt
<1>7. \A i \in DOMAIN queue' : AttemptAt(i)' => IF i \in DOMAIN queue THEN AttemptAt(i)
                                               ELSE connect_op /\ i = Len(queue) + pending + 1
  BY <1>3, <1>4 DEF AttemptAt
<1>8. \A i \in DOMAIN queue' : ~ AliveAt(i)'
  BY <1>2 DEF AliveAt
<1>9. \A i \in DOMAIN queue' : DeadAt(i)' => (i \in DOMAIN queue /\ ReadAt(i)) \/ pending > 0
  BY <1>3, <1>4 DEF DeadAt, ReadAt
<1>10. \A i \in DOMAIN queue : connect_op => ~ AttemptAt(i) /\ ~ NewsAt(i)
  BY DEF PatientInv, OneAttempt, AttemptAt, NewsAt
<1>11. OneAttempt'
  <2>1. resolving > 0 => \A i \in DOMAIN queue' : ~ AttemptAt(i)'
    BY <1>7 DEF PatientInv, OneAttempt
  <2>2. Mentions(todo, "SocketConnect") => \A i \in DOMAIN queue' : ~ AttemptAt(i)'
    BY <1>7 DEF PatientInv, OneAttempt
  <2>3. \A i, j \in DOMAIN queue' : AttemptAt(i)' /\ AttemptAt(j)' => i = j
    <3>1. CASE connect_op
      BY <3>1, <1>7, <1>10
    <3>2. CASE ~ connect_op
      BY <3>2, <1>7 DEF PatientInv, OneAttempt
    <3> QED
      BY <3>1, <3>2
  <2>4. Mentions(todo', "SocketConnect") => Mentions(todo, "SocketConnect")
    BY <1>5 DEF Counted
  <2>5. Once(todo', {"SocketConnect"})
    BY <1>1 DEF PatientInv, OneAttempt, NoMoreDue
  <2> QED
    BY <1>2, <2>1, <2>2, <2>3, <2>4, <2>5 DEF PatientInv, OneAttempt
<1>12. ConnectedIsSettled'
  BY <1>2 DEF ConnectedIsSettled
<1>13. SocketHeld'
  <2>1. \A i \in DOMAIN queue' : queue'[i].conn <= conn
    BY <1>3, <1>4 DEF PatientInv, SocketHeld
  <2> QED
    BY <1>2, <1>8, <2>1 DEF SocketHeld
<1>14. DeadReadsDrop'
  <2>1. ASSUME NEW i \in DOMAIN queue', NEW j \in DOMAIN queue', DeadAt(i)', NewsAt(j)'
        PROVE  i < j
    <3>1. CASE i \in DOMAIN queue /\ j \in DOMAIN queue
      <4>1. ReadAt(i) /\ NewsAt(j) /\ ~ is_connected
        BY <3>1, <1>3, <2>1 DEF ReadAt, DeadAt, NewsAt, PatientInv, ConnectedIsSettled, Connecting
      <4>2. DeadAt(i)
        BY <3>1, <4>1 DEF PatientInv, SocketHeld, AliveAt, DeadAt
      <4> QED
        BY <3>1, <4>1, <4>2 DEF PatientInv, DeadReadsDrop
    <3>2. CASE i \in DOMAIN queue /\ j \notin DOMAIN queue
      BY <3>2, <1>3, <1>4
    <3>3. CASE i \notin DOMAIN queue
      <4>1. pending > 0 /\ is_connected
        BY <3>3, <1>9, <2>1 DEF PatientInv, SocketHeld
      <4>2. ~ connect_op /\ ~ \E k \in DOMAIN queue : NewsAt(k)
        BY <4>1 DEF PatientInv, ConnectedIsSettled, Connecting, NewsAt
      <4> QED
        BY <1>6, <2>1, <4>2
    <3> QED
      BY <3>1, <3>2, <3>3
  <2>2. ReadDue' => ReadDue
    BY <1>5 DEF ReadDue, Counted
  <2>3. ReadDue' => \A i \in DOMAIN queue' : ~ NewsAt(i)'
    BY <2>2, <1>6 DEF PatientInv, DeadReadsDrop
  <2>4. ReadDue' => ~ Mentions(todo', "SocketConnect")
    BY <2>2, <1>5 DEF PatientInv, DeadReadsDrop, Counted
  <2> QED
    BY <1>2, <2>1, <2>3, <2>4 DEF DeadReadsDrop
<1>15. SoleReader'
  BY <1>2 DEF SoleReader
<1>16. BufferKept'
  BY <1>2 DEF PatientInv, BufferKept, DeliveredInOrder
<1> QED
  BY <1>11, <1>12, <1>13, <1>14, <1>15, <1>16 DEF PatientInv

LEMMA PushRead ==
  ASSUME NEW s \in Seq(Frames), s # << >>, Head(s) \notin Counted
  PROVE  LET t == <<"Read">> \o Tail(s)
         IN  /\ Mentions(t, "SocketConnect") => Mentions(s, "SocketConnect")
             /\ Once(s, {"SocketConnect"}) => Once(t, {"SocketConnect"})
             /\ ~ Mentions(s, "Read") /\ ~ Mentions(s, "Rearm")
                  => Once(t, {"Read", "Rearm"})
<1> DEFINE r == <<"Read">>
<1>1. r \in Seq(Frames) /\ Tail(s) \in Seq(Frames)
  BY HandlersTyped, HeadTailProperties
<1>2. /\ ~ Mentions(r, "SocketConnect")
      /\ Once(r, {"SocketConnect"})
      /\ Once(r, {"Read", "Rearm"})
  BY DEF Mentions, Once
<1>3. \A f : Mentions(Tail(s), f) => Mentions(s, f)
  BY MentionsTail
<1> HIDE DEF r
<1>4. Mentions(r \o Tail(s), "SocketConnect") => Mentions(s, "SocketConnect")
  BY <1>1, <1>2, <1>3, MentionsConcat
<1>5. Once(s, {"SocketConnect"}) => Once(r \o Tail(s), {"SocketConnect"})
  BY <1>1, <1>2, OnceTail, OnceConcat
<1>6. ~ Mentions(s, "Read") /\ ~ Mentions(s, "Rearm") => Once(r \o Tail(s), {"Read", "Rearm"})
  <2> SUFFICES ASSUME ~ Mentions(s, "Read"), ~ Mentions(s, "Rearm")
               PROVE  Once(r \o Tail(s), {"Read", "Rearm"})
    OBVIOUS
  <2>1. \A f \in {"Read", "Rearm"} : ~ Mentions(Tail(s), f)
    BY <1>3
  <2>2. Once(Tail(s), {"Read", "Rearm"})
    BY <2>1 DEF Mentions, Once
  <2> QED
    BY <1>1, <1>2, <2>1, <2>2, OnceConcat
<1> QED
  BY <1>4, <1>5, <1>6 DEF r

\* A Write that passes its guards starts a read: there was none before the first.
LEMMA WriteStep ==
  ASSUME TypeOK, PatientInv, Write
  PROVE  PatientInv'
<1>0. /\ << >> \in Seq(Frames)
      /\ Quiet(<< >>)
      /\ "Write" \notin Counted
      /\ todo # << >>
      /\ Head(todo) = "Write"
      /\ todo \in Seq(Frames)
  BY QuietScripts DEF Counted, Write, Calling, TypeOK
<1>1. CASE ~ is_connected \/ thrown' # thrown
  <2>1. UNCHANGED Rest
    BY <1>1 DEF Write, Rest, reactor, kernel
  <2>2. todo' = todo \/ todo' = Tail(todo)
    BY <1>1 DEF Write, Return
  <2>3. NoMoreDue(todo, todo')
    BY <1>0, <2>2, PushQuiet DEF NoMoreDue
  <2> QED
    BY <2>1, <2>3, QuietStep
<1>2. CASE is_connected /\ thrown' = thrown
  <2>1. /\ sock = "established"
        /\ todo' = <<"Read">> \o Tail(todo)
        /\ writes' = writes + 1
        /\ UNCHANGED <<is_connected, buffer, queue, resolving, connect_op, pending,
                       sock, taken, conn, delivered>>
    BY <1>2 DEF Write, Calling, Return, reactor, kernel
  <2>2. /\ Mentions(todo', "SocketConnect") => Mentions(todo, "SocketConnect")
        /\ Once(todo, {"SocketConnect"}) => Once(todo', {"SocketConnect"})
        /\ ~ ReadDue => Once(todo', {"Read", "Rearm"})
    BY <1>0, <2>1, PushRead DEF ReadDue
  <2>3. /\ resolving = 0 /\ ~ connect_op
        /\ ~ Mentions(todo, "SocketConnect")
        /\ \A i \in DOMAIN queue : ~ AttemptAt(i) /\ ~ NewsAt(i)
    BY <1>2 DEF PatientInv, ConnectedIsSettled, Connecting, AttemptAt, NewsAt, TypeOK
  <2> USE DEF PatientInv, AttemptAt, NewsAt, ReadAt, AliveAt, DeadAt
  <2>4. OneAttempt'
    BY <2>1, <2>2, <2>3 DEF OneAttempt
  <2>5. ConnectedIsSettled'
    BY <2>1, <2>2, <2>3 DEF ConnectedIsSettled, Connecting
  <2>6. SocketHeld'
    BY <2>1 DEF SocketHeld
  <2>7. DeadReadsDrop'
    BY <1>2, <2>1, <2>2, <2>3 DEF DeadReadsDrop
  <2>8. SoleReader'
    <3>1. writes' # 0 /\ (writes' <= 1 => writes = 0)
      BY <2>1 DEF TypeOK
    <3>2. writes = 0 => /\ pending = 0
                        /\ Once(todo', {"Read", "Rearm"})
                        /\ \A i \in DOMAIN queue : ~ AliveAt(i)
      BY <2>1, <2>2 DEF SoleReader
    <3> QED
      BY <2>1, <3>1, <3>2 DEF SoleReader
  <2>9. BufferKept'
    <3>1. writes' <= 1 => writes <= 1
      BY <2>1 DEF TypeOK
    <3> QED
      BY <2>1, <3>1 DEF BufferKept, DeliveredInOrder
  <2> QED
    BY <2>4, <2>5, <2>6, <2>7, <2>8, <2>9
<1> QED
  BY <1>1, <1>2

\* A handler that starts a read: it gives up its only claim to one.
LEMMA StartReadStep ==
  ASSUME TypeOK, PatientInv, StartRead,
         todo # << >>, Head(todo) \in {"Read", "Rearm"}, todo' = Tail(todo),
         UNCHANGED <<is_connected, resolving, connect_op, sock, conn, writes, delivered>>
  PROVE  PatientInv'
<1>0. todo \in Seq(Frames)
  BY DEF TypeOK
<1>1. ReadDue
  BY <1>0, MentionsTail DEF ReadDue
<1>2. /\ \A f : Mentions(todo', f) => Mentions(todo, f)
      /\ \A F : Once(todo, F) => Once(todo', F)
      /\ Once(todo, {"Read", "Rearm"}) => ~ ReadDue'
  BY <1>0, MentionsTail, OnceTail DEF ReadDue
<1>3. /\ ~ connect_op
      /\ ~ Mentions(todo, "SocketConnect")
      /\ \A i \in DOMAIN queue : ~ NewsAt(i)
      /\ sock = "closed" => ~ is_connected
      /\ sock # "closed" => is_connected
  BY <1>1 DEF PatientInv, DeadReadsDrop, SocketHeld
<1> DEFINE waits == /\ pending' = pending + 1
                    /\ sock # "closed"
                    /\ UNCHANGED <<queue, buffer, taken>>
           posts(ok) == /\ queue' = Append(queue, Completion("read", ok))
                        /\ pending' = pending
                        /\ sock = "closed" => ~ ok
                        /\ IF ok THEN buffer' = <<conn, taken + 1>> /\ taken' = taken + 1
                                 ELSE UNCHANGED <<buffer, taken>>
<1>4. waits \/ posts(TRUE) \/ posts(FALSE)
  BY DEF StartRead, Receive, Readable
<1>5. writes <= 1 /\ sock # "closed" =>
        /\ writes # 0
        /\ pending = 0
        /\ Len(delivered) = taken
        /\ ~ ReadDue'
        /\ Once(todo', {"Read", "Rearm"})
        /\ \A i \in DOMAIN queue : ~ AliveAt(i)
  BY <1>1, <1>2 DEF PatientInv, SoleReader, BufferKept, TypeOK
<1>6. CASE waits
  <2> USE <1>6 DEF PatientInv, AttemptAt, NewsAt, ReadAt, AliveAt, DeadAt
  <2>1. OneAttempt'
    BY <1>2 DEF OneAttempt
  <2>2. ConnectedIsSettled'
    BY <1>2 DEF ConnectedIsSettled, Connecting
  <2>3. SocketHeld'
    BY <1>3 DEF SocketHeld
  <2>4. DeadReadsDrop'
    BY <1>2, <1>3 DEF DeadReadsDrop, ReadDue
  <2>5. SoleReader'
    BY <1>5 DEF SoleReader, TypeOK
  <2>6. BufferKept'
    BY DEF BufferKept, DeliveredInOrder
  <2> QED
    BY <2>1, <2>2, <2>3, <2>4, <2>5, <2>6
<1>7. ASSUME NEW ok \in BOOLEAN, posts(ok)
      PROVE  PatientInv'
  <2> DEFINE n == Len(queue) + 1
             c == Completion("read", ok)
  <2>1. /\ c.op = "read"
        /\ c.ok = ok
        /\ c.conn = IF sock = "closed" THEN 0 ELSE conn
        /\ c \in Completions
    BY CompletionTyped DEF Completion
  <2>2. /\ Len(queue) \in Nat
        /\ DOMAIN queue = 1..Len(queue)
        /\ DOMAIN queue' = 1..n
        /\ \A i \in DOMAIN queue : queue'[i] = queue[i]
        /\ queue'[n] = c
    BY <1>7, <2>1, QueueAppended
  <2>3. /\ n \in DOMAIN queue'
        /\ \A i \in DOMAIN queue' : i \in DOMAIN queue \/ i = n
        /\ DOMAIN queue \subseteq DOMAIN queue'
    BY <2>2
  <2>4. \A i \in DOMAIN queue' :
          /\ NewsAt(i)' => i \in DOMAIN queue /\ NewsAt(i)
          /\ AttemptAt(i)' => i \in DOMAIN queue /\ AttemptAt(i)
          /\ AliveAt(i)' => i = n \/ (i \in DOMAIN queue /\ AliveAt(i))
          /\ DeadAt(i)' => (i = n /\ sock = "closed") \/ (i \in DOMAIN queue /\ DeadAt(i))
    BY <2>1, <2>2, <2>3 DEF NewsAt, AttemptAt, AliveAt, DeadAt, ReadAt
  <2>5. \A i \in DOMAIN queue' : i = n /\ sock # "closed" => AliveAt(i)'
    BY <2>1, <2>2 DEF AliveAt, ReadAt
  <2> HIDE DEF n, c
  <2> USE <1>7
  <2>6. OneAttempt'
    BY <1>2, <2>4 DEF PatientInv, OneAttempt
  <2>7. ConnectedIsSettled'
    BY <1>2, <2>4 DEF PatientInv, ConnectedIsSettled, Connecting, AttemptAt
  <2>8. SocketHeld'
    <3>1. \A i \in DOMAIN queue' : queue'[i].conn <= conn
      <4>1. c.conn <= conn
        BY <2>1 DEF TypeOK
      <4> QED
        BY <2>2, <2>3, <4>1 DEF PatientInv, SocketHeld
    <3> QED
      BY <1>3, <3>1, <2>4 DEF PatientInv, SocketHeld, AliveAt
  <2>9. DeadReadsDrop'
    BY <1>2, <1>3, <2>4 DEF PatientInv, DeadReadsDrop, ReadDue
  <2>10. SoleReader'
    <3>1. pending' = pending /\ writes' = writes /\ sock' = sock
      OBVIOUS
    <3>2. CASE sock = "closed" \/ writes > 1
      BY <3>1, <3>2 DEF SoleReader, TypeOK
    <3>3. CASE sock # "closed" /\ writes <= 1
      <4>1. \A i \in DOMAIN queue' : AliveAt(i)' => i = n
        BY <1>5, <2>4, <3>3
      <4>2. pending' = 0 /\ pending' <= 1 /\ pending' # 1 /\ writes' # 0
        BY <1>5, <3>1, <3>3
      <4> QED
        BY <1>5, <3>3, <4>1, <4>2 DEF SoleReader
    <3> QED
      BY <3>2, <3>3 DEF TypeOK
  <2>11. BufferKept'
    <3>1. CASE sock = "closed" \/ writes > 1
      BY <3>1 DEF PatientInv, BufferKept, DeliveredInOrder, TypeOK
    <3>2. CASE sock # "closed" /\ writes <= 1
      <4>1. Len(delivered) = taken /\ \A i \in DOMAIN queue : ~ AliveAt(i)
        BY <1>5, <3>2
      <4>2. DeliveredInOrder'
        BY <3>2 DEF PatientInv, BufferKept, DeliveredInOrder
      <4>3. \A i \in DOMAIN queue' : AliveAt(i)' => queue'[i].ok = ok
        BY <2>1, <2>2, <2>4, <4>1
      <4>4. CASE ok
        <5>1. /\ buffer' = <<conn', taken'>>
              /\ taken' = Len(delivered') + 1
          BY <4>1, <4>4
        <5>2. n \in DOMAIN queue' /\ queue'[n].ok
          BY <2>1, <2>2, <2>3, <4>4
        <5>3. \E i \in DOMAIN queue' : AliveAt(i)' /\ queue'[i].ok
          BY <2>5, <3>2, <5>2
        <5> QED
          BY <4>2, <5>1, <5>3 DEF BufferKept
      <4>5. CASE ~ ok
        BY <4>1, <4>2, <4>3, <4>5 DEF BufferKept
      <4> QED
        BY <4>4, <4>5
    <3> QED
      BY <3>1, <3>2 DEF TypeOK
  <2> QED
    BY <2>6, <2>7, <2>8, <2>9, <2>10, <2>11 DEF PatientInv
<1> QED
  BY <1>4, <1>6, <1>7

\* What the completion handlers find: the head of the queue, the others moving up.
LEMMA DispatchMoves ==
  ASSUME TypeOK, queue # << >>, queue' = Tail(queue), UNCHANGED <<sock, conn>>
  PROVE  /\ 1 \in DOMAIN queue
         /\ Head(queue) = queue[1]
         /\ \A i \in DOMAIN queue' :
              /\ i \in Nat
              /\ i + 1 \in DOMAIN queue
              /\ i + 1 # 1
              /\ queue'[i] = queue[i + 1]
              /\ AttemptAt(i)' <=> AttemptAt(i + 1)
              /\ NewsAt(i)' <=> NewsAt(i + 1)
              /\ AliveAt(i)' <=> AliveAt(i + 1)
              /\ DeadAt(i)' <=> DeadAt(i + 1)
         /\ \A i \in DOMAIN queue : i # 1 => /\ i - 1 \in DOMAIN queue'
                                             /\ queue'[i - 1] = queue[i]
                                             /\ AliveAt(i) => AliveAt(i - 1)'
                                             /\ NewsAt(i) => NewsAt(i - 1)'
<1>1. /\ Len(queue) \in Nat \ {0}
      /\ DOMAIN queue = 1..Len(queue)
      /\ DOMAIN queue' = 1..(Len(queue) - 1)
      /\ \A i \in DOMAIN queue' : queue'[i] = queue[i + 1]
      /\ Head(queue) = queue[1]
  BY QueueDispatched
<1>2. \A i \in DOMAIN queue' : i \in Nat /\ i + 1 \in DOMAIN queue /\ i + 1 # 1
  BY <1>1
<1>3. \A i \in DOMAIN queue : i # 1 => /\ i - 1 \in DOMAIN queue'
                                       /\ queue'[i - 1] = queue[i]
  BY <1>1
<1> QED
  BY <1>1, <1>2, <1>3 DEF AttemptAt, NewsAt, AliveAt, DeadAt, ReadAt

LEMMA ResolveHostHandlerStep ==
  ASSUME TypeOK, PatientInv, ResolveHostHandler
  PROVE  PatientInv'
<1>1. /\ todo = << >>
      /\ queue # << >>
      /\ queue' = Tail(queue)
      /\ Head(queue).op = "resolve"
      /\ UNCHANGED <<is_connected, buffer, resolving, connect_op, pending, sock,
                     taken, conn, writes, delivered>>
  BY DEF ResolveHostHandler, ResolveCalls, Dispatch, Dispatched, reactor, kernel, session
<1>2. /\ ~ ReadDue'
      /\ Once(todo', {"SocketConnect"})
      /\ Once(todo', {"Read", "Rearm"})
  <2>1. CASE todo' = <<"OnHostResolved", "SocketConnect">>
    BY <2>1, OneDue DEF ReadDue
  <2>2. CASE todo' = ErrorHandler
    BY <2>2, QuietScripts, QuietOnce DEF ReadDue, Quiet, Counted
  <2> QED
    BY <2>1, <2>2 DEF ResolveHostHandler, ResolveCalls
<1> USE DispatchMoves, <1>1
<1>3. AttemptAt(1) /\ ~ NewsAt(1) /\ ~ AliveAt(1)
  BY DEF AttemptAt, NewsAt, AliveAt, ReadAt
<1>4. \A i \in DOMAIN queue : AttemptAt(i) => i = 1
  BY <1>3 DEF PatientInv, OneAttempt
<1>5. \A i \in DOMAIN queue' : ~ AttemptAt(i)' /\ ~ NewsAt(i)'
  BY <1>4 DEF AttemptAt, NewsAt
<1>6. ~ is_connected /\ resolving = 0 /\ ~ connect_op
  BY <1>3 DEF PatientInv, OneAttempt, ConnectedIsSettled, Connecting, AttemptAt, TypeOK
<1>7. sock = "closed"
  BY <1>4, <1>6, <1>3 DEF PatientInv, SocketHeld, NewsAt, AttemptAt
<1>8. OneAttempt'
  BY <1>2, <1>5, <1>6 DEF OneAttempt
<1>9. ConnectedIsSettled'
  BY <1>6 DEF ConnectedIsSettled
<1>10. SocketHeld'
  BY <1>6, <1>7 DEF PatientInv, SocketHeld
<1>11. DeadReadsDrop'
  BY <1>2, <1>5, <1>6 DEF DeadReadsDrop
<1>12. SoleReader'
  BY <1>7 DEF SoleReader
<1>13. BufferKept'
  BY <1>7 DEF PatientInv, BufferKept, DeliveredInOrder
<1> QED
  BY <1>8, <1>9, <1>10, <1>11, <1>12, <1>13 DEF PatientInv

\* When the news of a connection is dispatched, every dead read has been.
LEMMA OnConnectStep ==
  ASSUME TypeOK, PatientInv, OnConnect
  PROVE  PatientInv'
<1>1. /\ todo = << >>
      /\ queue # << >>
      /\ queue' = Tail(queue)
      /\ Head(queue).op = "connect"
      /\ is_connected'
      /\ UNCHANGED <<buffer, resolving, connect_op, pending, sock, taken, conn,
                     writes, delivered>>
  BY DEF OnConnect, ConnectCalls, Dispatch, Dispatched, reactor, kernel, session
<1>2. /\ ~ ReadDue'
      /\ ~ Mentions(todo', "SocketConnect")
      /\ Once(todo', {"SocketConnect"})
      /\ Once(todo', {"Read", "Rearm"})
  BY QuietScripts, QuietOnce DEF OnConnect, ConnectCalls, ReadDue, Quiet, Counted
<1> USE DispatchMoves, <1>1
<1>3. AttemptAt(1) /\ NewsAt(1) /\ ~ AliveAt(1) /\ ~ DeadAt(1)
  BY DEF AttemptAt, NewsAt, AliveAt, DeadAt, ReadAt
<1>4. \A i \in DOMAIN queue : AttemptAt(i) => i = 1
  BY <1>3 DEF PatientInv, OneAttempt
<1>5. \A i \in DOMAIN queue' : ~ AttemptAt(i)' /\ ~ NewsAt(i)'
  BY <1>4 DEF AttemptAt, NewsAt
<1>6. ~ is_connected /\ resolving = 0 /\ ~ connect_op
  BY <1>3 DEF PatientInv, OneAttempt, ConnectedIsSettled, Connecting, AttemptAt, TypeOK
<1>7. \A i \in DOMAIN queue' : ~ DeadAt(i)'
  BY <1>3 DEF PatientInv, DeadReadsDrop
<1>8. OneAttempt'
  BY <1>2, <1>5, <1>6 DEF OneAttempt
<1>9. ConnectedIsSettled'
  BY <1>2, <1>5, <1>6 DEF ConnectedIsSettled, Connecting, AttemptAt
<1>10. SocketHeld'
  BY <1>6 DEF PatientInv, SocketHeld
<1>11. DeadReadsDrop'
  BY <1>2, <1>7 DEF DeadReadsDrop
<1>12. SoleReader'
  BY <1>2 DEF PatientInv, SoleReader
<1>13. BufferKept'
  BY <1>3 DEF PatientInv, BufferKept, DeliveredInOrder
<1> QED
  BY <1>8, <1>9, <1>10, <1>11, <1>12, <1>13 DEF PatientInv

\* A read that passes the is_connected_ test is alive, and the only one if the
\* application has written once.
LEMMA OnReadStep ==
  ASSUME TypeOK, PatientInv, OnRead
  PROVE  PatientInv'
<1>1. /\ todo = << >>
      /\ queue # << >>
      /\ queue' = Tail(queue)
      /\ Head(queue).op = "read"
      /\ UNCHANGED <<is_connected, buffer, resolving, connect_op, pending, sock,
                     taken, conn, writes>>
  BY DEF OnRead, ReadCalls, Dispatch, Dispatched, reactor, kernel
<1> USE DispatchMoves, <1>1
<1>2. ~ Mentions(todo', "SocketConnect") /\ Once(todo', {"SocketConnect"})
                                        /\ Once(todo', {"Read", "Rearm"})
  BY OneDue, QuietScripts, QuietOnce DEF OnRead, ReadCalls, Quiet, Counted
<1>3. ReadAt(1) /\ ~ AttemptAt(1) /\ ~ NewsAt(1)
  BY DEF ReadAt, AttemptAt, NewsAt
<1>4. OneAttempt'
  BY <1>2 DEF PatientInv, OneAttempt
<1>5. ConnectedIsSettled'
  BY <1>2 DEF PatientInv, ConnectedIsSettled, Connecting
<1>6. SocketHeld'
  <2>1. sock # "closed" => is_connected \/ connect_op \/ \E i \in DOMAIN queue' : NewsAt(i)'
    BY <1>3 DEF PatientInv, SocketHeld
  <2> QED
    BY <2>1 DEF PatientInv, SocketHeld
<1>7. CASE ~ is_connected
  <2>1. todo' = << >> /\ delivered' = delivered
    BY <1>7 DEF OnRead, ReadCalls
  <2>2. ~ ReadDue'
    BY <2>1, QuietScripts DEF Quiet, Counted, ReadDue
  <2>3. ~ AliveAt(1)
    BY <1>7 DEF PatientInv, SocketHeld
  <2>4. DeadReadsDrop'
    BY <1>7, <2>2 DEF PatientInv, DeadReadsDrop
  <2>5. SoleReader'
    BY <1>2, <2>2 DEF PatientInv, SoleReader
  <2>6. BufferKept'
    BY <2>1, <2>3 DEF PatientInv, BufferKept, DeliveredInOrder
  <2> QED
    BY <1>4, <1>5, <1>6, <2>4, <2>5, <2>6 DEF PatientInv
<1>8. CASE is_connected
  <2>1. /\ AliveAt(1)
        /\ sock # "closed"
        /\ writes # 0
    BY <1>3, <1>8 DEF PatientInv, DeadReadsDrop, DeadAt, AliveAt, SoleReader
  <2>2. /\ ~ connect_op
        /\ \A i \in DOMAIN queue' : ~ NewsAt(i)'
        /\ \A i \in DOMAIN queue' : ~ DeadAt(i)'
    BY <1>8 DEF PatientInv, ConnectedIsSettled, Connecting, NewsAt, DeadReadsDrop
  <2>3. DeadReadsDrop'
    BY <1>2, <2>1, <2>2 DEF DeadReadsDrop
  <2>4. writes <= 1 => /\ pending = 0
                       /\ \A i \in DOMAIN queue : AliveAt(i) => i = 1
    BY <2>1 DEF PatientInv, SoleReader, TypeOK
  <2>5. writes <= 1 => \A i \in DOMAIN queue' : ~ AliveAt(i)'
    BY <2>4
  <2>6. SoleReader'
    BY <1>2, <2>1, <2>4, <2>5 DEF SoleReader
  <2>7. BufferKept'
    <3>1. CASE writes > 1
      BY <3>1 DEF BufferKept, TypeOK
    <3>2. CASE writes <= 1 /\ Head(queue).ok
      <4>1. delivered' = Append(delivered, buffer)
        BY <1>8, <3>2 DEF OnRead, ReadCalls
      <4>2. buffer = <<conn, taken>> /\ taken = Len(delivered) + 1
        BY <2>1, <2>4, <3>2 DEF PatientInv, BufferKept
      <4>3. /\ DOMAIN delivered = 1..Len(delivered)
            /\ DOMAIN delivered' = 1..(Len(delivered) + 1)
            /\ Len(delivered) \in Nat
            /\ Len(delivered') = Len(delivered) + 1
            /\ \A i \in 1..Len(delivered) : delivered'[i] = delivered[i]
            /\ delivered'[Len(delivered) + 1] = buffer
        BY <4>1, AppendProperties, LenProperties DEF TypeOK
      <4>4. DeliveredInOrder
        BY <3>2 DEF PatientInv, BufferKept
      <4>5. DeliveredInOrder'
        BY <4>2, <4>3, <4>4 DEF DeliveredInOrder
      <4> QED
        BY <2>5, <3>2, <4>2, <4>3, <4>5 DEF BufferKept
    <3>3. CASE writes <= 1 /\ ~ Head(queue).ok
      <4>1. delivered' = delivered
        BY <1>8, <3>3 DEF OnRead, ReadCalls
      <4>2. Len(delivered) = taken /\ DeliveredInOrder
        BY <2>1, <2>4, <3>3 DEF PatientInv, BufferKept
      <4> QED
        BY <2>5, <3>3, <4>1, <4>2 DEF BufferKept, DeliveredInOrder
    <3> QED
      BY <3>1, <3>2, <3>3 DEF TypeOK
  <2> QED
    BY <1>4, <1>5, <1>6, <2>3, <2>6, <2>7 DEF PatientInv
<1> QED
  BY <1>7, <1>8

\* A completion the reactor or the resolver posts goes to the end of the queue.
LEMMA PostMoves ==
  ASSUME TypeOK, NEW op \in {"resolve", "connect", "read"}, NEW ok \in BOOLEAN,
         queue' = Append(queue, Completion(op, ok)), UNCHANGED <<sock, conn>>,
         sock # "closed" \/ op = "resolve"
  PROVE  /\ Len(queue) + 1 \in DOMAIN queue'
         /\ DOMAIN queue \subseteq DOMAIN queue'
         /\ \A i \in DOMAIN queue : i < Len(queue) + 1 /\ queue'[i] = queue[i]
         /\ \A i \in DOMAIN queue' : i \in DOMAIN queue \/ i = Len(queue) + 1
         /\ \A i \in DOMAIN queue' : queue'[i].conn <= conn \/ i \in DOMAIN queue
         /\ queue'[Len(queue) + 1].op = op
         /\ queue'[Len(queue) + 1].ok = ok
         /\ \A i \in DOMAIN queue' :
              IF i = Len(queue) + 1
              THEN /\ AttemptAt(i)' <=> op # "read"
                   /\ NewsAt(i)' <=> op = "connect"
                   /\ AliveAt(i)' <=> op = "read"
                   /\ ~ DeadAt(i)'
              ELSE /\ AttemptAt(i)' <=> AttemptAt(i)
                   /\ NewsAt(i)' <=> NewsAt(i)
                   /\ AliveAt(i)' <=> AliveAt(i)
                   /\ DeadAt(i)' <=> DeadAt(i)
<1> DEFINE c == Completion(op, ok)
           n == Len(queue) + 1
<1>1. /\ c.op = op
      /\ c.ok = ok
      /\ c.conn = IF sock = "closed" THEN 0 ELSE conn
      /\ c \in Completions
  BY CompletionTyped DEF Completion
<1>2. c.conn <= conn
  BY <1>1 DEF TypeOK
<1>3. /\ Len(queue) \in Nat
      /\ DOMAIN queue = 1..Len(queue)
      /\ DOMAIN queue' = 1..n
      /\ \A i \in DOMAIN queue : queue'[i] = queue[i]
      /\ queue'[n] = c
  BY <1>1, QueueAppended
<1>4. /\ n \in DOMAIN queue'
      /\ DOMAIN queue \subseteq DOMAIN queue'
      /\ \A i \in DOMAIN queue : i < n
      /\ \A i \in DOMAIN queue' : i \in DOMAIN queue \/ i = n
  BY <1>3
<1> HIDE DEF c, n
<1>5. \A i \in DOMAIN queue' : queue'[i].conn <= conn \/ i \in DOMAIN queue
  BY <1>2, <1>3, <1>4
<1>6. \A i \in DOMAIN queue' :
        IF i = n
        THEN /\ AttemptAt(i)' <=> op # "read"
             /\ NewsAt(i)' <=> op = "connect"
             /\ AliveAt(i)' <=> op = "read"
             /\ ~ DeadAt(i)'
        ELSE /\ AttemptAt(i)' <=> AttemptAt(i)
             /\ NewsAt(i)' <=> NewsAt(i)
             /\ AliveAt(i)' <=> AliveAt(i)
             /\ DeadAt(i)' <=> DeadAt(i)
  BY <1>1, <1>3, <1>4 DEF AttemptAt, NewsAt, AliveAt, DeadAt, ReadAt
<1> QED
  BY <1>1, <1>3, <1>4, <1>5, <1>6 DEF n

LEMMA ResolvedStep ==
  ASSUME TypeOK, PatientInv, Resolved
  PROVE  PatientInv'
<1>1. PICK ok \in BOOLEAN : queue' = Append(queue, Completion("resolve", ok))
  BY DEF Resolved
<1>2. UNCHANGED <<is_connected, todo, buffer, connect_op, pending, sock, taken, conn,
                  writes, delivered>>
  BY DEF Resolved, client, reactor, kernel, session
<1>3. /\ resolving = 1
      /\ resolving' = 0
      /\ ~ connect_op
      /\ ~ Mentions(todo, "SocketConnect")
      /\ \A i \in DOMAIN queue : ~ AttemptAt(i)
  BY DEF Resolved, PatientInv, OneAttempt
<1>4. ~ is_connected
  BY <1>3 DEF PatientInv, ConnectedIsSettled, Connecting
<1> USE PostMoves, <1>1, <1>2, <1>3, <1>4
<1>5. OneAttempt'
  BY DEF PatientInv, OneAttempt
<1>6. ConnectedIsSettled'
  BY DEF ConnectedIsSettled
<1>7. SocketHeld'
  BY DEF PatientInv, SocketHeld
<1>8. DeadReadsDrop'
  BY DEF PatientInv, DeadReadsDrop, ReadDue
<1>9. SoleReader'
  BY DEF PatientInv, SoleReader, ReadDue
<1>10. BufferKept'
  BY DEF PatientInv, BufferKept, DeliveredInOrder
<1> QED
  BY <1>5, <1>6, <1>7, <1>8, <1>9, <1>10 DEF PatientInv

LEMMA ConnectionSettlesStep ==
  ASSUME TypeOK, PatientInv, ConnectionSettles
  PROVE  PatientInv'
<1>1. /\ sock = "connecting"
      /\ sock' # "closed"
      /\ sock' # "connecting"
      /\ UNCHANGED <<is_connected, todo, buffer, queue, resolving, connect_op, pending,
                     taken, conn, writes, delivered>>
  BY DEF ConnectionSettles, client, reactor, session
<1> USE <1>1 DEF PatientInv, AttemptAt, NewsAt, ReadAt, AliveAt, DeadAt, ReadDue
<1>2. OneAttempt'
  BY DEF OneAttempt
<1>3. ConnectedIsSettled'
  BY DEF ConnectedIsSettled, Connecting
<1>4. SocketHeld'
  BY DEF SocketHeld
<1>5. DeadReadsDrop'
  BY DEF DeadReadsDrop
<1>6. SoleReader'
  BY DEF SoleReader
<1>7. BufferKept'
  BY DEF BufferKept, DeliveredInOrder
<1> QED
  BY <1>2, <1>3, <1>4, <1>5, <1>6, <1>7

LEMMA ReactorConnectStep ==
  ASSUME TypeOK, PatientInv, ReactorConnect
  PROVE  PatientInv'
<1>1. PICK ok \in BOOLEAN : queue' = Append(queue, Completion("connect", ok))
  BY DEF ReactorConnect
<1>2. /\ todo = << >>
      /\ sock # "closed"
      /\ sock # "connecting"
      /\ connect_op
      /\ ~ connect_op'
      /\ UNCHANGED <<is_connected, todo, buffer, resolving, pending, sock, taken, conn,
                     writes, delivered>>
  BY DEF ReactorConnect, client, kernel, session
<1>3. /\ resolving = 0
      /\ ~ is_connected
      /\ \A i \in DOMAIN queue : ~ AttemptAt(i) /\ ~ NewsAt(i)
  BY <1>2 DEF PatientInv, OneAttempt, ConnectedIsSettled, Connecting, AttemptAt, NewsAt,
              TypeOK
<1>4. ~ Mentions(todo, "SocketConnect") /\ ~ ReadDue
  BY <1>2, QuietScripts DEF Quiet, Counted, ReadDue
<1> USE PostMoves, <1>1, <1>2, <1>3, <1>4
<1>5. OneAttempt'
  BY DEF PatientInv, OneAttempt
<1>6. ConnectedIsSettled'
  BY DEF ConnectedIsSettled
<1>7. SocketHeld'
  BY DEF PatientInv, SocketHeld
<1>8. DeadReadsDrop'
  BY DEF PatientInv, DeadReadsDrop, ReadDue
<1>9. SoleReader'
  BY DEF PatientInv, SoleReader, ReadDue
<1>10. BufferKept'
  BY DEF PatientInv, BufferKept, DeliveredInOrder
<1> QED
  BY <1>5, <1>6, <1>7, <1>8, <1>9, <1>10 DEF PatientInv

LEMMA ReactorReadStep ==
  ASSUME TypeOK, PatientInv, ReactorRead
  PROVE  PatientInv'
<1>1. PICK ok \in BOOLEAN :
        /\ queue' = Append(queue, Completion("read", ok))
        /\ IF ok THEN buffer' = <<conn, taken + 1>> /\ taken' = taken + 1
                 ELSE UNCHANGED <<buffer, taken>>
  BY DEF ReactorRead, Receive
<1>2. /\ todo = << >>
      /\ pending > 0
      /\ pending' = pending - 1
      /\ UNCHANGED <<is_connected, todo, resolving, connect_op, sock, conn,
                     writes, delivered>>
  BY DEF ReactorRead, client, kernel, session
<1>3. /\ sock # "closed"
      /\ is_connected
  BY <1>2 DEF PatientInv, SocketHeld
<1>4. /\ ~ connect_op
      /\ \A i \in DOMAIN queue : ~ AttemptAt(i) /\ ~ NewsAt(i) /\ ~ DeadAt(i)
  BY <1>3 DEF PatientInv, ConnectedIsSettled, Connecting, AttemptAt, NewsAt, DeadReadsDrop
<1>5. ~ ReadDue
  BY <1>2, QuietScripts DEF Quiet, Counted, ReadDue
<1>6. writes # 0
  BY <1>2, <1>3 DEF PatientInv, SoleReader
<1>7. writes <= 1 => /\ pending = 1
                     /\ pending' = 0
                     /\ Len(delivered) = taken
                     /\ \A i \in DOMAIN queue : ~ AliveAt(i)
  BY <1>2, <1>3 DEF PatientInv, SoleReader, BufferKept, TypeOK
<1> USE PostMoves, <1>1, <1>2, <1>3, <1>4, <1>5
<1>8. OneAttempt'
  BY DEF PatientInv, OneAttempt
<1>9. ConnectedIsSettled'
  BY DEF PatientInv, ConnectedIsSettled, Connecting, AttemptAt
<1>10. SocketHeld'
  BY DEF PatientInv, SocketHeld
<1>11. DeadReadsDrop'
  BY DEF PatientInv, DeadReadsDrop, ReadDue
<1>12. SoleReader'
  <2>1. CASE writes > 1
    BY <1>6, <2>1 DEF SoleReader, TypeOK
  <2>2. CASE writes <= 1
    <3>1. \A i \in DOMAIN queue' : AliveAt(i)' => i = Len(queue) + 1
      BY <1>7, <2>2
    <3>2. pending' = 0 /\ pending' <= 1 /\ pending' # 1 /\ ~ ReadDue'
      BY <1>7, <2>2 DEF ReadDue
    <3>3. Once(todo', {"Read", "Rearm"})
      BY QuietScripts, QuietOnce
    <3> QED
      BY <1>6, <2>2, <3>1, <3>2, <3>3 DEF SoleReader
  <2> QED
    BY <2>1, <2>2 DEF TypeOK
<1>13. BufferKept'
  <2>1. DeliveredInOrder' <=> DeliveredInOrder
    BY DEF DeliveredInOrder
  <2>2. CASE writes > 1
    BY <2>2 DEF BufferKept, TypeOK
  <2>3. CASE writes <= 1
    <3>1. DeliveredInOrder'
      BY <2>1, <2>3 DEF PatientInv, BufferKept
    <3>2. \A i \in DOMAIN queue' : AliveAt(i)' => queue'[i].ok = ok
      BY <1>7, <2>3
    <3>3. CASE ok
      <4>1. \E i \in DOMAIN queue' : AliveAt(i)' /\ queue'[i].ok
        BY <3>3
      <4> QED
        BY <1>7, <2>3, <3>1, <3>3, <4>1 DEF BufferKept
    <3>4. CASE ~ ok
      BY <1>7, <2>3, <3>1, <3>2, <3>4 DEF BufferKept
    <3> QED
      BY <3>3, <3>4
  <2> QED
    BY <2>2, <2>3 DEF TypeOK
<1> QED
  BY <1>8, <1>9, <1>10, <1>11, <1>12, <1>13 DEF PatientInv

-----------------------------------------------------------------------------
(* As long as the application does not overlap its attempts to connect,    *)
(* the invariant of TCPClientInv holds.                                    *)
THEOREM PatientInvariant == Patient => (Spec => []PatientInv)
<1> SUFFICES ASSUME Patient
             PROVE  Spec => []PatientInv
  OBVIOUS
<1>1. Init => PatientInv
  <2> SUFFICES ASSUME Init PROVE PatientInv
    OBVIOUS
  <2>1. Quiet(todo)
    BY QuietScripts DEF Init, ApiCalls
  <2>2. /\ ~ ReadDue
        /\ ~ Mentions(todo, "SocketConnect")
        /\ Once(todo, {"SocketConnect"})
    BY <2>1, QuietOnce DEF Quiet, Counted, ReadDue
  <2>3. OneAttempt /\ ConnectedIsSettled
    BY <2>2 DEF Init, OneAttempt, ConnectedIsSettled
  <2>4. SocketHeld /\ DeadReadsDrop
    BY <2>2 DEF Init, SocketHeld, DeadReadsDrop
  <2>5. SoleReader /\ BufferKept
    BY DEF Init, SoleReader, BufferKept, DeliveredInOrder
  <2> QED
    BY <2>3, <2>4, <2>5 DEF PatientInv
<1>2. TypeOK /\ PatientInv /\ [Next]_vars => PatientInv'
  <2> SUFFICES ASSUME TypeOK, PatientInv, [Next]_vars
               PROVE  PatientInv'
    OBVIOUS
  <2>0. << >> \in Seq(Frames) /\ Quiet(<< >>) /\ todo \in Seq(Frames)
    BY QuietScripts DEF TypeOK
  <2>1. CASE Connect
    BY <2>1, ConnectStep
  <2>2. CASE SkipConnect
    <3>1. NoMoreDue(todo, todo')
      BY <2>0, <2>2, PushQuiet DEF SkipConnect, Calling, Return, Counted
    <3> QED
      BY <2>2, <3>1, QuietStep DEF SkipConnect, Rest, reactor, kernel, session
  <2>3. CASE SocketConnect
    BY <2>3, SocketConnectStep
  <2>4. CASE Disconnect
    BY <2>4, DisconnectStep
  <2>5. CASE Write
    BY <2>5, WriteStep
  <2>6. CASE Read
    <3>1. CASE is_connected
      BY <2>6, <3>1, StartReadStep DEF Read, Calling, Return, kernel, session
    <3>2. CASE ~ is_connected
      <4>1. NoMoreDue(todo, todo')
        BY <2>0, <2>6, MentionsTail, OnceTail DEF NoMoreDue, Read, Calling, Return
      <4> QED
        BY <2>6, <3>2, <4>1, QuietStep DEF Read, Rest, kernel, session
    <3> QED
      BY <3>1, <3>2
  <2>7. CASE Rearm
    BY <2>7, StartReadStep DEF Rearm, Calling, Return, kernel, session
  <2>8. CASE ResolveHostHandler
    BY <2>8, ResolveHostHandlerStep
  <2>9. CASE OnConnect
    BY <2>9, OnConnectStep
  <2>10. CASE OnRead
    BY <2>10, OnReadStep
  <2>11. ASSUME NEW cb \in Callbacks, Callback(cb)
         PROVE  PatientInv'
    <3>1. PICK script \in Overrides[cb] : todo' = script \o Tail(todo)
      BY <2>11 DEF Callback
    <3>2. script \in Seq(Frames) /\ Quiet(script)
      BY OverridesAssumption, FrameNames, SeqMonotonic, QuietScripts
    <3>3. todo # << >> /\ Head(todo) \notin Counted
      BY <2>11 DEF Callback, Calling, Callbacks, Counted
    <3>4. NoMoreDue(todo, todo')
      BY <2>0, <3>1, <3>2, <3>3, PushQuiet
    <3> QED
      BY <2>11, <3>4, QuietStep DEF Callback, Rest, reactor, kernel, session
  <2>12. CASE OutsideCall
    <3>1. PICK call \in Outside : todo' = <<call>>
      BY <2>12 DEF OutsideCall
    <3>2. Quiet(todo')
      BY <3>1, OutsideAssumption, QuietScripts
    <3>3. NoMoreDue(todo, todo')
      BY <3>2, QuietOnce DEF NoMoreDue, Quiet
    <3> QED
      BY <2>12, <3>3, QuietStep DEF OutsideCall, Rest, reactor, kernel, session
  <2>13. CASE Resolved
    BY <2>13, ResolvedStep
  <2>14. CASE ConnectionSettles
    BY <2>14, ConnectionSettlesStep
  <2>15. CASE ReactorConnect
    BY <2>15, ReactorConnectStep
  <2>16. CASE ReactorRead
    BY <2>16, ReactorReadStep
  <2>17. CASE ChunkArrives \/ PeerCloses \/ UNCHANGED vars
    <3>1. todo' = todo /\ UNCHANGED Rest
      BY <2>17 DEF ChunkArrives, PeerCloses, vars, Rest, client, reactor, kernel, session
    <3>2. NoMoreDue(todo, todo')
      BY <3>1 DEF NoMoreDue
    <3> QED
      BY <3>1, <3>2, QuietStep
  <2> QED
    BY <2>1, <2>2, <2>3, <2>4, <2>5, <2>6, <2>7, <2>8, <2>9, <2>10, <2>11, <2>12,
       <2>13, <2>14, <2>15, <2>16, <2>17
    DEF Next, Handlers, Calls, Reactor, Network
<1> QED
  BY <1>1, <1>2, TypeCorrect, PTL DEF Spec

(* A patient application is never given what an earlier connection read: a *)
(* read completion that passes the is_connected_ test of TCPSocket::OnRead *)
(* belongs to the connection that is open.                                 *)
THEOREM StaleReadsDropped == Patient => (Spec => []NoStaleRead)
<1> SUFFICES ASSUME Patient
             PROVE  Spec => []NoStaleRead
  OBVIOUS
<1>1. TypeOK /\ PatientInv => NoStaleRead
  <2> SUFFICES ASSUME TypeOK, PatientInv, Dispatch("read"), is_connected
               PROVE  Head(queue).conn = conn /\ sock # "closed"
    BY DEF NoStaleRead
  <2>1. 1 \in DOMAIN queue /\ Head(queue) = queue[1]
    BY EmptySeq, QueueElements DEF Dispatch, TypeOK
  <2> QED
    BY <2>1 DEF Dispatch, PatientInv, DeadReadsDrop, DeadAt, ReadAt
<1> QED
  BY <1>1, TypeCorrect, PatientInvariant, PTL

(* An application that writes on a connection once, as the tests and the   *)
(* demos that only request do, is given the peer's chunks in order,        *)
(* without loss, repetition or overwriting in the shared buffer_.          *)
THEOREM SoleWriterReads == Patient => (Spec => []SoleWriterReadsInOrder)
<1> SUFFICES ASSUME Patient
             PROVE  Spec => []SoleWriterReadsInOrder
  OBVIOUS
<1>1. PatientInv => SoleWriterReadsInOrder
  BY DEF PatientInv, BufferKept, SoleWriterReadsInOrder
<1> QED
  BY <1>1, PatientInvariant, PTL
=============================================================================
