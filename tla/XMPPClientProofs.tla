-------------------------- MODULE XMPPClientProofs --------------------------
(***************************************************************************)
(* XMPPClient implements TCPClient, so what is proved of TCPClient for any *)
(* application holds of this one; and an invariant of the handshake: why   *)
(* SASL, given the server's text cut anywhere, chooses from all of the     *)
(* features, and why each of its writes comes at its own step.             *)
(***************************************************************************)
EXTENDS XMPPClient, TCPClientCounts

\* The calls of the two callbacks are among the overrides.
LEMMA ScriptsOverride ==
  ASSUME Overrides = XMPPOverrides, NEW cb \in {"OnConnect", "OnRead"},
         NEW script \in {<< >>, <<"Write">>, <<"Disconnect", "Write">>}
  PROVE  script \in Overrides[cb] /\ ~ Mentions(script, "Connect")
BY DEF XMPPOverrides, Mentions, Callbacks

LEMMA UpdateCallsBack ==
  ASSUME Overrides = XMPPOverrides, NEW cb \in {"OnConnect", "OnRead"},
         NEW tokens, Update(cb, tokens)
  PROVE  Callback(cb) \/ UNCHANGED vars
<1> USE DEF Update
<1>1. CASE ParseThrows(tokens) /\ UNCHANGED todo
  BY <1>1 DEF vars, client, calls, session, reactor, kernel
<1>2. ASSUME NEW script \in {<< >>, <<"Write">>, <<"Disconnect", "Write">>},
             Returns(script)
      PROVE  Callback(cb)
  BY <1>2, ScriptsOverride DEF Callback, Returns, calls
<1>3. CASE HandleInitializeStream(tokens)
  BY <1>2, <1>3 DEF HandleInitializeStream
<1>4. CASE HandleSelectAuthenticationMechanism(tokens)
  <2>1. Returns(<< >>) \/ Returns(SelectCalls(mechanism'))
    BY <1>4 DEF HandleSelectAuthenticationMechanism
  <2>2. SelectCalls(mechanism') \in {<<"Write">>, <<"Disconnect", "Write">>}
    BY DEF SelectCalls
  <2> QED
    BY <1>2, <2>1, <2>2
<1>5. CASE HandleDecodeBase64Challenge(tokens)
  BY <1>2, <1>5 DEF HandleDecodeBase64Challenge
<1> QED
  BY <1>1, <1>3, <1>4, <1>5

LEMMA StepsAsClient ==
  ASSUME Overrides = XMPPOverrides, [XNext]_xvars
  PROVE  [Next]_vars
<1>1. CASE ClientCalls
  <2> USE DEF Next, Calls
  <2>1. CASE Inherited(\/ Connect \/ SkipConnect \/ Disconnect \/ Write \/ Read \/ Rearm
                       \/ \E cb \in Callbacks \ {"OnConnect", "OnRead"} : Callback(cb))
    BY <2>1 DEF Inherited
  <2>2. CASE XMPPSocketConnect
    BY <2>2 DEF XMPPSocketConnect
  <2>3. CASE XMPPOnConnect
    BY <2>3, UpdateCallsBack DEF XMPPOnConnect, Callbacks
  <2>4. CASE XMPPOnRead
    BY <2>4, UpdateCallsBack DEF XMPPOnRead, Callbacks
  <2> QED
    BY <1>1, <2>1, <2>2, <2>3, <2>4 DEF ClientCalls
<1>2. CASE ServerSends
  BY <1>2 DEF ServerSends, Next, Network
<1>3. CASE Inherited(Handlers \/ Reactor \/ ConnectionSettles \/ PeerCloses \/ Resolved
                     \/ OutsideCall)
  BY <1>3 DEF Inherited, Next, Network
<1>4. CASE UNCHANGED xvars
  BY <1>4 DEF xvars
<1> QED
  BY <1>1, <1>2, <1>3, <1>4 DEF XNext

(* XMPPClient is an application of TCPClient whose callbacks make the      *)
(* calls of XMPPOverrides: each of its steps is a step of the client, or   *)
(* one the client does not see.                                            *)
THEOREM XMPPImplementsTCPClient ==
  Overrides = XMPPOverrides => (XSpec => UsesTCPClient)
<1> SUFFICES ASSUME Overrides = XMPPOverrides
             PROVE  XSpec => UsesTCPClient
  OBVIOUS
<1>1. XInit => Init
  BY DEF XInit
<1>2. [XNext]_xvars => [Next]_vars
  BY StepsAsClient
<1> QED
  BY <1>1, <1>2, PTL DEF XSpec, UsesTCPClient, Spec

(* So, when it connects only while disconnected, SASL is never given what  *)
(* an earlier connection read ...                                          *)
THEOREM XMPPReadsNothingStale ==
  Patient /\ Overrides = XMPPOverrides => (XSpec => []NoStaleRead)
<1> SUFFICES ASSUME Patient, Overrides = XMPPOverrides
             PROVE  XSpec => []NoStaleRead
  OBVIOUS
<1> QED
  BY XMPPImplementsTCPClient, StaleReadsDropped, PTL DEF UsesTCPClient

(* ... and until it writes the mechanism it chose, it is given the bytes   *)
(* of the server in order, none missing.                                   *)
THEOREM XMPPReadsInOrder ==
  Patient /\ Overrides = XMPPOverrides => (XSpec => []SoleWriterReadsInOrder)
<1> SUFFICES ASSUME Patient, Overrides = XMPPOverrides
             PROVE  XSpec => []SoleWriterReadsInOrder
  OBVIOUS
<1> QED
  BY XMPPImplementsTCPClient, SoleWriterReads, PTL DEF UsesTCPClient

(* Every message of SASL is answered by a read of its own: on the open     *)
(* connection as many reads are in flight as messages were written.        *)
THEOREM XMPPReadsMatchWrites ==
  Patient /\ Overrides = XMPPOverrides => (XSpec => []OneReadPerWrite)
<1> SUFFICES ASSUME Patient, Overrides = XMPPOverrides
             PROVE  XSpec => []OneReadPerWrite
  OBVIOUS
<1> QED
  BY XMPPImplementsTCPClient, ReadsMatchWrites, PTL DEF UsesTCPClient

\* The only script that disconnects is the one that rejects a server, of OnRead.
LEMMA XMPPClosesWhatItHas ==
  ASSUME ClosesInCallbacks, Overrides = XMPPOverrides
  PROVE  ClosesWhatItHas
<1> SUFFICES ASSUME NEW cb \in Callbacks, NEW script \in Overrides[cb]
             PROVE  /\ Once(script, {"Disconnect"})
                    /\ Mentions(script, "Disconnect") => cb \in {"OnConnect", "OnRead"}
  BY DEF ClosesWhatItHas
<1>1. /\ script = << >> \/ script = <<"Write">> \/ script = <<"Disconnect", "Write">>
      /\ cb \notin {"OnConnect", "OnRead"} => script = << >>
  BY DEF XMPPOverrides, Callbacks
<1>2. /\ Once(<< >>, {"Disconnect"}) /\ Once(<<"Write">>, {"Disconnect"})
      /\ Once(<<"Disconnect", "Write">>, {"Disconnect"})
      /\ ~ Mentions(<< >>, "Disconnect")
  BY DEF Once, Mentions
<1> QED
  BY <1>1, <1>2

(* Rejecting a server that offers nothing supported closes the connection  *)
(* once, and the stream is never believed open on a socket that is not:    *)
(* the write that follows Disconnect finds the client not connected.       *)
THEOREM XMPPClosesOnce ==
  ClosesInCallbacks /\ Overrides = XMPPOverrides
    => (XSpec => [](EveryConnectEndsOnce /\ ConnectedMeansOpen))
<1> SUFFICES ASSUME ClosesInCallbacks, Overrides = XMPPOverrides
             PROVE  XSpec => [](EveryConnectEndsOnce /\ ConnectedMeansOpen)
  OBVIOUS
<1>1. ClosesWhatItHas
  BY XMPPClosesWhatItHas
<1>2. NoWriteOnError
  <2>1. Overrides["OnError"] = {<< >>}
    BY DEF XMPPOverrides, Callbacks
  <2> QED
    BY <2>1 DEF NoWriteOnError, Mentions
<1> QED
  BY <1>1, <1>2, XMPPImplementsTCPClient, ConnectsEndOnce, BelievesOnlyOpen, PTL DEF UsesTCPClient

-----------------------------------------------------------------------------
(* Concatenations written out.                                             *)

LEMMA ConcatIs ==
  ASSUME NEW S, NEW s \in Seq(S), NEW t \in Seq(S), NEW u \in Seq(S),
         Len(u) = Len(s) + Len(t),
         \A i \in 1..Len(s) : u[i] = s[i],
         \A i \in 1..Len(t) : u[Len(s) + i] = t[i]
  PROVE  s \o t = u
<1>1. /\ s \o t \in Seq(S) /\ Len(s \o t) = Len(s) + Len(t)
      /\ \A i \in 1..(Len(s) + Len(t)) :
           (s \o t)[i] = IF i <= Len(s) THEN s[i] ELSE t[i - Len(s)]
  BY ConcatProperties
<1>2. Len(s) \in Nat /\ Len(t) \in Nat
  BY LenProperties
<1>3. ASSUME NEW i \in 1..Len(s \o t)
      PROVE  (s \o t)[i] = u[i]
  <2>1. CASE i <= Len(s)
    BY <1>1, <1>2, <2>1
  <2>2. CASE i > Len(s)
    <3>1. i - Len(s) \in 1..Len(t) /\ Len(s) + (i - Len(s)) = i
      BY <1>1, <1>2, <2>2
    <3>2. (s \o t)[i] = t[i - Len(s)]
      BY <1>1, <1>2, <2>2
    <3>3. u[Len(s) + (i - Len(s))] = t[i - Len(s)]
      BY <3>1
    <3> QED
      BY <3>1, <3>2, <3>3
  <2> QED
    BY <1>1, <1>2, <2>1, <2>2
<1> QED
  BY <1>1, <1>3, SeqEqual

\* What a call pushes on the stack.
LEMMA ShortConcats ==
  ASSUME NEW a, NEW b, NEW c
  PROVE  /\ << >> \o << >> = << >> /\ << >> \o <<a>> = <<a>> /\ <<a>> \o << >> = <<a>>
         /\ <<a>> \o <<b>> = <<a, b>>
         /\ <<a>> \o <<b, c>> = <<a, b, c>> /\ <<a, b>> \o <<c>> = <<a, b, c>>
<1> DEFINE S == {a, b, c}
<1>1. /\ << >> \in Seq(S) /\ <<a>> \in Seq(S) /\ <<b>> \in Seq(S) /\ <<c>> \in Seq(S)
      /\ <<a, b>> \in Seq(S) /\ <<b, c>> \in Seq(S) /\ <<a, b, c>> \in Seq(S)
  OBVIOUS
<1>2. /\ Len(<<a>>) = 1 /\ Len(<<b>>) = 1 /\ Len(<<c>>) = 1
      /\ <<a>>[1] = a /\ <<b>>[1] = b /\ <<c>>[1] = c
  OBVIOUS
<1>3. /\ Len(<<a, b>>) = 2 /\ <<a, b>>[1] = a /\ <<a, b>>[2] = b
      /\ Len(<<b, c>>) = 2 /\ <<b, c>>[1] = b /\ <<b, c>>[2] = c
  OBVIOUS
<1>4. Len(<<a, b, c>>) = 3 /\ <<a, b, c>>[1] = a /\ <<a, b, c>>[2] = b /\ <<a, b, c>>[3] = c
  OBVIOUS
<1> HIDE DEF S
<1>5. << >> \o << >> = << >> /\ << >> \o <<a>> = <<a>> /\ <<a>> \o << >> = <<a>>
  BY <1>1, ConcatEmptySeq
<1> DEFINE x == <<a>>
           y == <<b>>
           z == <<c>>
           xy == <<a, b>>
           yz == <<b, c>>
           xyz == <<a, b, c>>
<1>6. /\ x \in Seq(S) /\ y \in Seq(S) /\ z \in Seq(S) /\ xy \in Seq(S) /\ yz \in Seq(S)
      /\ xyz \in Seq(S)
      /\ Len(x) = 1 /\ Len(y) = 1 /\ Len(z) = 1 /\ Len(xy) = 2 /\ Len(yz) = 2 /\ Len(xyz) = 3
      /\ x[1] = a /\ y[1] = b /\ z[1] = c /\ xy[1] = a /\ xy[2] = b /\ yz[1] = b /\ yz[2] = c
      /\ xyz[1] = a /\ xyz[2] = b /\ xyz[3] = c
  BY <1>1, <1>2, <1>3, <1>4
<1> HIDE DEF x, y, z, xy, yz, xyz
<1>7. x \o y = xy
  <2>1. /\ Len(xy) = Len(x) + Len(y)
        /\ \A i \in 1..Len(x) : xy[i] = x[i]
        /\ \A i \in 1..Len(y) : xy[Len(x) + i] = y[i]
    BY <1>6
  <2> QED
    BY <1>6, <2>1, ConcatIs
<1>8. x \o yz = xyz
  <2>1. /\ Len(xyz) = Len(x) + Len(yz)
        /\ \A i \in 1..Len(x) : xyz[i] = x[i]
        /\ \A i \in 1..Len(yz) : xyz[Len(x) + i] = yz[i]
    BY <1>6
  <2> QED
    BY <1>6, <2>1, ConcatIs
<1>9. xy \o z = xyz
  <2>1. /\ Len(xyz) = Len(xy) + Len(z)
        /\ \A i \in 1..Len(xy) : xyz[i] = xy[i]
        /\ \A i \in 1..Len(z) : xyz[Len(xy) + i] = z[i]
    BY <1>6
  <2> QED
    BY <1>6, <2>1, ConcatIs
<1> QED
  BY <1>5, <1>7, <1>8, <1>9 DEF x, y, z, xy, yz, xyz

-----------------------------------------------------------------------------
(* The text of the server.  Tokens stand where the script has them, and    *)
(* nowhere else, so what is found in any prefix of it is what was sent.    *)

EndOfFeatures == "</stream:features>"

Tokens ==
  Mechanisms \cup {"<stream:stream>", "<stream:features>", EndOfFeatures,
                   "<challenge", "base64", "</challenge>"}

\* Where the features end.
FeaturesEnd == Len(offer) + 3

LEMMA ScriptIs ==
  ASSUME offer \in Offers
  PROVE  /\ Script \in Seq(Tokens) /\ Features \in Seq(Tokens) /\ Len(offer) \in Nat
         /\ Len(Features) = Len(offer) + 2 /\ Len(Script) = Len(offer) + 6
         /\ Features[1] = "<stream:features>" /\ Features[Len(offer) + 2] = EndOfFeatures
         /\ \A i \in 1..Len(offer) : Features[i + 1] = offer[i] /\ offer[i] \in Mechanisms
         /\ Script[1] = "<stream:stream>"
         /\ \A i \in 1..Len(Features) : Script[i + 1] = Features[i]
         /\ Script[Len(offer) + 4] = "<challenge" /\ Script[Len(offer) + 5] = "base64"
         /\ Script[Len(offer) + 6] = "</challenge>"
<1>1. offer \in Seq(Mechanisms) /\ offer \in Seq(Tokens)
  <2>1. offer \in Seq(Mechanisms)
    BY OffersAssumption
  <2>2. Mechanisms \subseteq Tokens
    BY DEF Tokens
  <2> QED
    BY <2>1, <2>2, SeqMonotonic
<1>2. Len(offer) \in Nat /\ \A i \in 1..Len(offer) : offer[i] \in Mechanisms
  BY <1>1, LenProperties, ElementOfSeq
<1> DEFINE front == <<"<stream:features>">>
           back  == <<EndOfFeatures>>
<1>3. /\ front \in Seq(Tokens) /\ Len(front) = 1 /\ front[1] = "<stream:features>"
      /\ back \in Seq(Tokens) /\ Len(back) = 1 /\ back[1] = EndOfFeatures
  BY DEF Tokens
<1>4. Header \in Seq(Tokens) /\ Len(Header) = 1 /\ Header[1] = "<stream:stream>"
  BY DEF Header, Tokens
<1>5. /\ Challenge \in Seq(Tokens) /\ Len(Challenge) = 3
      /\ Challenge[1] = "<challenge" /\ Challenge[2] = "base64"
      /\ Challenge[3] = "</challenge>"
  BY DEF Challenge, Tokens
<1> DEFINE opened == front \o offer
           greeting == Header \o Features
<1>6. Features = opened \o back
  BY DEF Features, EndOfFeatures
<1>7. Script = greeting \o Challenge
  BY DEF Script
<1>8. /\ opened \in Seq(Tokens) /\ Len(opened) = Len(offer) + 1
      /\ opened[1] = "<stream:features>"
      /\ \A i \in 1..Len(offer) : opened[i + 1] = offer[i]
  <2>1. /\ opened \in Seq(Tokens) /\ Len(opened) = Len(front) + Len(offer)
        /\ \A i \in 1..(Len(front) + Len(offer)) :
             opened[i] = IF i <= Len(front) THEN front[i] ELSE offer[i - Len(front)]
    <3> HIDE DEF front
    <3> QED
      BY <1>1, <1>3, ConcatProperties
  <2> HIDE DEF opened, front
  <2> QED
    BY <1>2, <1>3, <2>1
<1>9. /\ Features \in Seq(Tokens) /\ Len(Features) = Len(offer) + 2
      /\ Features[1] = "<stream:features>" /\ Features[Len(offer) + 2] = EndOfFeatures
      /\ \A i \in 1..Len(offer) : Features[i + 1] = offer[i]
  <2> HIDE DEF opened, back
  <2>1. /\ Features \in Seq(Tokens) /\ Len(Features) = Len(opened) + Len(back)
        /\ \A i \in 1..(Len(opened) + Len(back)) :
             Features[i] = IF i <= Len(opened) THEN opened[i] ELSE back[i - Len(opened)]
    BY <1>3, <1>6, <1>8, ConcatProperties
  <2> QED
    BY <1>2, <1>3, <1>8, <2>1
<1> HIDE DEF opened, front, back
<1>10. /\ greeting \in Seq(Tokens) /\ Len(greeting) = Len(offer) + 3
       /\ greeting[1] = "<stream:stream>"
       /\ \A i \in 1..Len(Features) : greeting[i + 1] = Features[i]
  <2>1. /\ greeting \in Seq(Tokens) /\ Len(greeting) = Len(Header) + Len(Features)
        /\ \A i \in 1..(Len(Header) + Len(Features)) :
             greeting[i] = IF i <= Len(Header) THEN Header[i] ELSE Features[i - Len(Header)]
    BY <1>4, <1>9, ConcatProperties
  <2> HIDE DEF greeting
  <2> QED
    BY <1>2, <1>4, <1>9, <2>1
<1> HIDE DEF greeting
<1>11. /\ Script \in Seq(Tokens) /\ Len(Script) = Len(greeting) + Len(Challenge)
       /\ \A i \in 1..(Len(greeting) + Len(Challenge)) :
            Script[i] = IF i <= Len(greeting) THEN greeting[i] ELSE Challenge[i - Len(greeting)]
  BY <1>5, <1>7, <1>10, ConcatProperties
<1>12. Script[1] = "<stream:stream>" /\ \A i \in 1..Len(Features) : Script[i + 1] = Features[i]
  BY <1>2, <1>5, <1>9, <1>10, <1>11
<1>13. /\ Script[Len(offer) + 4] = "<challenge" /\ Script[Len(offer) + 5] = "base64"
       /\ Script[Len(offer) + 6] = "</challenge>"
  <2>1. \A k \in 1..3 : Script[Len(offer) + 3 + k] = Challenge[k]
    BY <1>2, <1>5, <1>10, <1>11
  <2>2. Script[Len(offer) + 3 + 1] = Challenge[1] /\ Script[Len(offer) + 3 + 2] = Challenge[2]
        /\ Script[Len(offer) + 3 + 3] = Challenge[3]
    BY <2>1
  <2> QED
    BY <1>2, <1>5, <2>2
<1>14. Len(Script) = Len(offer) + 6
  BY <1>2, <1>5, <1>10, <1>11
<1> QED
  BY <1>2, <1>9, <1>11, <1>12, <1>13, <1>14

\* Each of the two tags of the features stands once in what the server says.
LEMMA TagsOnce ==
  ASSUME offer \in Offers, NEW i \in 1..Len(Script)
  PROVE  /\ Script[i] = "<stream:features>" <=> i = 2
         /\ Script[i] = EndOfFeatures <=> i = FeaturesEnd
<1> USE ScriptIs
<1>1. CASE i = 1
  BY <1>1 DEF EndOfFeatures, FeaturesEnd
<1>2. CASE i = 2
  BY <1>2 DEF EndOfFeatures, FeaturesEnd
<1>3. CASE i \in 3..(Len(offer) + 2)
  <2>1. i - 2 \in 1..Len(offer) /\ i - 1 \in 1..Len(Features)
    BY <1>3
  <2>2. Script[(i - 1) + 1] = Features[i - 1]
    BY <2>1
  <2>3. Features[(i - 2) + 1] = offer[i - 2] /\ offer[i - 2] \in Mechanisms
    BY <2>1
  <2>4. (i - 1) + 1 = i /\ (i - 2) + 1 = i - 1
    BY <1>3
  <2>5. Script[i] = offer[i - 2]
    BY <2>2, <2>3, <2>4
  <2> QED
    BY <1>3, <2>3, <2>5 DEF Mechanisms, EndOfFeatures, FeaturesEnd
<1>4. CASE i = Len(offer) + 3
  BY <1>4 DEF EndOfFeatures, FeaturesEnd
<1>5. CASE i \in {Len(offer) + 4, Len(offer) + 5, Len(offer) + 6}
  BY <1>5 DEF EndOfFeatures, FeaturesEnd
<1> QED
  BY <1>1, <1>2, <1>3, <1>4, <1>5

\* What the server has said first.
Prefix(m) == SubSeq(Script, 1, m)

LEMMA PrefixIs ==
  ASSUME offer \in Offers, NEW m \in 0..Len(Script)
  PROVE  /\ Prefix(m) \in Seq(Tokens) /\ Len(Prefix(m)) = m
         /\ DOMAIN Prefix(m) = 1..m
         /\ \A i \in 1..m : Prefix(m)[i] = Script[i]
         /\ Mentions(Prefix(m), EndOfFeatures) <=> m >= FeaturesEnd
<1>1. Len(Script) \in Nat /\ \A i \in 1..m : Script[i] \in Tokens
  BY ScriptIs, ElementOfSeq
<1>2. /\ Prefix(m) \in Seq(Tokens) /\ Len(Prefix(m)) = m
      /\ \A i \in 1..m : Prefix(m)[i] = Script[i]
  <2>1. /\ SubSeq(Script, 1, m) \in Seq(Tokens)
        /\ Len(SubSeq(Script, 1, m)) = IF 1 <= m THEN m - 1 + 1 ELSE 0
        /\ \A i \in 1..(m - 1 + 1) : SubSeq(Script, 1, m)[i] = Script[1 + i - 1]
    BY <1>1, SubSeqProperties
  <2> QED
    BY <1>1, <2>1 DEF Prefix
<1>3. DOMAIN Prefix(m) = 1..m
  BY <1>2, LenProperties
<1>4. \A i \in 1..m : Prefix(m)[i] = EndOfFeatures <=> i = FeaturesEnd
  BY <1>1, <1>2, TagsOnce
<1>5. FeaturesEnd \in Nat /\ FeaturesEnd >= 3
  BY ScriptIs DEF FeaturesEnd
<1> QED
  BY <1>1, <1>2, <1>3, <1>4, <1>5 DEF Mentions

\* SASL::ExtractXML on it: the features as they were sent, once they are complete.
LEMMA FeaturesExtracted ==
  ASSUME offer \in Offers, NEW m \in 0..Len(Script)
  PROVE  /\ m >= FeaturesEnd =>
              ExtractAuthenticationMechanismResponse(Prefix(m)).stanza = Features
         /\ m < FeaturesEnd =>
              ExtractAuthenticationMechanismResponse(Prefix(m))
                = [stanza |-> << >>, rest |-> Prefix(m)]
<1> DEFINE p == Prefix(m)
<1>1. m < FeaturesEnd => ~ Mentions(p, EndOfFeatures)
  BY PrefixIs, ScriptIs DEF FeaturesEnd
<1>2. ASSUME m >= FeaturesEnd
      PROVE  ExtractAuthenticationMechanismResponse(p).stanza = Features
  <2>1. /\ Len(offer) \in Nat /\ m \in Nat /\ FeaturesEnd = Len(offer) + 3
        /\ 2 \in 1..m /\ FeaturesEnd \in 1..m
    BY <1>2, ScriptIs DEF FeaturesEnd
  <2>2. \A i \in 1..m : /\ p[i] = "<stream:features>" <=> i = 2
                        /\ p[i] = EndOfFeatures <=> i = FeaturesEnd
    <3>1. \A i \in 1..m : p[i] = Script[i]
      BY PrefixIs
    <3>2. m \in Nat /\ m <= Len(Script) /\ Len(Script) \in Nat
      BY ScriptIs
    <3>3. \A i \in 1..Len(Script) : /\ Script[i] = "<stream:features>" <=> i = 2
                                    /\ Script[i] = EndOfFeatures <=> i = FeaturesEnd
      BY TagsOnce
    <3> HIDE DEF p
    <3> QED
      BY <3>1, <3>2, <3>3
  <2>3. DOMAIN p = 1..m /\ Len(p) = m
    BY PrefixIs
  <2>4. Mentions(p, "<stream:features>") /\ Mentions(p, EndOfFeatures)
    BY <2>1, <2>2, <2>3 DEF Mentions
  <2>5. First(p, "<stream:features>") = 2
    <3>1. 2 \in DOMAIN p /\ p[2] = "<stream:features>"
          /\ \A j \in 1..(2 - 1) : p[j] # "<stream:features>"
      BY <2>1, <2>2, <2>3
    <3>2. \A i \in DOMAIN p : p[i] = "<stream:features>" => i = 2
      BY <2>2, <2>3
    <3> QED
      BY <3>1, <3>2 DEF First
  <2>6. First(p, EndOfFeatures) = FeaturesEnd
    <3>1. FeaturesEnd \in DOMAIN p /\ p[FeaturesEnd] = EndOfFeatures
          /\ \A j \in 1..(FeaturesEnd - 1) : p[j] # EndOfFeatures
      BY <2>1, <2>2, <2>3
    <3>2. \A i \in DOMAIN p : p[i] = EndOfFeatures => i = FeaturesEnd
      BY <2>2, <2>3
    <3> QED
      BY <3>1, <3>2 DEF First
  <2>7. ExtractAuthenticationMechanismResponse(p).stanza = SubSeq(p, 2, FeaturesEnd)
    <3>1. ~ (FeaturesEnd + 1 < 2)
      BY <2>1
    <3> HIDE DEF p
    <3> QED
      BY <2>4, <2>5, <2>6, <3>1
      DEF ExtractAuthenticationMechanismResponse, ExtractXML, EndOfFeatures
  <2>8. SubSeq(p, 2, FeaturesEnd) = Features
    <3>1. ASSUME NEW i \in 2..FeaturesEnd
          PROVE  p[i] = Script[i] /\ p[i] \in Tokens
      <4>1. i \in 1..m /\ i \in 1..Len(p)
        BY <2>1, <2>3
      <4>2. p \in Seq(Tokens) /\ p[i] = Script[i]
        BY <4>1, PrefixIs
      <4> QED
        BY <4>1, <4>2, ElementOfSeq
    <3> DEFINE s == SubSeq(p, 2, FeaturesEnd)
    <3>2. /\ s \in Seq(Tokens) /\ Len(s) = FeaturesEnd - 2 + 1
          /\ \A i \in 1..(FeaturesEnd - 2 + 1) : s[i] = p[2 + i - 1]
      BY <2>1, <3>1, SubSeqProperties
    <3>3. Features \in Seq(Tokens) /\ Len(Features) = Len(offer) + 2
          /\ \A i \in 1..Len(Features) : Script[i + 1] = Features[i]
      BY ScriptIs
    <3> HIDE DEF s, p
    <3>4. Len(s) = Len(Features)
      BY <2>1, <3>2, <3>3
    <3>5. ASSUME NEW i \in 1..Len(s)
          PROVE  s[i] = Features[i]
      <4>1. i \in 1..(Len(offer) + 2) /\ i + 1 \in 2..FeaturesEnd /\ 2 + i - 1 = i + 1
        BY <2>1, <3>3, <3>4
      <4>2. s[i] = p[i + 1]
        BY <2>1, <3>2, <4>1
      <4>3. p[i + 1] = Script[i + 1]
        BY <3>1, <4>1
      <4> QED
        BY <3>3, <4>1, <4>2, <4>3
    <3> QED
      BY <3>2, <3>3, <3>4, <3>5, SeqEqual DEF s
  <2> QED
    BY <2>7, <2>8
<1> QED
  BY <1>1, <1>2 DEF ExtractAuthenticationMechanismResponse, ExtractXML, EndOfFeatures

\* SASL::ParseAuthenticationMechanisms finds what the server announced.
LEMMA FeaturesParsed ==
  ASSUME offer \in Offers
  PROVE  ParseAuthenticationMechanisms(Features) = Supported /\ Features # << >>
<1>1. /\ Features \in Seq(Tokens) /\ Len(Features) = Len(offer) + 2 /\ Len(offer) \in Nat
      /\ Features[1] = "<stream:features>" /\ Features[Len(offer) + 2] = EndOfFeatures
      /\ \A i \in 1..Len(offer) : Features[i + 1] = offer[i] /\ offer[i] \in Mechanisms
  BY ScriptIs
<1>2. DOMAIN Features = 1..(Len(offer) + 2) /\ DOMAIN offer = 1..Len(offer)
  BY <1>1, OffersAssumption, LenProperties
<1>3. ASSUME NEW i \in DOMAIN Features, Features[i] \in Mechanisms
      PROVE  Features[i] \in Supported
  <2>1. i # 1 /\ i # Len(offer) + 2
    BY <1>1, <1>3 DEF Mechanisms, EndOfFeatures
  <2>2. i - 1 \in 1..Len(offer) /\ Features[(i - 1) + 1] = offer[i - 1]
    BY <1>1, <1>2, <2>1
  <2> QED
    BY <1>1, <1>2, <2>2 DEF Supported
<1>4. ASSUME NEW i \in DOMAIN offer
      PROVE  offer[i] \in ParseAuthenticationMechanisms(Features)
  <2>1. i + 1 \in DOMAIN Features /\ Features[i + 1] = offer[i] /\ offer[i] \in Mechanisms
    BY <1>1, <1>2
  <2> QED
    BY <2>1 DEF ParseAuthenticationMechanisms
<1>5. Features # << >>
  BY <1>1, EmptySeq
<1> QED
  BY <1>3, <1>4, <1>5 DEF ParseAuthenticationMechanisms, Supported

\* What n chunks have brought.
Received(n) == Prefix(IF n = 0 THEN 0 ELSE sent[n])

-----------------------------------------------------------------------------
(* The invariant.                                                          *)

\* What the running handler has left to call: SASL's callbacks, the writes that
\* follow them, and all the rest.
Starting   == todo = <<"OnConnect">>
Reading    == todo = <<"OnRead", "Rearm">>
Initiating == todo = <<"Write">>
Rejecting  == todo = <<"Disconnect", "Write", "Rearm">>
Answering  == todo = <<"Write", "Rearm">> \/ todo = <<"OnDisconnect", "Write", "Rearm">>

Plain ==
  {<< >>, <<"Connect">>, <<"OnHostResolved", "SocketConnect">>, <<"SocketConnect">>,
   <<"Read">>, <<"Read", "Rearm">>, <<"Rearm">>,
   <<"OnError", "Disconnect">>, <<"Disconnect">>, <<"OnDisconnect">>,
   <<"OnError", "Disconnect", "Rearm">>, <<"Disconnect", "Rearm">>,
   <<"OnDisconnect", "Rearm">>}

Chosen == mechanism = SetAuthenticationMechanism(Supported)

\* A write comes after the step of SASL that asked for it; the bytes OnRead will be
\* given are still in buffer_.
StackInv ==
  /\ todo \in Plain \/ Starting \/ Reading \/ Initiating \/ Rejecting \/ Answering
  /\ Reading => delivered # << >> /\ buffer = delivered[Len(delivered)]
  /\ Initiating =>
       transaction_state = "kSelectAuthenticationMechanism" /\ text = << >> /\ writes = 0
  /\ Rejecting \/ Answering =>
       transaction_state = "kDecodeBase64Challenge" /\ writes <= 1 /\ Chosen
  /\ Answering => mechanism # "kNone" \/ ~ is_connected

\* Each chunk takes the server some tokens further, and nothing is read that was not sent.
SentInv ==
  /\ offer \in Offers
  /\ sent \in Seq(Nat) /\ Len(sent) = arrived
  /\ \A i \in 1..arrived : /\ sent[i] \in 1..Len(Script)
                           /\ i > 1 => sent[i - 1] < sent[i]
  /\ taken <= arrived
  /\ writes = 0 => delivered = << >>
  /\ writes <= 1 => Len(delivered) <= taken

\* The chunks OnRead is through with.
Heard == IF Reading THEN Len(delivered) - 1 ELSE Len(delivered)

\* Until it has chosen, SASL has all that was received, and not yet the end of the
\* features.
SaslInv ==
  /\ transaction_state \in TransactionStates
  /\ transaction_state = "kInitializeStream" => writes = 0 /\ text = << >>
  /\ transaction_state # "kDecodeBase64Challenge" => mechanism = "unset" /\ ~ malformed
  /\ transaction_state = "kSelectAuthenticationMechanism" =>
       /\ writes <= 1
       /\ ~ Mentions(text, EndOfFeatures)
       /\ writes = 1 => text = Received(Heard)

XInv == StackInv /\ SentInv /\ SaslInv /\ WritesInStep

\* The stacks are told apart by their head and what is below it.
LEMMA PlainTuples ==
  ASSUME NEW stack \in Plain
  PROVE  /\ stack # <<"OnConnect">> /\ stack # <<"OnRead", "Rearm">>
         /\ stack # <<"Write">> /\ stack # <<"Write", "Rearm">>
         /\ stack # <<"Disconnect", "Write", "Rearm">>
         /\ stack # <<"OnDisconnect", "Write", "Rearm">>
<1>1. stack # <<"OnConnect">> /\ stack # <<"OnRead", "Rearm">>
  BY DEF Plain
<1>2. stack # <<"Write">> /\ stack # <<"Write", "Rearm">>
  BY DEF Plain
<1>3. stack # <<"Disconnect", "Write", "Rearm">>
  BY DEF Plain
<1>4. stack # <<"OnDisconnect", "Write", "Rearm">>
  BY DEF Plain
<1> QED
  BY <1>1, <1>2, <1>3, <1>4

LEMMA PlainStacks ==
  ASSUME todo \in Plain
  PROVE  ~ Starting /\ ~ Reading /\ ~ Initiating /\ ~ Rejecting /\ ~ Answering
BY PlainTuples DEF Starting, Reading, Initiating, Rejecting, Answering

LEMMA StacksApart ==
  /\ Starting => ~ Reading /\ ~ Initiating /\ ~ Rejecting /\ ~ Answering
  /\ Reading => ~ Initiating /\ ~ Rejecting /\ ~ Answering
  /\ Initiating => ~ Rejecting /\ ~ Answering
  /\ Rejecting => ~ Answering
BY DEF Starting, Reading, Initiating, Rejecting, Answering

\* What each call leaves to be called.
LEMMA StackCalls ==
  ASSUME StackInv, todo # << >>
  PROVE  /\ Head(todo) = "Connect" => Tail(todo) = << >>
         /\ Head(todo) = "SocketConnect" => Tail(todo) = << >>
         /\ Head(todo) = "Read" => Tail(todo) = << >> \/ Tail(todo) = <<"Rearm">>
         /\ Head(todo) = "Rearm" => Tail(todo) = << >>
         /\ Head(todo) = "OnHostResolved" => Tail(todo) = <<"SocketConnect">>
         /\ Head(todo) = "OnError" =>
              Tail(todo) = <<"Disconnect">> \/ Tail(todo) = <<"Disconnect", "Rearm">>
         /\ Head(todo) = "Write" => \/ Initiating /\ Tail(todo) = << >>
                                    \/ Answering /\ Tail(todo) = <<"Rearm">>
         /\ Head(todo) = "Disconnect" =>
              \/ Tail(todo) = << >> \/ Tail(todo) = <<"Rearm">>
              \/ Rejecting /\ Tail(todo) = <<"Write", "Rearm">>
         /\ Head(todo) = "OnDisconnect" =>
              \/ Tail(todo) = << >> \/ Tail(todo) = <<"Rearm">>
              \/ Answering /\ Tail(todo) = <<"Write", "Rearm">>
         /\ Head(todo) = "OnConnect" => Starting /\ Tail(todo) = << >>
         /\ Head(todo) = "OnRead" => Reading /\ Tail(todo) = <<"Rearm">>
         /\ Head(todo) \notin {"OnConnect", "OnRead"} => ~ Starting /\ ~ Reading
<1>1. CASE todo \in Plain
  <2>1. CASE todo = <<"Connect">>
    BY <2>1 DEF Starting, Reading
  <2>2. CASE todo = <<"OnHostResolved", "SocketConnect">>
    BY <2>2 DEF Starting, Reading
  <2>3. CASE todo = <<"SocketConnect">>
    BY <2>3 DEF Starting, Reading
  <2>4. CASE todo = <<"Read">>
    BY <2>4 DEF Starting, Reading
  <2>5. CASE todo = <<"Read", "Rearm">>
    BY <2>5 DEF Starting, Reading
  <2>6. CASE todo = <<"Rearm">>
    BY <2>6 DEF Starting, Reading
  <2>7. CASE todo = <<"OnError", "Disconnect">>
    BY <2>7 DEF Starting, Reading
  <2>8. CASE todo = <<"Disconnect">>
    BY <2>8 DEF Starting, Reading
  <2>9. CASE todo = <<"OnDisconnect">>
    BY <2>9 DEF Starting, Reading
  <2>10. CASE todo = <<"OnError", "Disconnect", "Rearm">>
    BY <2>10 DEF Starting, Reading
  <2>11. CASE todo = <<"Disconnect", "Rearm">>
    BY <2>11 DEF Starting, Reading
  <2>12. CASE todo = <<"OnDisconnect", "Rearm">>
    BY <2>12 DEF Starting, Reading
  <2> QED
    BY <1>1, <2>1, <2>2, <2>3, <2>4, <2>5, <2>6, <2>7, <2>8, <2>9, <2>10, <2>11, <2>12 DEF Plain
<1>2. CASE Starting
  BY <1>2 DEF Starting, Reading
<1>3. CASE Reading
  BY <1>3 DEF Starting, Reading
<1>4. CASE Initiating
  BY <1>4 DEF Initiating, Starting, Reading
<1>5. CASE Rejecting
  BY <1>5 DEF Rejecting, Starting, Reading
<1>6. CASE Answering
  <2>1. CASE todo = <<"Write", "Rearm">>
    BY <1>6, <2>1 DEF Starting, Reading
  <2>2. CASE todo = <<"OnDisconnect", "Write", "Rearm">>
    BY <1>6, <2>2 DEF Starting, Reading
  <2> QED
    BY <1>6, <2>1, <2>2 DEF Answering
<1> QED
  BY <1>1, <1>2, <1>3, <1>4, <1>5, <1>6 DEF StackInv

-----------------------------------------------------------------------------
(* The steps.                                                              *)

LEMMA SaslKept ==
  ASSUME SaslInv, Heard' = Heard, UNCHANGED <<sasl, server, writes>>
  PROVE  SaslInv'
<1>1. Received(Heard)' = Received(Heard)
  BY DEF Received, Prefix, Script, Features, server
<1> QED
  BY <1>1 DEF SaslInv, sasl

\* Steps in which SASL has no part: the stack was not one of OnRead's and becomes a
\* plain one, while a read may receive a chunk.
LEMMA PlainStep ==
  ASSUME XInv, ~ Reading, todo' \in Plain,
         UNCHANGED <<sasl, server, writes, delivered, arrived, peer_closed, thrown>>,
         taken \in Nat, taken' \in Nat, Len(delivered) \in Nat, taken <= taken',
         taken' <= arrived
  PROVE  XInv'
<1> USE DEF XInv
<1>1. ~ Starting' /\ ~ Reading' /\ ~ Initiating' /\ ~ Rejecting' /\ ~ Answering'
  <2>1. /\ todo' # <<"OnConnect">> /\ todo' # <<"OnRead", "Rearm">>
        /\ todo' # <<"Write">> /\ todo' # <<"Write", "Rearm">>
        /\ todo' # <<"Disconnect", "Write", "Rearm">>
        /\ todo' # <<"OnDisconnect", "Write", "Rearm">>
    BY PlainTuples, Zenon
  <2> QED
    BY <2>1 DEF Starting, Reading, Initiating, Rejecting, Answering
<1>2. StackInv'
  BY <1>1 DEF StackInv, Plain
<1>3. SentInv'
  BY DEF SentInv, server, Script, Features
<1>4. SaslInv'
  BY <1>1 DEF SaslInv, Heard, Received, Prefix, Script, Features, server, sasl
<1>5. WritesInStep'
  BY DEF WritesInStep, Supported, server, sasl
<1> QED
  BY <1>2, <1>3, <1>4, <1>5

\* Steps of the network, and of the io_service between handlers.
LEMMA UnseenStep ==
  ASSUME XInv,
         UNCHANGED <<todo, sasl, server, is_connected, writes, delivered, arrived, thrown>>,
         buffer' = buffer \/ ~ Reading, peer_closed => peer_closed',
         taken \in Nat, taken' \in Nat, Len(delivered) \in Nat, taken <= taken',
         taken' <= arrived
  PROVE  XInv'
<1> USE DEF XInv
<1>1. /\ Starting' = Starting /\ Reading' = Reading /\ Initiating' = Initiating
      /\ Rejecting' = Rejecting /\ Answering' = Answering
  BY DEF Starting, Reading, Initiating, Rejecting, Answering
<1>2. StackInv'
  BY <1>1 DEF StackInv, Chosen, Supported, sasl, server
<1>3. SentInv'
  BY DEF SentInv, server, Script, Features
<1>4. SaslInv'
  BY <1>1 DEF SaslInv, Heard, Received, Prefix, Script, Features, server, sasl
<1>5. WritesInStep'
  BY DEF WritesInStep, Supported, server, sasl
<1> QED
  BY <1>2, <1>3, <1>4, <1>5

\* The calls that do not write, beginning with the one innermost.
LEMMA CallStep ==
  ASSUME TypeOK, TypeOK', XInv, Overrides = XMPPOverrides,
         Inherited(\/ Connect \/ SkipConnect \/ Read \/ Rearm
                   \/ \E cb \in Callbacks \ {"OnConnect", "OnRead", "OnDisconnect"} :
                        Callback(cb))
  PROVE  XInv'
<1> USE DEF Inherited, XInv
<1>0. /\ Len(delivered) \in Nat /\ taken \in Nat /\ taken' \in Nat /\ arrived \in Nat
      /\ taken <= arrived
  BY LenProperties DEF TypeOK, SentInv
<1>1. CASE Connect \/ SkipConnect
  <2>1. todo' = << >> /\ ~ Reading
    BY <1>1, StackCalls DEF Connect, SkipConnect, Calling, Return
  <2>2. UNCHANGED <<sasl, server, writes, delivered, arrived, peer_closed, thrown, taken>>
    BY <1>1 DEF Connect, SkipConnect, session, kernel
  <2>3. todo' \in Plain
    BY <2>1 DEF Plain
  <2> QED
    BY <1>0, <2>1, <2>2, <2>3, PlainStep
<1>2. CASE Read \/ Rearm
  <2>1. (todo' = << >> \/ todo' = <<"Rearm">>) /\ ~ Reading
    BY <1>2, StackCalls DEF Read, Rearm, Calling, Return
  <2>2. UNCHANGED <<sasl, server, writes, delivered, arrived, peer_closed, thrown>>
    BY <1>2 DEF Read, Rearm, StartRead, Receive, session, kernel
  <2>3. taken' = taken \/ (taken < arrived /\ taken' = taken + 1)
    <3>1. StartRead => taken' = taken \/ (taken < arrived /\ taken' = taken + 1)
      BY DEF StartRead, Receive, Readable
    <3>2. StartRead \/ UNCHANGED taken
      BY <1>2 DEF Read, Rearm
    <3> QED
      BY <3>1, <3>2
  <2>4. taken <= taken' /\ taken' <= arrived
    BY <1>0, <2>3
  <2>5. todo' \in Plain
    BY <2>1 DEF Plain
  <2> QED
    BY <1>0, <2>1, <2>2, <2>4, <2>5, PlainStep
<1>3. CASE \E cb \in Callbacks \ {"OnConnect", "OnRead", "OnDisconnect"} : Callback(cb)
  <2>1. PICK cb \in {"OnHostResolved", "OnError"} : Callback(cb)
    BY <1>3 DEF Callbacks
  <2>2. Overrides[cb] = {<< >>}
    BY <2>1 DEF XMPPOverrides, Callbacks
  <2>3. todo' = << >> \o Tail(todo) /\ Calling(cb)
    BY <2>1, <2>2 DEF Callback
  <2>4. Tail(todo) \in Seq(Frames)
    BY <2>3, HeadTailProperties DEF TypeOK, Calling
  <2>5. << >> \o Tail(todo) = Tail(todo)
    BY <2>4, ConcatEmptySeq
  <2>6. /\ \/ todo' = <<"SocketConnect">> \/ todo' = <<"Disconnect">>
           \/ todo' = <<"Disconnect", "Rearm">>
        /\ ~ Reading
    BY <2>1, <2>3, <2>5, StackCalls DEF Calling
  <2>7. UNCHANGED <<sasl, server, writes, delivered, arrived, peer_closed, thrown, taken>>
    BY <2>1 DEF Callback, session, kernel
  <2>8. todo' \in Plain
    BY <2>6 DEF Plain
  <2> QED
    BY <1>0, <2>6, <2>7, <2>8, PlainStep
<1> QED
  BY <1>1, <1>2, <1>3

\* SASL's choice stands until the writes that follow it are made; a client without a
\* mechanism has disconnected by then.
LEMMA FarewellStep ==
  ASSUME TypeOK, TypeOK', XInv, Overrides = XMPPOverrides,
         Inherited(Disconnect \/ Callback("OnDisconnect"))
  PROVE  XInv'
<1> USE DEF Inherited, XInv
<1>0. /\ Len(delivered) \in Nat /\ taken \in Nat /\ arrived \in Nat /\ taken <= arrived
      /\ taken' = taken
  BY LenProperties DEF TypeOK, SentInv, Disconnect, Callback
<1>1. UNCHANGED <<sasl, server, writes, delivered, arrived, peer_closed, thrown, taken, buffer>>
  BY DEF Disconnect, Callback, session, kernel
<1>2. ASSUME Answering', Rejecting \/ Answering, is_connected' => Answering /\ is_connected
      PROVE  XInv'
  <2>1. ~ Starting' /\ ~ Reading' /\ ~ Initiating' /\ ~ Rejecting' /\ ~ Reading
    BY <1>2, StacksApart DEF Starting, Reading, Initiating, Rejecting, Answering
  <2>2. StackInv'
    BY <1>1, <1>2, <2>1 DEF StackInv, Chosen, Supported, sasl, server
  <2>3. SentInv'
    BY <1>1 DEF SentInv, server, Script, Features
  <2>4. SaslInv'
    BY <1>1, <2>1, SaslKept DEF Heard
  <2>5. WritesInStep'
    BY <1>1 DEF WritesInStep, Supported, server, sasl
  <2> QED
    BY <2>2, <2>3, <2>4, <2>5
<1>3. CASE Disconnect
  <2>1. Calling("Disconnect") /\ ~ is_connected' /\ todo' = <<"OnDisconnect">> \o Tail(todo)
    BY <1>3 DEF Disconnect, Close
  <2>2. CASE Rejecting /\ Tail(todo) = <<"Write", "Rearm">>
    <3>1. <<"OnDisconnect">> \o <<"Write", "Rearm">> = <<"OnDisconnect", "Write", "Rearm">>
      BY ShortConcats
    <3> QED
      BY <1>2, <2>1, <2>2, <3>1 DEF Answering
  <2>3. CASE Tail(todo) = << >> \/ Tail(todo) = <<"Rearm">>
    <3>1. /\ <<"OnDisconnect">> \o << >> = <<"OnDisconnect">>
          /\ <<"OnDisconnect">> \o <<"Rearm">> = <<"OnDisconnect", "Rearm">>
      BY ShortConcats
    <3>2. todo' \in Plain
      BY <2>1, <2>3, <3>1 DEF Plain
    <3>3. ~ Reading
      BY <2>1, StackCalls DEF Calling
    <3> QED
      BY <1>0, <1>1, <3>2, <3>3, PlainStep
  <2> QED
    BY <2>1, <2>2, <2>3, StackCalls DEF Calling
<1>4. CASE Callback("OnDisconnect")
  <2>1. Calling("OnDisconnect") /\ todo' = << >> \o Tail(todo) /\ is_connected' = is_connected
    BY <1>4 DEF Callback, XMPPOverrides, Callbacks
  <2>2. Tail(todo) \in Seq(Frames)
    BY <2>1, HeadTailProperties DEF TypeOK, Calling
  <2>3. todo' = Tail(todo)
    BY <2>1, <2>2, ConcatEmptySeq
  <2>4. CASE Answering /\ Tail(todo) = <<"Write", "Rearm">>
    BY <1>2, <2>1, <2>3, <2>4 DEF Answering
  <2>5. CASE Tail(todo) = << >> \/ Tail(todo) = <<"Rearm">>
    <3>1. todo' \in Plain /\ ~ Reading
      BY <2>1, <2>3, <2>5, StackCalls DEF Plain, Calling
    <3> QED
      BY <1>0, <1>1, <3>1, PlainStep
  <2> QED
    BY <2>1, <2>4, <2>5, StackCalls DEF Calling
<1> QED
  BY <1>3, <1>4

\* The stream is initiated by the first write, and the mechanism that was chosen is
\* the second; only the peer's close lets a write throw.
LEMMA XWriteStep ==
  ASSUME TypeOK, TypeOK', XInv, BelievedOpen, Inherited(Write)
  PROVE  XInv'
<1> USE DEF Inherited, XInv
<1>0. /\ Len(delivered) \in Nat /\ taken \in Nat /\ arrived \in Nat /\ taken <= arrived
      /\ taken' = taken /\ writes \in Nat
  BY LenProperties DEF TypeOK, SentInv, Write
<1>1. UNCHANGED <<sasl, server, delivered, arrived, peer_closed, taken, buffer, is_connected>>
  BY DEF Write, session, kernel
<1>2. Calling("Write") /\ ~ Starting /\ ~ Reading
  BY StackCalls DEF Write, Calling
<1>3. \/ Initiating /\ Tail(todo) = << >>
      \/ Answering /\ Tail(todo) = <<"Rearm">>
  BY <1>2, StackCalls DEF Calling
<1>4. CASE ~ is_connected /\ Return /\ UNCHANGED <<writes, thrown>>
  <2>1. todo' \in Plain
    BY <1>3, <1>4 DEF Return, Plain
  <2> QED
    BY <1>0, <1>1, <1>2, <1>4, <2>1, PlainStep
<1>5. CASE is_connected /\ thrown' = TRUE /\ WriteFails /\ UNCHANGED <<todo, writes>>
  <2>1. ~ Closing
    <3>1. CASE Initiating
      BY <3>1 DEF Closing, Initiating, Mentions
    <3>2. CASE Answering
      <4>1. todo = <<"Write", "Rearm">>
        BY <1>2, <3>2 DEF Answering, Calling
      <4> QED
        BY <4>1 DEF Closing, Mentions
    <3> QED
      BY <1>3, <3>1, <3>2
  <2>2. peer_closed
    BY <1>5, <2>1 DEF BelievedOpen, WriteFails
  <2>3. /\ Starting' = Starting /\ Reading' = Reading /\ Initiating' = Initiating
        /\ Rejecting' = Rejecting /\ Answering' = Answering
    BY <1>5 DEF Starting, Reading, Initiating, Rejecting, Answering
  <2>4. StackInv'
    BY <1>1, <1>5, <2>3 DEF StackInv, Chosen, Supported, sasl, server
  <2>5. SentInv'
    BY <1>1, <1>5 DEF SentInv, server, Script, Features
  <2>6. SaslInv'
    BY <1>1, <1>5, <2>3, SaslKept DEF Heard
  <2>7. WritesInStep'
    BY <1>1, <1>5, <2>2 DEF WritesInStep, Supported, server, sasl
  <2> QED
    BY <2>4, <2>5, <2>6, <2>7
<1>6. CASE /\ is_connected /\ sock = "established"
           /\ todo' = <<"Read">> \o Tail(todo) /\ writes' = writes + 1 /\ UNCHANGED thrown
  <2>1. todo' = <<"Read">> \/ todo' = <<"Read", "Rearm">>
    <3>1. /\ <<"Read">> \o << >> = <<"Read">>
          /\ <<"Read">> \o <<"Rearm">> = <<"Read", "Rearm">>
      BY ShortConcats
    <3> QED
      BY <1>3, <1>6, <3>1
  <2>2. todo' \in Plain /\ ~ Reading'
    BY <2>1 DEF Plain, Reading
  <2>3. ~ Starting' /\ ~ Initiating' /\ ~ Rejecting' /\ ~ Answering'
    BY <2>2 DEF Plain, Starting, Initiating, Rejecting, Answering
  <2>4. StackInv'
    BY <2>2, <2>3 DEF StackInv
  <2>5. SentInv'
    BY <1>0, <1>1, <1>6 DEF SentInv, server, Script, Features
  <2>6. /\ Initiating => transaction_state = "kSelectAuthenticationMechanism"
                         /\ text = << >> /\ writes = 0 /\ delivered = << >>
        /\ Answering => /\ transaction_state = "kDecodeBase64Challenge"
                        /\ writes <= 1 /\ Chosen /\ mechanism # "kNone"
    BY <1>6 DEF StackInv, SentInv
  <2>7. SaslInv'
    <3>1. CASE Answering
      BY <1>0, <1>1, <1>6, <2>6, <3>1 DEF SaslInv, sasl
    <3>2. CASE Initiating
      <4>1. Received(0) = << >>
        BY SubSeqEmpty DEF Received, Prefix
      <4>2. Received(Heard)' = << >>
        <5>1. Heard' = 0
          BY <1>1, <2>2, <2>6, <3>2 DEF Heard
        <5> QED
          BY <1>1, <4>1, <5>1 DEF Received, Prefix, Script, Features, server
      <4>3. ~ Mentions(<< >>, EndOfFeatures)
        BY DEF Mentions
      <4> QED
        BY <1>0, <1>1, <1>6, <2>6, <3>2, <4>2, <4>3 DEF SaslInv, sasl
    <3> QED
      BY <1>3, <3>1, <3>2
  <2>8. WritesInStep'
    BY <1>0, <1>1, <1>3, <1>6, <2>6 DEF WritesInStep, Supported, Chosen, server, sasl
  <2> QED
    BY <2>4, <2>5, <2>7, <2>8
<1> QED
  BY <1>4, <1>5, <1>6 DEF Write

\* The next chunk continues what was received.
LEMMA NextReceived ==
  ASSUME SentInv, arrived \in Nat, NEW n \in 1..arrived
  PROVE  /\ Received(n - 1) \o Chunk(n) = Received(n)
         /\ Received(n) = Prefix(sent[n]) /\ sent[n] \in 0..Len(Script)
<1>1. Script \in Seq(Tokens) /\ Len(Script) \in Nat
  BY ScriptIs DEF SentInv
<1>2. sent[n] \in 1..Len(Script)
  BY DEF SentInv
<1> DEFINE k == IF n = 1 THEN 0 ELSE sent[n - 1]
<1>3. k \in 0..sent[n]
  <2>1. CASE n = 1
    BY <1>1, <1>2, <2>1
  <2>2. CASE n # 1
    <3>1. n - 1 \in 1..arrived /\ n > 1
      BY <2>2
    <3>2. sent[n - 1] \in 1..Len(Script) /\ sent[n - 1] < sent[n]
      BY <3>1 DEF SentInv
    <3> QED
      BY <1>1, <1>2, <2>2, <3>2
  <2> QED
    BY <2>1, <2>2
<1>4. Received(n - 1) = SubSeq(Script, 1, k)
  <2>1. k = IF n - 1 = 0 THEN 0 ELSE sent[n - 1]
    OBVIOUS
  <2> QED
    BY <2>1 DEF Received, Prefix
<1>5. Chunk(n) = SubSeq(Script, k + 1, sent[n])
  <2>1. k + 1 = IF n = 1 THEN 1 ELSE sent[n - 1] + 1
    OBVIOUS
  <2> QED
    BY <2>1 DEF Chunk
<1>6. Received(n) = SubSeq(Script, 1, sent[n])
  <2>1. n # 0
    OBVIOUS
  <2> QED
    BY <2>1 DEF Received, Prefix
<1> HIDE DEF k
<1>7. SubSeq(Script, 1, k) \o SubSeq(Script, k + 1, sent[n]) = SubSeq(Script, 1, sent[n])
  <2>1. 1 \in 1..Len(Script) + 1 /\ k \in 1 - 1..Len(Script) /\ sent[n] \in k..Len(Script)
    BY <1>1, <1>2, <1>3
  <2> QED
    BY <1>1, <2>1, ConcatAdjacentSubSeq
<1>8. sent[n] \in 0..Len(Script)
  BY <1>1, <1>2
<1>9. Received(n - 1) \o Chunk(n) = Received(n)
  BY <1>4, <1>5, <1>6, <1>7
<1> QED
  BY <1>6, <1>8, <1>9 DEF Prefix

\* What a callback of SASL does to the rest: it returns, with calls of its own.
LEMMA UpdateKeeps ==
  ASSUME NEW cb, NEW tokens, Update(cb, tokens), UNCHANGED server
  PROVE  /\ Calling(cb)
         /\ UNCHANGED <<is_connected, buffer, taken, thrown, arrived, peer_closed, conn,
                        writes, delivered, offer, sent>>
BY DEF Update, kernel, session, server

\* The parts of the invariant SASL itself has no part in.
LEMMA UpdateSent ==
  ASSUME XInv, UNCHANGED <<taken, arrived, writes, delivered, offer, sent>>
  PROVE  SentInv'
BY DEF XInv, SentInv, Script, Features

\* In OnConnect SASL initiates the stream, once; later it has nothing new to read.
LEMMA XOnConnectStep ==
  ASSUME TypeOK, XInv, XMPPOnConnect
  PROVE  XInv' /\ UNCHANGED mechanism
<1> USE DEF XInv
<1>1. /\ Calling("OnConnect")
      /\ UNCHANGED <<is_connected, buffer, taken, thrown, arrived, peer_closed, conn,
                     writes, delivered, offer, sent>>
  BY UpdateKeeps DEF XMPPOnConnect
<1>2. Starting /\ Tail(todo) = << >> /\ ~ Reading
  BY <1>1, StackCalls, StacksApart DEF Calling
<1>3. ~ Initiating /\ ~ Rejecting /\ ~ Answering
  BY <1>2, StacksApart
<1>4. SentInv'
  BY <1>1, UpdateSent
<1>5. /\ << >> \o << >> = << >> /\ <<"Write">> \o << >> = <<"Write">>
  BY ShortConcats
<1>6. ASSUME UNCHANGED mechanism PROVE WritesInStep'
  BY <1>1, <1>6 DEF WritesInStep, Supported
<1>7. CASE HandleInitializeStream(text) /\ UNCHANGED malformed
  <2>1. todo' = <<"Write">> /\ text' = << >> /\ writes' = 0 /\ delivered' = << >>
        /\ transaction_state' = "kSelectAuthenticationMechanism"
        /\ mechanism' = "unset" /\ ~ malformed'
    BY <1>1, <1>2, <1>5, <1>7 DEF HandleInitializeStream, Returns, SaslInv, SentInv
  <2>2. Initiating' /\ ~ Reading' /\ ~ Rejecting' /\ ~ Answering'
    BY <2>1 DEF Initiating, Reading, Rejecting, Answering
  <2>3. StackInv'
    BY <2>1, <2>2 DEF StackInv
  <2>4. ~ Mentions(<< >>, EndOfFeatures)
    BY DEF Mentions
  <2>5. SaslInv'
    BY <2>1, <2>4 DEF SaslInv, TransactionStates
  <2>6. UNCHANGED mechanism
    BY <1>7 DEF HandleInitializeStream
  <2> QED
    BY <1>4, <1>6, <2>3, <2>5, <2>6
<1>8. ASSUME todo' = << >>, UNCHANGED <<transaction_state, mechanism, malformed>>,
             text' = text \/ transaction_state = "kDecodeBase64Challenge"
      PROVE  XInv'
  <2>1. ~ Initiating' /\ ~ Reading' /\ ~ Rejecting' /\ ~ Answering'
    BY <1>8 DEF Initiating, Reading, Rejecting, Answering
  <2>2. StackInv'
    BY <1>8, <2>1 DEF StackInv, Plain
  <2>3. Received(Heard)' = Received(Heard)
    BY <1>1, <1>2, <2>1 DEF Received, Prefix, Script, Features, Heard
  <2>4. ASSUME transaction_state = "kDecodeBase64Challenge" PROVE SaslInv'
    BY <1>8, <2>4 DEF SaslInv
  <2>5. ASSUME text' = text PROVE SaslInv'
    BY <1>1, <1>8, <2>3, <2>5 DEF SaslInv
  <2> QED
    BY <1>4, <1>6, <1>8, <2>2, <2>4, <2>5
<1>9. CASE transaction_state = "kSelectAuthenticationMechanism"
  <2>1. ExtractAuthenticationMechanismResponse(text) = [stanza |-> << >>, rest |-> text]
    BY <1>9 DEF SaslInv, ExtractAuthenticationMechanismResponse, ExtractXML, EndOfFeatures
  <2>2. ~ ParseThrows(text) /\ ~ HandleInitializeStream(text) /\ ~ HandleDecodeBase64Challenge(text)
    BY <1>9, <2>1 DEF ParseThrows, HandleInitializeStream, HandleDecodeBase64Challenge
  <2>3. HandleSelectAuthenticationMechanism(text) /\ UNCHANGED malformed
    BY <2>2 DEF XMPPOnConnect, Update
  <2>4. Returns(<< >>) /\ UNCHANGED <<transaction_state, mechanism>> /\ text' = text
    BY <2>1, <2>3 DEF HandleSelectAuthenticationMechanism
  <2> QED
    BY <1>2, <1>5, <1>8, <2>3, <2>4 DEF Returns
<1>10. CASE HandleDecodeBase64Challenge(text) /\ UNCHANGED malformed
  BY <1>2, <1>5, <1>8, <1>10 DEF HandleDecodeBase64Challenge, Returns
<1>11. CASE ParseThrows(text) /\ UNCHANGED todo /\ transaction_state = "kDecodeBase64Challenge"
  <2>1. UNCHANGED <<transaction_state, mechanism>>
    BY <1>11 DEF ParseThrows
  <2>2. Starting' /\ ~ Initiating' /\ ~ Reading' /\ ~ Rejecting' /\ ~ Answering'
    BY <1>2, <1>3, <1>11 DEF Starting, Initiating, Reading, Rejecting, Answering
  <2>3. StackInv' /\ SaslInv'
    BY <1>11, <2>1, <2>2 DEF StackInv, SaslInv, TransactionStates
  <2> QED
    BY <1>4, <1>6, <2>1, <2>3
<1>12. \/ transaction_state = "kSelectAuthenticationMechanism"
       \/ HandleInitializeStream(text) /\ UNCHANGED malformed
       \/ HandleDecodeBase64Challenge(text) /\ UNCHANGED malformed
       \/ ParseThrows(text) /\ UNCHANGED todo /\ transaction_state = "kDecodeBase64Challenge"
  BY DEF XMPPOnConnect, Update, ParseThrows, HandleSelectAuthenticationMechanism
<1> QED
  BY <1>7, <1>8, <1>9, <1>10, <1>11, <1>12

\* In OnRead SASL has the chunks up to this one, in order, and chooses when the features
\* are complete: no choice is made by less, and a server without a mechanism is left.
LEMMA XOnReadStep ==
  ASSUME TypeOK, PatientInv, XInv, XMPPOnRead
  PROVE  XInv' /\ (mechanism' # mechanism => mechanism' = SetAuthenticationMechanism(Supported))
<1> USE DEF XInv
<1>1. PICK bytes \in BytesRead : Update("OnRead", text \o bytes) /\ UNCHANGED server
  BY DEF XMPPOnRead
<1> DEFINE tokens == text \o bytes
           n == Len(delivered)
<1> HIDE DEF tokens
<1>2. /\ Calling("OnRead")
      /\ UNCHANGED <<is_connected, buffer, taken, thrown, arrived, peer_closed, conn,
                     writes, delivered, offer, sent>>
  BY <1>1, UpdateKeeps
<1>3. Reading /\ Tail(todo) = <<"Rearm">>
  BY <1>2, StackCalls DEF Calling
<1>4. ~ Starting /\ ~ Initiating /\ ~ Rejecting /\ ~ Answering
  BY <1>3, StacksApart
<1>5. SentInv'
  BY <1>2, UpdateSent
<1>6. writes # 0 /\ writes \in Nat /\ delivered # << >> /\ transaction_state # "kInitializeStream"
  BY <1>3 DEF StackInv, SentInv, SaslInv, TypeOK
<1>7. ASSUME UNCHANGED mechanism PROVE WritesInStep'
  BY <1>2, <1>7 DEF WritesInStep, Supported
<1>8. ~ HandleInitializeStream(tokens)
  BY <1>6 DEF HandleInitializeStream
<1>9. << >> \o <<"Rearm">> = <<"Rearm">> /\ <<"Write">> \o <<"Rearm">> = <<"Write", "Rearm">>
      /\ <<"Disconnect", "Write">> \o <<"Rearm">> = <<"Disconnect", "Write", "Rearm">>
  BY ShortConcats
<1>10. ASSUME todo' = <<"Rearm">>
       PROVE  StackInv' /\ ~ Reading'
  <2>1. ~ Initiating' /\ ~ Reading' /\ ~ Rejecting' /\ ~ Answering'
    BY <1>10 DEF Initiating, Reading, Rejecting, Answering
  <2> QED
    BY <1>10, <2>1 DEF StackInv, Plain
<1>11. CASE transaction_state = "kDecodeBase64Challenge"
  <2>1. CASE HandleDecodeBase64Challenge(tokens) /\ UNCHANGED malformed
    <3>1. todo' = <<"Rearm">> /\ UNCHANGED <<transaction_state, mechanism>>
      BY <1>3, <1>9, <2>1 DEF HandleDecodeBase64Challenge, Returns
    <3>2. SaslInv'
      BY <1>11, <3>1 DEF SaslInv
    <3> QED
      BY <1>5, <1>7, <1>10, <3>1, <3>2
  <2>2. CASE ParseThrows(tokens) /\ UNCHANGED todo
    <3>1. UNCHANGED <<transaction_state, mechanism>>
      BY <2>2 DEF ParseThrows
    <3>2. Reading' /\ ~ Initiating' /\ ~ Rejecting' /\ ~ Answering'
      BY <1>3, <1>4, <2>2 DEF Initiating, Reading, Rejecting, Answering
    <3>3. StackInv'
      BY <1>2, <1>3, <3>2 DEF StackInv
    <3>4. SaslInv'
      BY <1>11, <3>1 DEF SaslInv
    <3> QED
      BY <1>5, <1>7, <3>1, <3>3, <3>4
  <2> QED
    BY <1>1, <1>8, <1>11, <2>1, <2>2
    DEF Update, HandleSelectAuthenticationMechanism, tokens
<1>12. CASE transaction_state = "kSelectAuthenticationMechanism"
  <2>1. writes = 1 /\ text = Received(n - 1)
    BY <1>3, <1>6, <1>12 DEF SaslInv, Heard
  <2>2. n \in 1..arrived /\ n \in DOMAIN delivered /\ arrived \in Nat
    <3>1. arrived \in Nat /\ taken \in Nat
      BY DEF TypeOK
    <3>2. n \in Nat \ {0} /\ DOMAIN delivered = 1..n
      <4>1. delivered \in Seq(Nat \X Nat)
        BY DEF TypeOK
      <4> QED
        BY <1>6, <4>1, EmptySeq, LenProperties
    <3>3. n <= taken /\ taken <= arrived
      BY <2>1 DEF SentInv
    <3> QED
      BY <3>1, <3>2, <3>3
  <2>3. tokens = Received(n)
    <3>1. buffer = <<conn, n>>
      BY <1>3, <2>1, <2>2 DEF StackInv, PatientInv, BufferKept, DeliveredInOrder
    <3>2. bytes = Chunk(n)
      BY <1>1, <3>1 DEF BytesRead
    <3> QED
      BY <2>1, <2>2, <3>2, NextReceived DEF tokens
  <2> DEFINE m == sent[n]
  <2>4. tokens = Prefix(m) /\ m \in 0..Len(Script) /\ offer \in Offers
    BY <2>2, <2>3, NextReceived DEF SentInv
  <2> HIDE DEF m
  <2>5. m \in Nat /\ FeaturesEnd \in Nat
    BY <2>4, ScriptIs DEF FeaturesEnd
  <2> DEFINE x == ExtractAuthenticationMechanismResponse(tokens)
  <2>6. /\ m >= FeaturesEnd => x.stanza = Features
        /\ m < FeaturesEnd => x = [stanza |-> << >>, rest |-> tokens]
    BY <2>4, FeaturesExtracted
  <2>7. x.stanza = << >> \/ x.stanza = Features
    BY <2>5, <2>6
  <2>8. HandleSelectAuthenticationMechanism(tokens) /\ UNCHANGED malformed
    <3>1. ~ ParseThrows(tokens)
      BY <1>12, <2>7 DEF ParseThrows
    <3>2. ~ HandleDecodeBase64Challenge(tokens)
      BY <1>12 DEF HandleDecodeBase64Challenge
    <3> QED
      BY <1>1, <1>8, <3>1, <3>2 DEF Update, tokens
  <2>9. Features # << >> /\ ParseAuthenticationMechanisms(Features) = Supported
    BY <2>4, FeaturesParsed
  <2>10. CASE m < FeaturesEnd
    <3>1. x = [stanza |-> << >>, rest |-> tokens]
      BY <2>6, <2>10
    <3>2. todo' = <<"Rearm">> /\ UNCHANGED <<transaction_state, mechanism>> /\ text' = tokens
      <4>1. x.stanza = << >> /\ x.rest = tokens
        BY <3>1
      <4>2. Returns(<< >>) /\ UNCHANGED <<transaction_state, mechanism>> /\ text' = tokens
        BY <2>8, <4>1 DEF HandleSelectAuthenticationMechanism
      <4> QED
        BY <1>3, <1>9, <4>2 DEF Returns
    <3>3. StackInv' /\ ~ Reading'
      BY <1>10, <3>2
    <3>4. ~ Mentions(tokens, EndOfFeatures)
      BY <2>4, <2>5, <2>10, PrefixIs
    <3>5. Received(Heard)' = tokens
      <4>1. Heard' = n
        BY <1>2, <3>3 DEF Heard
      <4> QED
        BY <1>2, <2>3, <4>1 DEF Received, Prefix, Script, Features
    <3>6. SaslInv'
      BY <1>2, <1>12, <2>1, <2>8, <3>2, <3>4, <3>5 DEF SaslInv
    <3> QED
      BY <1>5, <1>7, <3>2, <3>3, <3>6
  <2>11. CASE m >= FeaturesEnd
    <3>1. x.stanza = Features /\ x.stanza # << >>
      BY <2>6, <2>9, <2>11
    <3>2. /\ mechanism' = SetAuthenticationMechanism(Supported)
          /\ todo' = SelectCalls(mechanism') \o <<"Rearm">>
          /\ transaction_state' = "kDecodeBase64Challenge"
      BY <1>3, <2>8, <2>9, <3>1 DEF HandleSelectAuthenticationMechanism, Returns
    <3>3. Chosen'
      BY <1>2, <3>2 DEF Chosen, Supported
    <3>4. /\ mechanism' = "kNone" => Rejecting' /\ ~ Answering'
          /\ mechanism' # "kNone" => ~ Rejecting' /\ Answering'
          /\ ~ Reading' /\ ~ Initiating'
      <4>1. CASE mechanism' = "kNone"
        <5>1. todo' = <<"Disconnect", "Write", "Rearm">>
          BY <1>9, <3>2, <4>1 DEF SelectCalls
        <5> QED
          BY <4>1, <5>1 DEF Rejecting, Answering, Reading, Initiating
      <4>2. CASE mechanism' # "kNone"
        <5>1. todo' = <<"Write", "Rearm">>
          BY <1>9, <3>2, <4>2 DEF SelectCalls
        <5> QED
          BY <4>2, <5>1 DEF Rejecting, Answering, Reading, Initiating
      <4> QED
        BY <4>1, <4>2
    <3>5. StackInv'
      BY <1>2, <2>1, <3>2, <3>3, <3>4 DEF StackInv
    <3>6. SaslInv'
      BY <3>2 DEF SaslInv, TransactionStates
    <3>7. WritesInStep'
      BY <1>2, <2>1 DEF WritesInStep
    <3> QED
      BY <1>5, <3>2, <3>5, <3>6, <3>7
  <2> QED
    BY <2>5, <2>10, <2>11
<1> QED
  BY <1>6, <1>11, <1>12 DEF SaslInv, TransactionStates

\* A new connection: the server starts over, SASL does not.
LEMMA XSocketConnectStep ==
  ASSUME TypeOK, TypeOK', XInv, XMPPSocketConnect
  PROVE  XInv'
<1> USE DEF XInv
<1>1. Calling("SocketConnect") /\ todo' = << >> /\ ~ Reading
  BY StackCalls DEF XMPPSocketConnect, SocketConnect, Calling, Return
<1>2. todo' \in Plain
  BY <1>1 DEF Plain
<1>3. CASE sock = "closed"
  <2>1. /\ conn' = conn + 1 /\ arrived' = 0 /\ taken' = 0 /\ writes' = 0 /\ delivered' = << >>
        /\ thrown' = FALSE /\ UNCHANGED sasl
    BY <1>1, <1>3 DEF XMPPSocketConnect, SocketConnect, Calling, TypeOK
  <2>2. conn' # conn
    BY <2>1 DEF TypeOK
  <2>3. offer' \in Offers /\ sent' = << >>
    BY <2>2 DEF XMPPSocketConnect
  <2>4. ~ Reading' /\ ~ Initiating' /\ ~ Rejecting' /\ ~ Answering'
    BY <1>1 DEF Initiating, Reading, Rejecting, Answering
  <2>5. StackInv'
    BY <1>2, <2>4 DEF StackInv
  <2>6. SentInv'
    <3>1. sent' \in Seq(Nat) /\ Len(sent') = 0 /\ Len(delivered') = 0
      BY <2>1, <2>3
    <3>2. 1..0 = {}
      OBVIOUS
    <3> QED
      BY <2>1, <2>3, <3>1, <3>2 DEF SentInv
  <2>7. SaslInv'
    BY <2>1 DEF SaslInv, sasl
  <2>8. WritesInStep'
    BY <2>1 DEF WritesInStep
  <2> QED
    BY <2>5, <2>6, <2>7, <2>8
<1>4. CASE sock # "closed"
  <2>1. /\ UNCHANGED <<sasl, server, writes, delivered, arrived, peer_closed, thrown, taken>>
        /\ taken \in Nat /\ taken <= arrived /\ arrived \in Nat /\ Len(delivered) \in Nat
    BY <1>4, LenProperties DEF XMPPSocketConnect, SocketConnect, kernel, session, TypeOK, SentInv
  <2> QED
    BY <1>1, <1>2, <2>1, PlainStep
<1> QED
  BY <1>3, <1>4

\* The server sends on from where it was.
LEMMA ServerSendsStep ==
  ASSUME TypeOK, TypeOK', XInv, ServerSends
  PROVE  XInv'
<1> USE DEF XInv
<1>1. UNCHANGED <<todo, buffer, is_connected, sasl, offer, writes, delivered, taken, thrown,
                  peer_closed>>
  BY DEF ServerSends, ChunkArrives, client, session
<1>2. PICK last \in (Said + 1)..MaySay : sent' = Append(sent, last)
  BY DEF ServerSends
<1>3. arrived' = arrived + 1 /\ arrived \in Nat /\ taken \in Nat /\ Len(delivered) \in Nat
  BY LenProperties DEF ServerSends, ChunkArrives, TypeOK
<1>4. /\ sent \in Seq(Nat) /\ Len(sent) = arrived /\ offer \in Offers
      /\ \A i \in 1..arrived : sent[i] \in 1..Len(Script)
  BY DEF SentInv
<1>5. /\ Script \in Seq(Tokens) /\ Len(Script) \in Nat /\ Script' = Script
      /\ MaySay \in 0..Len(Script)
  <2>1. /\ Script \in Seq(Tokens) /\ Len(Script) = Len(offer) + 6 /\ Len(offer) \in Nat
        /\ Features \in Seq(Tokens) /\ Len(Features) = Len(offer) + 2
    BY <1>4, ScriptIs
  <2>2. Header \in Seq(Tokens) /\ Len(Header) = 1
    BY DEF Header, Tokens
  <2>3. Len(Header \o Features) = Len(Header) + Len(Features)
    BY <2>1, <2>2, ConcatProperties
  <2>4. MaySay = 0 \/ MaySay = Len(Header \o Features) \/ MaySay = Len(Script)
    BY DEF MaySay
  <2>5. MaySay \in 0..Len(Script)
    BY <2>1, <2>2, <2>3, <2>4
  <2>6. Script' = Script
    BY <1>1 DEF Script, Features
  <2> QED
    BY <2>1, <2>5, <2>6
<1>6. /\ Said \in Nat
      /\ arrived > 0 => Said = sent[arrived]
  <2>1. CASE arrived = 0
    BY <1>4, <2>1, EmptySeq DEF Said
  <2>2. CASE arrived > 0
    <3>1. sent # << >> /\ sent[arrived] \in 1..Len(Script)
      BY <1>3, <1>4, <2>2
    <3> QED
      BY <1>4, <1>5, <2>2, <3>1 DEF Said
  <2> QED
    BY <1>3, <2>1, <2>2
<1>7. last \in 1..Len(Script) /\ Said < last /\ last \in Nat
  BY <1>2, <1>5, <1>6
<1>8. /\ sent' \in Seq(Nat) /\ Len(sent') = arrived + 1
      /\ \A i \in 1..arrived : sent'[i] = sent[i]
      /\ sent'[arrived + 1] = last
  BY <1>2, <1>4, <1>7, AppendProperties
<1>9. SentInv'
  <2>1. ASSUME NEW i \in 1..arrived'
        PROVE  sent'[i] \in 1..Len(Script) /\ (i > 1 => sent'[i - 1] < sent'[i])
    <3>1. CASE i \in 1..arrived
      <4>1. i > 1 => i - 1 \in 1..arrived
        BY <1>3, <3>1
      <4>2. i > 1 => sent[i - 1] < sent[i]
        BY <3>1 DEF SentInv
      <4> QED
        BY <1>4, <1>8, <3>1, <4>1, <4>2
    <3>2. CASE i = arrived + 1
      <4>1. i > 1 => i - 1 = arrived /\ arrived \in 1..arrived /\ arrived > 0
        BY <1>3, <3>2
      <4>2. i > 1 => sent'[i - 1] = Said
        BY <1>6, <1>8, <4>1
      <4> QED
        BY <1>7, <1>8, <3>2, <4>2
    <3> QED
      BY <1>3, <3>1, <3>2
  <2>2. taken' <= arrived'
    BY <1>1, <1>3 DEF SentInv
  <2> QED
    BY <1>1, <1>3, <1>4, <1>5, <1>8, <2>1, <2>2 DEF SentInv
<1>10. /\ Starting' = Starting /\ Reading' = Reading /\ Initiating' = Initiating
       /\ Rejecting' = Rejecting /\ Answering' = Answering
  BY <1>1 DEF Starting, Reading, Initiating, Rejecting, Answering
<1>11. StackInv'
  BY <1>1, <1>10 DEF StackInv, Chosen, Supported, sasl
<1>12. SaslInv'
  <2>1. Heard' = Heard
    BY <1>1, <1>10 DEF Heard
  <2>2. writes = 1 => Heard \in 0..arrived
    BY <1>3 DEF Heard, SentInv, StackInv
  <2>3. writes = 1 => Received(Heard)' = Received(Heard)
    <3>1. ASSUME writes = 1, Heard # 0 PROVE sent'[Heard] = sent[Heard]
      BY <1>3, <1>8, <2>2, <3>1
    <3> QED
      BY <1>5, <2>1, <3>1 DEF Received, Prefix
  <2> QED
    BY <1>1, <2>3 DEF SaslInv, sasl
<1>13. WritesInStep'
  BY <1>1 DEF WritesInStep, Supported, sasl
<1> QED
  BY <1>9, <1>11, <1>12, <1>13

\* The chunk OnRead is called for is still in buffer_, and SASL has those before it.
LEMMA XReadHandlerStep ==
  ASSUME TypeOK, TypeOK', PatientInv, XInv, Inherited(OnRead)
  PROVE  XInv'
<1> USE DEF Inherited, XInv
<1>1. /\ todo = << >> /\ queue # << >> /\ queue' = Tail(queue) /\ Head(queue).op = "read"
      /\ UNCHANGED <<is_connected, buffer, sock, taken, arrived, peer_closed, thrown, conn,
                     writes, sasl, server>>
  BY DEF OnRead, Dispatch, Dispatched, kernel
<1>2. todo \in Plain
  BY <1>1 DEF Plain
<1>3. ~ Reading
  BY <1>2, PlainStacks
<1>4. /\ Len(delivered) \in Nat /\ taken \in Nat /\ arrived \in Nat /\ taken <= arrived
      /\ taken' = taken /\ writes \in Nat
  BY <1>1, LenProperties DEF TypeOK, SentInv
<1>5. CASE ~ is_connected \/ ~ Head(queue).ok
  <2>1. delivered' = delivered
    BY <1>5 DEF OnRead
  <2>2. todo' = << >> \/ todo' = ErrorHandler \o <<"Rearm">>
    BY <1>1, <1>5 DEF OnRead, ReadCalls
  <2>3. ErrorHandler \o <<"Rearm">> = <<"OnError", "Disconnect", "Rearm">>
    BY ShortConcats DEF ErrorHandler
  <2>4. todo' \in Plain
    BY <2>2, <2>3 DEF Plain
  <2> QED
    BY <1>1, <1>3, <1>4, <2>1, <2>4, PlainStep
<1>6. CASE is_connected /\ Head(queue).ok
  <2>1. todo' = <<"OnRead", "Rearm">> /\ delivered' = Append(delivered, buffer)
    BY <1>6 DEF OnRead, ReadCalls
  <2>2. /\ 1 \in DOMAIN queue /\ Head(queue) = queue[1] /\ ReadAt(1)
    BY <1>1, DispatchMoves DEF ReadAt
  <2>3. AliveAt(1) /\ sock # "closed" /\ writes # 0
    BY <1>6, <2>2 DEF PatientInv, DeadReadsDrop, DeadAt, AliveAt, SoleReader
  <2>4. writes <= 1 => taken = Len(delivered) + 1
    BY <1>6, <2>2, <2>3 DEF PatientInv, BufferKept
  <2>5. /\ Len(delivered') = Len(delivered) + 1 /\ delivered' # << >>
        /\ delivered'[Len(delivered')] = buffer
    <3>1. delivered \in Seq(Nat \X Nat) /\ buffer \in Nat \X Nat
      BY DEF TypeOK
    <3> DEFINE D == Nat \X Nat
    <3> HIDE DEF D
    <3>2. delivered \in Seq(D) /\ buffer \in D
      BY <3>1 DEF D
    <3>3. /\ Len(Append(delivered, buffer)) = Len(delivered) + 1
          /\ Append(delivered, buffer)[Len(delivered) + 1] = buffer
      BY <3>2, AppendProperties
    <3> QED
      BY <1>4, <2>1, <3>3
  <2>6. Reading'
    BY <2>1 DEF Reading
  <2>7. ~ Starting' /\ ~ Initiating' /\ ~ Rejecting' /\ ~ Answering'
    BY <2>1 DEF Starting, Initiating, Rejecting, Answering
  <2>8. StackInv'
    BY <1>1, <2>5, <2>6, <2>7 DEF StackInv
  <2>9. SentInv'
    <3>1. writes' <= 1 => Len(delivered') <= taken'
      BY <1>1, <1>4, <2>4, <2>5
    <3> QED
      BY <1>1, <2>3, <3>1 DEF SentInv, server, Script, Features
  <2>10. Heard' = Heard
    BY <1>3, <1>4, <2>5, <2>6 DEF Heard
  <2>11. SaslInv'
    BY <1>1, <2>10, SaslKept
  <2>12. WritesInStep'
    BY <1>1 DEF WritesInStep, Supported, server, sasl
  <2> QED
    BY <2>8, <2>9, <2>11, <2>12
<1> QED
  BY <1>5, <1>6

\* The other handlers start the stacks they know.
LEMMA XHandlersStep ==
  ASSUME TypeOK, TypeOK', PatientInv, XInv, Inherited(Handlers)
  PROVE  XInv'
<1> USE DEF Inherited, XInv
<1>0. Len(delivered) \in Nat /\ taken \in Nat /\ arrived \in Nat /\ taken <= arrived
  BY LenProperties DEF TypeOK, SentInv
<1>1. CASE OnRead
  BY <1>1, XReadHandlerStep
<1>2. CASE ResolveHostHandler \/ OnConnect
  <2>1. /\ todo = << >>
        /\ UNCHANGED <<buffer, taken, arrived, peer_closed, thrown, writes, delivered, sasl,
                       server>>
    BY <1>2 DEF ResolveHostHandler, OnConnect, Dispatch, kernel, session
  <2>2. todo \in Plain
    BY <2>1 DEF Plain
  <2>3. ~ Reading
    BY <2>2, PlainStacks
  <2>4. \/ todo' = <<"OnHostResolved", "SocketConnect">> \/ todo' = <<"OnError", "Disconnect">>
        \/ todo' = <<"OnConnect">>
    BY <1>2 DEF ResolveHostHandler, OnConnect, ResolveCalls, ConnectCalls, ErrorHandler
  <2>5. CASE todo' # <<"OnConnect">>
    <3>1. todo' \in Plain
      BY <2>4, <2>5 DEF Plain
    <3> QED
      BY <1>0, <2>1, <2>3, <3>1, PlainStep
  <2>6. CASE todo' = <<"OnConnect">>
    <3>1. Starting' /\ ~ Reading' /\ ~ Initiating' /\ ~ Rejecting' /\ ~ Answering'
      BY <2>6 DEF Starting, Reading, Initiating, Rejecting, Answering
    <3>2. StackInv'
      BY <3>1 DEF StackInv
    <3>3. SentInv'
      BY <2>1 DEF SentInv, server, Script, Features
    <3>4. Heard' = Heard
      BY <2>1, <2>3, <3>1 DEF Heard
    <3>5. SaslInv'
      BY <2>1, <3>4, SaslKept
    <3>6. WritesInStep'
      BY <2>1 DEF WritesInStep, Supported, server, sasl
    <3> QED
      BY <3>2, <3>3, <3>5, <3>6
  <2> QED
    BY <2>5, <2>6
<1> QED
  BY <1>1, <1>2 DEF Handlers

\* The rest: the kernel and the resolver, the reactor, and a call of Connect.
LEMMA XOtherSteps ==
  ASSUME TypeOK, TypeOK', XInv, Outside \subseteq {"Connect"},
         Inherited(Reactor \/ ConnectionSettles \/ PeerCloses \/ Resolved \/ OutsideCall)
  PROVE  XInv'
<1> USE DEF Inherited, XInv
<1>0. /\ Len(delivered) \in Nat /\ taken \in Nat /\ taken' \in Nat /\ arrived \in Nat
      /\ taken <= arrived
  BY LenProperties DEF TypeOK, SentInv
<1>1. todo = << >> => ~ Reading
  BY DEF Reading
<1>2. CASE OutsideCall
  <2>1. /\ todo = << >>
        /\ UNCHANGED <<sasl, server, writes, delivered, arrived, peer_closed, thrown, taken>>
    BY <1>2 DEF OutsideCall, kernel, session
  <2>2. todo' = <<"Connect">>
    BY <1>2 DEF OutsideCall
  <2>3. todo' \in Plain
    BY <2>2 DEF Plain
  <2> QED
    BY <1>0, <1>1, <2>1, <2>3, PlainStep
<1>3. CASE Reactor
  <2>1. /\ todo = << >>
        /\ UNCHANGED <<todo, sasl, server, is_connected, writes, delivered, arrived, thrown,
                       peer_closed>>
    BY <1>3 DEF Reactor, ReactorConnect, ReactorRead, client, kernel, session
  <2>2. taken' = taken \/ (taken < arrived /\ taken' = taken + 1)
    BY <1>3 DEF Reactor, ReactorConnect, ReactorRead, Receive, Readable
  <2>3. taken <= taken' /\ taken' <= arrived
    BY <1>0, <2>2
  <2> QED
    BY <1>0, <1>1, <2>1, <2>3, UnseenStep
<1>4. CASE ConnectionSettles \/ PeerCloses \/ Resolved
  <2>1. /\ UNCHANGED <<todo, sasl, server, is_connected, writes, delivered, arrived, thrown,
                       buffer, taken>>
        /\ peer_closed => peer_closed'
    BY <1>4 DEF ConnectionSettles, PeerCloses, Resolved, client, kernel, session
  <2> QED
    BY <1>0, <2>1, UnseenStep
<1> QED
  BY <1>2, <1>3, <1>4

LEMMA XInvStep ==
  ASSUME TypeOK, TypeOK', PatientInv, BelievedOpen, XInv,
         Overrides = XMPPOverrides, Outside \subseteq {"Connect"}, [XNext]_xvars
  PROVE  XInv' /\ (mechanism' # mechanism => mechanism' = SetAuthenticationMechanism(Supported))
<1>1. CASE Inherited(\/ Connect \/ SkipConnect \/ Disconnect \/ Write \/ Read \/ Rearm
                     \/ \E cb \in Callbacks \ {"OnConnect", "OnRead"} : Callback(cb))
  <2>1. UNCHANGED mechanism
    BY <1>1 DEF Inherited, sasl
  <2>2. CASE Write
    BY <1>1, <2>1, <2>2, XWriteStep DEF Inherited
  <2>3. CASE Disconnect
    BY <1>1, <2>1, <2>3, FarewellStep DEF Inherited
  <2>4. CASE Connect \/ SkipConnect \/ Read \/ Rearm
    BY <1>1, <2>1, <2>4, CallStep DEF Inherited
  <2>5. CASE \E cb \in Callbacks \ {"OnConnect", "OnRead"} : Callback(cb)
    BY <1>1, <2>1, <2>5, FarewellStep, CallStep DEF Inherited
  <2> QED
    BY <1>1, <2>2, <2>3, <2>4, <2>5 DEF Inherited
<1>2. CASE XMPPSocketConnect
  BY <1>2, XSocketConnectStep DEF XMPPSocketConnect, sasl
<1>3. CASE XMPPOnConnect
  BY <1>3, XOnConnectStep
<1>4. CASE XMPPOnRead
  BY <1>4, XOnReadStep
<1>5. CASE ServerSends
  BY <1>5, ServerSendsStep DEF ServerSends, sasl
<1>6. CASE Inherited(Handlers \/ Reactor \/ ConnectionSettles \/ PeerCloses \/ Resolved
                     \/ OutsideCall)
  BY <1>6, XHandlersStep, XOtherSteps DEF Inherited, sasl
<1>7. CASE UNCHANGED xvars
  <2>1. UNCHANGED <<todo, sasl, server, is_connected, writes, delivered, arrived, thrown,
                    buffer, taken, peer_closed>>
    BY <1>7 DEF xvars, vars, client, session, kernel
  <2>2. /\ Len(delivered) \in Nat /\ taken \in Nat /\ taken' \in Nat /\ taken <= taken'
        /\ taken' <= arrived
    BY <2>1, LenProperties DEF TypeOK, XInv, SentInv
  <2> QED
    BY <2>1, <2>2, UnseenStep DEF sasl
<1> QED
  BY <1>1, <1>2, <1>3, <1>4, <1>5, <1>6, <1>7 DEF XNext, ClientCalls

LEMMA XInvInitially ==
  ASSUME XInit
  PROVE  XInv
<1> USE DEF XInit, Init
<1>1. ~ Starting /\ ~ Reading /\ ~ Initiating /\ ~ Rejecting /\ ~ Answering /\ todo \in Plain
  BY DEF Starting, Reading, Initiating, Rejecting, Answering, Plain
<1>2. StackInv
  BY <1>1 DEF StackInv
<1>3. SentInv
  <2>1. << >> \in Seq(Nat) /\ Len(<< >>) = 0 /\ 1..0 = {}
    OBVIOUS
  <2> QED
    BY <2>1 DEF SentInv
<1>4. SaslInv
  BY DEF SaslInv, TransactionStates
<1>5. WritesInStep
  BY DEF WritesInStep
<1> QED
  BY <1>2, <1>3, <1>4, <1>5 DEF XInv

\* The application as it is deployed: it connects while disconnected, and leaves the
\* writing and the closing to SASL.
Deployed ==
  Patient /\ Overrides = XMPPOverrides /\ Outside \subseteq {"Connect"}

(* The invariant of the handshake.                                         *)
THEOREM XInvariant == Deployed => (XSpec => [](TypeOK /\ PatientInv /\ BelievedOpen /\ XInv))
<1> SUFFICES ASSUME Patient, Overrides = XMPPOverrides, Outside \subseteq {"Connect"}
             PROVE  XSpec => [](TypeOK /\ PatientInv /\ BelievedOpen /\ XInv)
  BY DEF Deployed
<1>1. ClosesInCallbacks
  BY DEF ClosesInCallbacks
<1>2. XInit => XInv
  BY XInvInitially
<1>3. TypeOK /\ TypeOK' /\ PatientInv /\ BelievedOpen /\ XInv /\ [XNext]_xvars => XInv'
  BY XInvStep
<1> QED
  BY <1>1, <1>2, <1>3, XMPPImplementsTCPClient, TypeCorrect, PatientInvariant,
     BelievedOpenAlways, PTL DEF XSpec, UsesTCPClient

(* The handshake keeps in step however the bytes of the server are cut:    *)
(* on a connection XMPPClient writes the stream and then, once, a          *)
(* mechanism that this server announced, the strongest of them; without    *)
(* one it does not write on the socket it has closed.                      *)
THEOREM HandshakeInStep == Deployed => (XSpec => []WritesInStep)
<1> SUFFICES ASSUME Deployed
             PROVE  XSpec => []WritesInStep
  OBVIOUS
<1>1. XInv => WritesInStep
  BY DEF XInv
<1> QED
  BY <1>1, XInvariant, PTL

(* However the features are cut into chunks, the mechanism is chosen from  *)
(* all the server announced, never from a part of them.                    *)
THEOREM ChoiceIsStrongest == Deployed => (XSpec => ChoosesStrongest)
<1> SUFFICES ASSUME Deployed
             PROVE  XSpec => ChoosesStrongest
  OBVIOUS
<1>1. /\ TypeOK /\ PatientInv /\ BelievedOpen /\ XInv
      /\ (TypeOK /\ PatientInv /\ BelievedOpen /\ XInv)'
      /\ [XNext]_xvars
      => [mechanism' # mechanism
            => mechanism' = SetAuthenticationMechanism(Supported)]_xvars
  BY XInvStep DEF Deployed
<1> QED
  BY <1>1, XInvariant, PTL DEF XSpec, ChoosesStrongest

(* What the server sends is well formed whenever read_xml is given it, up  *)
(* to the challenge: nothing is parsed of the features before their end.   *)
THEOREM FeaturesParseWhole ==
  Deployed => (XSpec => [](malformed => transaction_state = "kDecodeBase64Challenge"))
<1> SUFFICES ASSUME Deployed
             PROVE  XSpec => [](malformed => transaction_state = "kDecodeBase64Challenge")
  OBVIOUS
<1>1. XInv => (malformed => transaction_state = "kDecodeBase64Challenge")
  BY DEF XInv, SaslInv
<1> QED
  BY <1>1, XInvariant, PTL
=============================================================================
