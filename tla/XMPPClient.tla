------------------------------ MODULE XMPPClient ------------------------------
(***************************************************************************)
(* Libs/XMPP: XMPPClient, an application of TCPClient whose OnConnect and  *)
(* OnRead drive SASL, the state that authenticates the client.             *)
(*                                                                         *)
(* Every step of TCPClient is a step here; the callbacks, which TCPClient  *)
(* leaves to the application, are the ones of XMPPClient.  The text of the *)
(* server is a sequence of tokens that chunks may break anywhere: a tag    *)
(* broken in two is found when its end has come, so a token comes with the *)
(* chunk that completes it.                                                *)
(***************************************************************************)
EXTENDS TCPClient

CONSTANTS
  Offers  \* the mechanisms a server may announce, each as a sequence

Mechanisms == {"SCRAM-SHA-1", "DIGEST-MD5", "PLAIN"}

ASSUME OffersAssumption == Offers \subseteq Seq(Mechanisms) /\ Offers # {}

VARIABLES
  transaction_state, \* SASL::transaction_state_
  text,              \* XMPPClient::buffer_
  malformed,         \* read_xml threw out of io_service::run
  \* history: what SetAuthenticationMechanism returned, "unset" before, and the
  \* challenge that was extracted last
  mechanism, challenge,
  \* the server of this connection: what it announces, and for each of its chunks
  \* the tokens it has sent with it and before
  offer, sent

sasl   == <<transaction_state, text, malformed, mechanism, challenge>>
server == <<offer, sent>>
xvars  == <<vars, sasl, server>>

TransactionStates ==
  {"kInitializeStream", "kSelectAuthenticationMechanism", "kDecodeBase64Challenge"}

Features  == <<"<stream:features>">> \o offer \o <<"</stream:features>">>
Challenge == <<"<challenge", "base64", "</challenge>">>
Header    == <<"<stream:stream>">>

\* All the server has to say on a connection; it answers the stream that is
\* initiated, and then the mechanism.
Script == Header \o Features \o Challenge
MaySay == CASE writes = 0 -> 0
            [] writes = 1 -> Len(Header \o Features)
            [] OTHER      -> Len(Script)
Said   == IF sent = << >> THEN 0 ELSE sent[Len(sent)]

Chunk(n) == SubSeq(Script, IF n = 1 THEN 1 ELSE sent[n - 1] + 1, sent[n])

XInit ==
  /\ Init
  /\ transaction_state = "kInitializeStream"
  /\ text = << >>
  /\ malformed = FALSE
  /\ mechanism = "unset"
  /\ challenge = << >>
  /\ offer \in Offers
  /\ sent = << >>

-----------------------------------------------------------------------------
(* SASL.                                                                   *)

First(tokens, token) ==
  CHOOSE i \in DOMAIN tokens :
    tokens[i] = token /\ \A j \in 1..(i - 1) : tokens[j] # token

\* SASL::ExtractXML: what is extracted, and what is left in buffer_.  Both tags are
\* searched from the front.  If the end tag comes first, the unsigned count of bytes
\* wraps round and everything from the start tag on is extracted, but nothing if the
\* start tag follows at once.
ExtractXML(tokens, start, end) ==
  IF ~ (Mentions(tokens, start) /\ Mentions(tokens, end))
  THEN [stanza |-> << >>, rest |-> tokens]
  ELSE LET s == First(tokens, start)
           e == First(tokens, end)
       IN  [stanza |-> SubSeq(tokens, s, IF e + 1 < s THEN Len(tokens) ELSE e),
            rest   |-> SubSeq(tokens, e + 1, Len(tokens))]

ExtractAuthenticationMechanismResponse(tokens) ==
  ExtractXML(tokens, "<stream:features>", "</stream:features>")

\* Mutant: the tag of the challenge carries attributes.
ExtractChallengeBare(tokens) == ExtractXML(tokens, "<challenge>", "</challenge>")

ExtractChallenge(tokens) == ExtractXML(tokens, "<challenge", "</challenge>")

ParseAuthenticationMechanisms(stanza) == {stanza[i] : i \in DOMAIN stanza} \cap Mechanisms

\* SASL::SetAuthenticationMechanism.
SetAuthenticationMechanism(set) ==
  CASE "SCRAM-SHA-1" \in set                            -> "kSHA1"
    [] "SCRAM-SHA-1" \notin set /\ "DIGEST-MD5" \in set -> "kMD5"
    [] OTHER                                            -> "kNone"

\* The callback ends after making the calls of `script'.
Returns(script) == todo' = script \o Tail(todo)

\* Mutant: the header and the stream in a write each.
HandleInitializeStreamTwice(tokens) ==
  /\ transaction_state = "kInitializeStream"
  /\ Returns(<<"Write", "Write">>)
  /\ transaction_state' = "kSelectAuthenticationMechanism"
  /\ text' = tokens
  /\ UNCHANGED <<mechanism, challenge>>

\* Mutant: the state is advanced elsewhere.
HandleInitializeStreamStays(tokens) ==
  /\ transaction_state = "kInitializeStream"
  /\ Returns(<<"Write">>)
  /\ text' = tokens
  /\ UNCHANGED <<transaction_state, mechanism, challenge>>

\* SASL::HandleInitializeStream.
HandleInitializeStream(tokens) ==
  /\ transaction_state = "kInitializeStream"
  /\ Returns(<<"Write">>)
  /\ transaction_state' = "kSelectAuthenticationMechanism"
  /\ text' = tokens
  /\ UNCHANGED <<mechanism, challenge>>

\* Mutant: the write first.
SelectCallsReversed(chosen) ==
  IF chosen = "kNone" THEN <<"Write", "Disconnect">> ELSE <<"Write">>

\* What follows the choice: without a mechanism the client disconnects, and goes on
\* to the write all the same.
SelectCalls(chosen) == IF chosen = "kNone" THEN <<"Disconnect", "Write">> ELSE <<"Write">>

\* SASL::HandleSelectAuthenticationMechanism.
HandleSelectAuthenticationMechanism(tokens) ==
  LET x == ExtractAuthenticationMechanismResponse(tokens) IN
  /\ transaction_state = "kSelectAuthenticationMechanism"
  /\ text' = x.rest
  /\ \/ /\ x.stanza = << >>
        /\ Returns(<< >>)
        /\ UNCHANGED <<transaction_state, mechanism>>
     \/ /\ x.stanza # << >>
        /\ mechanism' = SetAuthenticationMechanism(ParseAuthenticationMechanisms(x.stanza))
        /\ Returns(SelectCalls(mechanism'))
        /\ transaction_state' = "kDecodeBase64Challenge"
  /\ UNCHANGED challenge

\* SASL::HandleDecodeBase64Challenge: the challenge is decoded, and that is all.
HandleDecodeBase64Challenge(tokens) ==
  LET x == ExtractChallenge(tokens) IN
  /\ transaction_state = "kDecodeBase64Challenge"
  /\ text' = x.rest
  /\ challenge' = IF x.stanza = << >> THEN challenge ELSE x.stanza
  /\ Returns(<< >>)
  /\ UNCHANGED <<transaction_state, mechanism>>

\* read_xml throws out of the callback: the stanza is not what the server sent.
ParseThrows(tokens) ==
  /\ \/ /\ transaction_state = "kSelectAuthenticationMechanism"
        /\ ExtractAuthenticationMechanismResponse(tokens).stanza \notin {<< >>, Features}
        /\ text' = ExtractAuthenticationMechanismResponse(tokens).rest
     \/ /\ transaction_state = "kDecodeBase64Challenge"
        /\ ExtractChallenge(tokens).stanza \notin {<< >>, Challenge}
        /\ text' = ExtractChallenge(tokens).rest
  /\ malformed' = TRUE
  /\ UNCHANGED <<transaction_state, mechanism, challenge>>

\* SASL::Update, called by the callback cb with buffer_ = tokens.
Update(cb, tokens) ==
  /\ Calling(cb)
  /\ \/ /\ \/ HandleInitializeStream(tokens)
           \/ HandleSelectAuthenticationMechanism(tokens)
           \/ HandleDecodeBase64Challenge(tokens)
        /\ UNCHANGED malformed
     \/ ParseThrows(tokens) /\ UNCHANGED todo
  /\ UNCHANGED <<is_connected, buffer, queue, resolving, reactor, kernel, taken, thrown,
                 calls, session>>

-----------------------------------------------------------------------------
(* XMPPClient.                                                             *)

\* What its callbacks may call, for TCPClient's Overrides.
XMPPOverrides ==
  [cb \in Callbacks |->
     IF cb \in {"OnConnect", "OnRead"}
     THEN {<< >>, <<"Write">>, <<"Disconnect", "Write">>}
     ELSE {<< >>}]

\* The bytes OnRead is given: those of the last chunk received, cut or followed by the
\* rest of the other if it came over another chunk in buffer_ before that was copied.
BytesRead ==
  LET n    == Len(delivered)
      last == Chunk(buffer[2])
      own  == Chunk(n)
  IN  IF buffer[2] = n
      THEN {last}
      ELSE {SubSeq(last, 1, i) : i \in DOMAIN last}
             \cup {last \o SubSeq(own, i, Len(own)) : i \in DOMAIN own}

XMPPOnConnect ==
  /\ Update("OnConnect", text)
  /\ UNCHANGED server

\* Mutant: each chunk for itself.
XMPPOnReadAlone ==
  /\ Calling("OnRead")
  /\ \E bytes \in BytesRead : Update("OnRead", bytes)
  /\ UNCHANGED server

XMPPOnRead ==
  /\ Calling("OnRead")
  /\ \E bytes \in BytesRead : Update("OnRead", text \o bytes)
  /\ UNCHANGED server

XMPPSocketConnect ==
  /\ SocketConnect
  /\ IF conn' = conn
     THEN UNCHANGED server
     ELSE offer' \in Offers /\ sent' = << >>
  /\ UNCHANGED sasl

\* The server sends some more of what it has to say.
ServerSends ==
  /\ ChunkArrives
  /\ \E last \in (Said + 1)..MaySay : sent' = Append(sent, last)
  /\ UNCHANGED <<offer, sasl>>

Inherited(action) == action /\ UNCHANGED <<sasl, server>>

ClientCalls ==
  /\ ~ malformed
  /\ \/ Inherited(\/ Connect \/ SkipConnect \/ Disconnect \/ Write \/ Read \/ Rearm
                  \/ \E cb \in Callbacks \ {"OnConnect", "OnRead"} : Callback(cb))
     \/ XMPPSocketConnect \/ XMPPOnConnect \/ XMPPOnRead

XNext ==
  \/ ClientCalls
  \/ ServerSends
  \/ Inherited(Handlers \/ Reactor \/ ConnectionSettles \/ PeerCloses \/ Resolved \/ OutsideCall)

\* As for TCPClient.
XFairness ==
  /\ WF_xvars(ClientCalls)
  /\ SF_xvars(Inherited(Handlers))
  /\ SF_xvars(Inherited(ReactorConnect))
  /\ SF_xvars(Inherited(ReactorRead))
  /\ WF_xvars(Inherited(Resolved))
  /\ WF_xvars(Inherited(ConnectionSettles))

XSpec     == XInit /\ [][XNext]_xvars
XFairSpec == XSpec /\ XFairness

-----------------------------------------------------------------------------
(* Properties.                                                             *)

\* XMPPClient is an application of TCPClient with the overrides above: everything
\* that holds of TCPClient for any overrides holds of it.
UsesTCPClient == Spec

Supported == {offer[i] : i \in DOMAIN offer}

\* However the chunks fall, the mechanism is the strongest of all the server announced.
ChoosesStrongest ==
  [][mechanism' # mechanism => mechanism' = SetAuthenticationMechanism(Supported)]_xvars

\* Beyond the stream it initiates, the client writes only a mechanism that the server of
\* this connection supports; having none it does not write, or throw, on the socket it
\* has just closed.
WritesInStep ==
  /\ writes <= 2
  /\ writes = 2 => mechanism = SetAuthenticationMechanism(Supported) /\ mechanism # "kNone"
  /\ thrown => peer_closed

Ended == ~ is_connected \/ thrown \/ malformed

\* A server that announces its mechanisms is answered.
FeaturesAnswered ==
  (is_connected /\ Said >= Len(Header \o Features)) ~> (mechanism # "unset" \/ Ended)

\* The challenge is extracted as it was sent, if it came in one piece: no later chunk
\* is there to overwrite it.
ChallengeWhole ==
  \E n \in DOMAIN sent :
    sent[n] = Len(Script) /\ (n = 1 \/ sent[n - 1] <= Len(Header \o Features))
ChallengeTaken == (is_connected /\ ChallengeWhole) ~> (challenge = Challenge \/ Ended)
=============================================================================
