---------------------------- MODULE MCXMPPClient ----------------------------
(* Servers for TLC: nothing the client supports, the stronger mechanism    *)
(* announced last, and a supported one after one that is not.              *)
EXTENDS XMPPClient

MCOffers == { <<"PLAIN">>, <<"DIGEST-MD5", "SCRAM-SHA-1">>, <<"PLAIN", "DIGEST-MD5">> }
=============================================================================
