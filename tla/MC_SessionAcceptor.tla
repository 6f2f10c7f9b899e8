------------------------- MODULE MC_SessionAcceptor -------------------------
(* SessionAcceptor for TLC, with the tables of this proxygen's codecs:     *)
(* HTTP1xCodec takes http/1.0 and http/1.1, SPDYCodec::getVersion knows    *)
(* spdy/2, spdy/3 and spdy/3.1, and SPDY/2 has 2 priority bits, SPDY/3.x 3. *)
EXTENDS SessionAcceptor

CONSTANTS c1, c2, c3, tls, spdyPlain, httpPlain  \* model values

MC_Http1Protocols == {"http/1.0", "http/1.1"}
MC_SpdyVersionOf == ("spdy/2" :> "SPDY2") @@ ("spdy/3" :> "SPDY3") @@ ("spdy/3.1" :> "SPDY3_1")
MC_SpdyProtocolOf == ("SPDY2" :> "SPDY_2") @@ ("SPDY3" :> "SPDY_3") @@ ("SPDY3_1" :> "SPDY_3_1")
MC_SpdyPriorityBits == ("SPDY2" :> 2) @@ ("SPDY3" :> 3) @@ ("SPDY3_1" :> 3)

(* What a TLS client may ask for: nothing, every CodecProtocol string,    *)
(* HTTP/1.0, and a protocol this server has never heard of.               *)
MC_ClientProtocols ==
  {"", "http/1.0", "http/1.1", "spdy/2", "spdy/3", "spdy/3.1", "spdy/3.1-hpack",
   "http/2", "spdy/4a2"}

(* Three listeners: an internal TLS one with both error pages, a public   *)
(* plaintext one forced to SPDY/3 without a default page, and an internal  *)
(* plaintext HTTP one with only a default page.  plaintextProtocol of the *)
(* TLS listener names SPDY/3, which must not apply to TLS.                 *)
MC_Owner == (c1 :> tls) @@ (c2 :> spdyPlain) @@ (c3 :> httpPlain)
MC_SSL == (tls :> TRUE) @@ (spdyPlain :> FALSE) @@ (httpPlain :> FALSE)
MC_PlaintextProtocol == (tls :> "spdy/3") @@ (spdyPlain :> "spdy/3") @@ (httpPlain :> "")
MC_Internal == (tls :> TRUE) @@ (spdyPlain :> FALSE) @@ (httpPlain :> TRUE)
MC_DiagnosticPage == (tls :> "diagnostic") @@ (spdyPlain :> "diagnostic") @@ (httpPlain :> "null")
MC_DefaultPage == (tls :> "default") @@ (spdyPlain :> "null") @@ (httpPlain :> "default")
=============================================================================
