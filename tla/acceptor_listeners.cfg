\* Three acceptors (TLS, plaintext forced to SPDY/3, plaintext HTTP), one
\* TLS connection over every next protocol a client may negotiate and one
\* connection on each plaintext listener, peers on private and public
\* addresses.
CONSTANTS
  c1 = c1  c2 = c2  c3 = c3
  tls = tls  spdyPlain = spdyPlain  httpPlain = httpPlain
  Acceptors = {tls, spdyPlain, httpPlain}
  Conns = {c1, c2, c3}
  Owner <- MC_Owner
  SSL <- MC_SSL
  PlaintextProtocol <- MC_PlaintextProtocol
  ClientProtocols <- MC_ClientProtocols
  Http1Protocols <- MC_Http1Protocols
  SpdyVersionOf <- MC_SpdyVersionOf
  SpdyProtocolOf <- MC_SpdyProtocolOf
  SpdyPriorityBits <- MC_SpdyPriorityBits
  NoVersion = NoVersion
  Internal <- MC_Internal
  DiagnosticPage <- MC_DiagnosticPage
  DefaultPage <- MC_DefaultPage
SPECIFICATION AccSpec
INVARIANT TypeOK
INVARIANT SessionPriorityRangeMatchesVersion
INVARIANT ProtocolNamesRoundTrip
PROPERTY AcceptorImplementsSelection
\* Once the bounded connections are handled the acceptors idle, waiting
\* for the next one, which the model does not hand over.
CHECK_DEADLOCK FALSE
