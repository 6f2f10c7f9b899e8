--------------------------- MODULE SessionAcceptor ---------------------------
(***************************************************************************)
(* HTTPSessionAcceptor (HTTPSessionAcceptor.cpp): the constructor fixes a  *)
(* SPDY version for plaintext connections, onNewConnection() picks the    *)
(* codec of each connection from the negotiated next protocol (or drops    *)
(* the connection), and getErrorPage() picks the page a session shows a    *)
(* peer.  The codecs' own tables, which live outside this file, are        *)
(* constants: HTTP1xCodec::supportsNextProtocol (Http1Protocols),          *)
(* SPDYCodec::getVersion (SpdyVersionOf) and the CodecProtocol a SPDY      *)
(* codec reports for its version (SpdyProtocolOf).  A process runs one     *)
(* acceptor per listening configuration; each connection belongs to the   *)
(* acceptor (Owner) of the socket it arrived on.                           *)
(***************************************************************************)
EXTENDS CodecProtocol, Integers, TLC

CONSTANTS
  Acceptors,         \* the HTTPSessionAcceptor objects
  Conns,             \* connections the transport may hand over
  Owner,             \* connection -> the acceptor it arrives at
  SSL,               \* acceptor -> isSSL() of its configuration
  PlaintextProtocol, \* acceptor -> accConfig.plaintextProtocol
  ClientProtocols,   \* next protocols TLS clients may negotiate ("" for none)
  Http1Protocols,    \* the strings HTTP1xCodec::supportsNextProtocol accepts
  SpdyVersionOf,     \* SPDYCodec::getVersion, on the strings it knows
  SpdyProtocolOf,    \* SPDY version -> the CodecProtocol of its SPDYCodec
  SpdyPriorityBits,  \* SPDY version -> width of its stream priority field
  NoVersion,         \* an empty folly::Optional<SPDYVersion>
  Internal,          \* acceptor -> isInternal()
  DiagnosticPage,    \* acceptor -> diagnosticErrorPage_: "diagnostic" or "null"
  DefaultPage        \* acceptor -> defaultErrorPage_: "default" or "null"

VARIABLES
  alwaysUseSPDYVersion, \* acceptor -> its alwaysUseSPDYVersion_
  conn                  \* per connection: where it is and what it got

accVars == <<alwaysUseSPDYVersion, conn>>

Peers == {"private", "public"}
Codecs == {"HTTP1x", "SPDY"}
Fresh == [state |-> "idle", np |-> "", peer |-> "public", codec |-> "none",
          version |-> NoVersion, localAddr |-> "none", page |-> "none"]

(* codec->getProtocol() of a session's codec.                              *)
ProtocolOf(r) == IF r.codec = "HTTP1x" THEN "HTTP_1_1" ELSE SpdyProtocolOf[r.version]

TypeOK ==
  /\ alwaysUseSPDYVersion \in [Acceptors -> DOMAIN SpdyProtocolOf \cup {NoVersion}]
  /\ \A c \in Conns :
       /\ conn[c].state \in {"idle", "pending", "session", "closed"}
       /\ conn[c].peer \in Peers
       /\ conn[c].state = "session" =>
            /\ conn[c].codec \in Codecs
            /\ conn[c].codec = "SPDY" => conn[c].version \in DOMAIN SpdyProtocolOf
            /\ conn[c].localAddr \in {"local", "unknown"}
       /\ conn[c].page \in {"none", "diagnostic", "default", "null"}

(* Mutant of Init: the constructor tests isSSL() instead of !isSSL().    *)
InitSslInverted ==
  /\ alwaysUseSPDYVersion =
       [a \in Acceptors |-> IF SSL[a] /\ PlaintextProtocol[a] \in DOMAIN SpdyVersionOf
                            THEN SpdyVersionOf[PlaintextProtocol[a]] ELSE NoVersion]
  /\ conn = [c \in Conns |-> Fresh]

(* The constructor: a plaintext acceptor whose plaintextProtocol names a  *)
(* SPDY version speaks that version on every connection.                   *)
Init ==
  /\ alwaysUseSPDYVersion =
       [a \in Acceptors |-> IF ~SSL[a] /\ PlaintextProtocol[a] \in DOMAIN SpdyVersionOf
                            THEN SpdyVersionOf[PlaintextProtocol[a]] ELSE NoVersion]
  /\ conn = [c \in Conns |-> Fresh]

(* The next protocols a connection may arrive with: only TLS negotiates.  *)
Negotiable(c) == IF SSL[Owner[c]] THEN ClientProtocols ELSE {""}

(* The transport accepts a connection from a private or public address.   *)
Accept(c, np, peer) ==
  /\ conn[c].state = "idle"
  /\ conn' = [conn EXCEPT ![c] = [@ EXCEPT !.state = "pending", !.np = np, !.peer = peer]]
  /\ UNCHANGED alwaysUseSPDYVersion

(* Mutant of CodecFor: an empty next protocol is not taken as HTTP/1.x.    *)
CodecForNoEmpty(a, np) ==
  CASE ~SSL[a] /\ alwaysUseSPDYVersion[a] # NoVersion
         -> [codec |-> "SPDY", version |-> alwaysUseSPDYVersion[a]]
    [] np \in Http1Protocols -> [codec |-> "HTTP1x", version |-> NoVersion]
    [] np \in DOMAIN SpdyVersionOf -> [codec |-> "SPDY", version |-> SpdyVersionOf[np]]
    [] OTHER -> [codec |-> "none", version |-> NoVersion]

(* The codec acceptor a's onNewConnection() builds for a next protocol,   *)
(* or "none".                                                              *)
CodecFor(a, np) ==
  CASE ~SSL[a] /\ alwaysUseSPDYVersion[a] # NoVersion
         -> [codec |-> "SPDY", version |-> alwaysUseSPDYVersion[a]]
    [] np = "" \/ np \in Http1Protocols -> [codec |-> "HTTP1x", version |-> NoVersion]
    [] np \in DOMAIN SpdyVersionOf -> [codec |-> "SPDY", version |-> SpdyVersionOf[np]]
    [] OTHER -> [codec |-> "none", version |-> NoVersion]

(* Mutant of OnNewConnection: the unrecognized-protocol branch falls      *)
(* through to the session instead of returning.                            *)
OnNewConnectionNoReturn(c) ==
  /\ conn[c].state = "pending"
  /\ LET k == CodecFor(Owner[c], conn[c].np) IN
     \E addr \in {"local", "unknown"} :
       conn' = [conn EXCEPT ![c] = [@ EXCEPT !.state = "session", !.codec = k.codec,
                                              !.version = k.version, !.localAddr = addr]]
  /\ UNCHANGED alwaysUseSPDYVersion

(* onNewConnection(): without a codec the function returns and the socket *)
(* is destroyed with its UniquePtr; otherwise a session starts, with the   *)
(* unknown address when getLocalAddress() throws.                          *)
OnNewConnection(c) ==
  /\ conn[c].state = "pending"
  /\ LET k == CodecFor(Owner[c], conn[c].np) IN
     IF k.codec = "none"
     THEN conn' = [conn EXCEPT ![c].state = "closed"]
     ELSE \E addr \in {"local", "unknown"} :
            conn' = [conn EXCEPT ![c] = [@ EXCEPT !.state = "session", !.codec = k.codec,
                                                   !.version = k.version, !.localAddr = addr]]
  /\ UNCHANGED alwaysUseSPDYVersion

(* getErrorPage(addr): the diagnostic page for a private address of an    *)
(* internal acceptor, else the default page (either may be null).          *)
GetErrorPage(a, peer) ==
  LET errorPage == IF Internal[a] /\ peer = "private" THEN DiagnosticPage[a] ELSE "null"
  IN IF errorPage = "null" THEN DefaultPage[a] ELSE errorPage

(* A session asks the acceptor for the error page of its peer.             *)
ShowErrorPage(c) ==
  /\ conn[c].state = "session"
  /\ conn[c].page = "none"
  /\ conn' = [conn EXCEPT ![c].page = GetErrorPage(Owner[c], conn[c].peer)]
  /\ UNCHANGED alwaysUseSPDYVersion

AccNext ==
  \E c \in Conns :
    \/ \E np \in Negotiable(c), peer \in Peers : Accept(c, np, peer)
    \/ OnNewConnection(c)
    \/ ShowErrorPage(c)

(* The event base runs the accept callback of every connection it hands   *)
(* over; onNewConnection() never waits.                                    *)
AccSpec == Init /\ [][AccNext]_accVars /\ \A c \in Conns : WF_accVars(OnNewConnection(c))

-----------------------------------------------------------------------------
(* The priorities a session's CodecProtocol allows (maxProtocolPriority)  *)
(* are exactly those the priority field of its SPDY version can carry.     *)
SessionPriorityRangeMatchesVersion ==
  \A c \in Conns :
    conn[c].state = "session" /\ conn[c].codec = "SPDY" =>
      MaxProtocolPriority(ProtocolOf(conn[c])) = 2^SpdyPriorityBits[conn[c].version] - 1

(* The protocol a session's codec reports (getProtocol) names itself in  *)
(* both directions of CodecProtocol.cpp, and when a TLS client negotiated *)
(* a valid protocol string it is that string, so the session and the     *)
(* handshake agree on what is spoken.                                     *)
ProtocolNamesRoundTrip ==
  \A c \in Conns :
    conn[c].state = "session" =>
      LET p == ProtocolOf(conn[c]) IN
        /\ GetCodecProtocolFromStr(GetCodecProtocolString(p)) = p
        /\ SSL[Owner[c]] /\ IsValidCodecProtocolStr(conn[c].np) =>
             GetCodecProtocolString(p) = conn[c].np

(* HTTPSessionAcceptor implements ProtocolSelection: a connection is      *)
(* served with the CodecProtocol its negotiated string names when the      *)
(* acceptor's codecs speak it, plaintext ones with the configured SPDY     *)
(* version or HTTP/1.1, the rest refused, and every one eventually.        *)
Abs == INSTANCE ProtocolSelection WITH
  Offered <- [c \in Conns |-> Negotiable(c)],
  Supported <- Http1Protocols \cup DOMAIN SpdyVersionOf,
  Default <- [c \in Conns |->
                IF ~SSL[Owner[c]] /\ PlaintextProtocol[Owner[c]] \in DOMAIN SpdyVersionOf
                THEN GetCodecProtocolFromStr(PlaintextProtocol[Owner[c]]) ELSE "HTTP_1_1"],
  negotiated <- [c \in Conns |-> IF conn[c].state = "idle" THEN "none" ELSE conn[c].np],
  served <- [c \in Conns |->
               CASE conn[c].state \in {"idle", "pending"} -> "none"
                 [] conn[c].state = "closed" -> "refused"
                 [] OTHER -> ProtocolOf(conn[c])]

AcceptorImplementsSelection == Abs!Spec
=============================================================================
