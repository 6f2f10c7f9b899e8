-------------------------- MODULE ProtocolSelection --------------------------
(***************************************************************************)
(* What an acceptor promises each connection, stated without its branches: *)
(* once the transport hands a connection over with the protocol string the *)
(* client negotiated, the connection is served with the CodecProtocol that *)
(* string names when the server speaks it, served with the                *)
(* acceptor's default protocol when nothing was negotiated, and refused    *)
(* otherwise; each connection reaches its own acceptor, so what it may     *)
(* offer and its default are per connection;                               *)
(* and every connection handed over is eventually served or refused.       *)
(***************************************************************************)
EXTENDS CodecProtocol

CONSTANTS
  Conns,      \* connections
  Offered,    \* per connection: the next-protocol strings it may arrive with
  Supported,  \* the strings the server speaks
  Default     \* per connection: its CodecProtocol when it negotiated nothing

VARIABLES
  negotiated, \* per connection: "none" before hand-over, then the string
  served      \* per connection: "none", "refused", or a CodecProtocol

absVars == <<negotiated, served>>

Selected(c, p) ==
  CASE p = "" -> Default[c]
    [] p \in Supported -> GetCodecProtocolFromStr(p)
    [] OTHER -> "refused"

Init ==
  /\ negotiated = [c \in Conns |-> "none"]
  /\ served = [c \in Conns |-> "none"]

Negotiate(c, p) ==
  /\ negotiated[c] = "none"
  /\ negotiated' = [negotiated EXCEPT ![c] = p]
  /\ UNCHANGED served

Serve(c) ==
  /\ negotiated[c] # "none"
  /\ served[c] = "none"
  /\ served' = [served EXCEPT ![c] = Selected(c, negotiated[c])]
  /\ UNCHANGED negotiated

Next == \E c \in Conns : (\E p \in Offered[c] : Negotiate(c, p)) \/ Serve(c)

Spec == Init /\ [][Next]_absVars /\ \A c \in Conns : WF_absVars(Serve(c))
=============================================================================
