---------------------------- MODULE CodecProtocol ----------------------------
(***************************************************************************)
(* The CodecProtocol names of CodecProtocol.cpp: the enum values (strings  *)
(* named after the enumerators), their next-protocol strings, and the      *)
(* predicates the session layer asks of them.                              *)
(***************************************************************************)

CodecProtocols ==
  {"HTTP_1_1", "SPDY_2", "SPDY_3", "SPDY_3_1", "SPDY_3_1_HPACK", "HTTP_2"}

(* getCodecProtocolString: the switch covers every enumerator, so the     *)
(* LOG(FATAL) after it is unreachable.                                     *)
GetCodecProtocolString(proto) ==
  CASE proto = "HTTP_1_1" -> "http/1.1"
    [] proto = "SPDY_2" -> "spdy/2"
    [] proto = "SPDY_3" -> "spdy/3"
    [] proto = "SPDY_3_1" -> "spdy/3.1"
    [] proto = "SPDY_3_1_HPACK" -> "spdy/3.1-hpack"
    [] proto = "HTTP_2" -> "http/2"

IsValidCodecProtocolStr(str) ==
  str \in {"http/1.1", "spdy/2", "spdy/3", "spdy/3.1", "spdy/3.1-hpack", "http/2"}

(* Mutant of GetCodecProtocolFromStr: "spdy/3.1" is matched as SPDY_3.   *)
GetCodecProtocolFromStr31(str) ==
  CASE str = "http/1.1" -> "HTTP_1_1"
    [] str = "spdy/2" -> "SPDY_2"
    [] str \in {"spdy/3", "spdy/3.1"} -> "SPDY_3"
    [] str = "spdy/3.1-hpack" -> "SPDY_3_1_HPACK"
    [] str = "http/2" -> "HTTP_2"
    [] OTHER -> "HTTP_1_1"

(* getCodecProtocolFromStr: every other string is the default HTTP_1_1.   *)
GetCodecProtocolFromStr(str) ==
  CASE str = "http/1.1" -> "HTTP_1_1"
    [] str = "spdy/2" -> "SPDY_2"
    [] str = "spdy/3" -> "SPDY_3"
    [] str = "spdy/3.1" -> "SPDY_3_1"
    [] str = "spdy/3.1-hpack" -> "SPDY_3_1_HPACK"
    [] str = "http/2" -> "HTTP_2"
    [] OTHER -> "HTTP_1_1"

IsSpdyCodecProtocol(proto) ==
  proto \in {"SPDY_2", "SPDY_3", "SPDY_3_1", "SPDY_3_1_HPACK"}

(* Mutant of MaxProtocolPriority: SPDY/3.1 is given SPDY/2's range.       *)
MaxProtocolPriorityOld31(proto) ==
  CASE proto \in {"SPDY_2", "SPDY_3_1"} -> 3
    [] proto \in {"SPDY_3", "SPDY_3_1_HPACK"} -> 7
    [] proto \in {"HTTP_1_1", "HTTP_2"} -> 0

(* maxProtocolPriority: 2 priority bits in SPDY/2, 3 in SPDY/3.x, none   *)
(* in HTTP.                                                                *)
MaxProtocolPriority(proto) ==
  CASE proto = "SPDY_2" -> 3
    [] proto \in {"SPDY_3", "SPDY_3_1", "SPDY_3_1_HPACK"} -> 7
    [] proto \in {"HTTP_1_1", "HTTP_2"} -> 0
=============================================================================
