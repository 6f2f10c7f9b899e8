----------------------------- MODULE HeaderBlock -----------------------------
(***************************************************************************)
(* The uncompressed SPDY Name/Value block of GzipHeaderCodec: how encode() *)
(* sorts, merges and serializes a header list (GzipHeaderCodec.cpp         *)
(* 134-208) and how parseNameValues() and the tail of decode() walk an     *)
(* inflated image back into header pieces (GzipHeaderCodec.cpp 303-398).   *)
(*                                                                         *)
(* Bytes are integers 0..255.  A W-byte big-endian size field of the wire  *)
(* is one element of the image holding n % SizeModulus (SizeModulus is     *)
(* 2^(8W): 2^16 for SPDY/2, 2^32 for SPDY/3); the model counts image       *)
(* length in elements, so the caps below are in the same unit.             *)
(***************************************************************************)
EXTENDS Integers, Sequences, SequencesExt, TLC

CONSTANTS
  SizeModulus,       \* 2^(8 * nameValueSize) of the connection's version
  CounterModulus,    \* 2^32: width of the uint32_t loop bound numNV * 2
  CommonHeaderCodes, \* function: lowercase common header name -> its code
  MaxExpanded,       \* kMaxExpandedHeaderLineBytes (80 * 1024 in the code)
  MaxAlloc,          \* the largest new char[len] the process can satisfy
  SortThreshold      \* libstdc++'s _S_threshold (16): std::sort's cutoff

ASSUME SizeModulus \in Nat \ {0} /\ CounterModulus \in Nat \ {0}
ASSUME MaxExpanded \in Nat /\ MaxAlloc \in Nat /\ SortThreshold \in Nat

NUL == 0
HTTP_HEADER_OTHER == 1

(* folly::toLowerAscii: A-Z become a-z, every other byte is unchanged.     *)
ToLowerAscii(s) == [k \in DOMAIN s |-> IF s[k] \in 65..90 THEN s[k] + 32 ELSE s[k]]

(* The classification code of a name (HTTPCommonHeaders, matched without  *)
(* regard to case); every other name is HTTP_HEADER_OTHER.                 *)
HeaderCode(name) ==
  IF ToLowerAscii(name) \in DOMAIN CommonHeaderCodes
  THEN CommonHeaderCodes[ToLowerAscii(name)] ELSE HTTP_HEADER_OTHER

MakeHeader(name, value) == [code |-> HeaderCode(name), name |-> name, value |-> value]

(* std::string operator<: lexicographic on bytes, a prefix first.         *)
RECURSIVE BytesLess(_, _)
BytesLess(a, b) ==
  IF a = <<>> THEN b # <<>>
  ELSE IF b = <<>> THEN FALSE
  ELSE IF Head(a) # Head(b) THEN Head(a) < Head(b)
  ELSE BytesLess(Tail(a), Tail(b))

(* Header::operator<: by code, then by the name as given (not lowercased). *)
HeaderLess(h1, h2) ==
  \/ h1.code < h2.code
  \/ h1.code = h2.code /\ BytesLess(h1.name, h2.name)

(* std::sort(headers.begin(), headers.end()): libstdc++ partitions (intro-  *)
(* sort) only lists longer than _S_threshold and finishes with an         *)
(* insertion sort, which moves an element only past greater ones.  A short *)
(* list therefore keeps equal headers in their order; a long one may come  *)
(* out in any order that HeaderLess sorts.                                 *)
SortOutcomes(hs) ==
  LET sorted == { p \in Permutations(DOMAIN hs) :
                    \A k \in DOMAIN hs : k < Len(hs) => ~HeaderLess(hs[p[k + 1]], hs[p[k]]) }
      stable == { p \in sorted :
                    \A k \in DOMAIN hs : k < Len(hs) /\ ~HeaderLess(hs[p[k]], hs[p[k + 1]])
                                         => p[k] < p[k + 1] }
  IN { [k \in DOMAIN hs |-> hs[p[k]]] : p \in IF Len(hs) <= SortThreshold THEN stable ELSE sorted }

(* appendSizeFun writes n in a W-byte field: only n % 2^(8W) survives.     *)
SizeField(n) == n % SizeModulus

(* Mutant of ReserveBound: the leading count field is left out.          *)
ReserveBoundNoCount(H) ==
  FoldLeft(LAMBDA x, h : x + 1 + Len(h.name) + 1 + Len(h.value), 0, H)

(* maxUncompressedSize of encode(), the space reserved before serializing: *)
(* the count field, then for every header, merged or not, a name field,    *)
(* the name, a value field and the value.  A size field is one element of  *)
(* an image here, as it is in SizeField.                                   *)
ReserveBound(H) ==
  1 + FoldLeft(LAMBDA x, h : x + 1 + Len(h.name) + 1 + Len(h.value), 0, H)

(* Mutant of EncodeStep: the merge branch rewrites the length field but   *)
(* forgets to keep lastValueLen, so a third value gets a stale length.    *)
EncodeStepStaleLen(acc, h) ==
  IF h.code # acc.lastCode \/ h.name # acc.lastName
  THEN [acc EXCEPT
          !.img = @ \o <<SizeField(Len(h.name))>> \o ToLowerAscii(h.name)
                    \o <<SizeField(Len(h.value))>> \o h.value,
          !.numHeaders = @ + 1,
          !.lenPos = Len(acc.img) + 1 + Len(h.name) + 1,
          !.lastValueLen = Len(h.value),
          !.lastCode = h.code,
          !.lastName = h.name]
  ELSE IF acc.lenPos = 0
  THEN [acc EXCEPT !.fault = TRUE]
  ELSE [acc EXCEPT !.img = [(@ \o <<NUL>> \o h.value) EXCEPT
                             ![acc.lenPos] = SizeField(acc.lastValueLen + 1 + Len(h.value))]]

(* One iteration of the serialization loop of encode().  img starts with  *)
(* the slot reserved for the count of unique names; lenPos is              *)
(* lastValueLenPtr (0 for nullptr); fault records a write through it       *)
(* while it is still nullptr.                                              *)
EncodeStep(acc, h) ==
  IF h.code # acc.lastCode \/ h.name # acc.lastName
  THEN [acc EXCEPT
          !.img = @ \o <<SizeField(Len(h.name))>> \o ToLowerAscii(h.name)
                    \o <<SizeField(Len(h.value))>> \o h.value,
          !.numHeaders = @ + 1,
          !.lenPos = Len(acc.img) + 1 + Len(h.name) + 1,
          !.lastValueLen = Len(h.value),
          !.lastCode = h.code,
          !.lastName = h.name]
  ELSE IF acc.lenPos = 0
  THEN [acc EXCEPT !.fault = TRUE]
  ELSE LET newLen == acc.lastValueLen + 1 + Len(h.value)
       IN [acc EXCEPT
             !.img = [(@ \o <<NUL>> \o h.value) EXCEPT ![acc.lenPos] = SizeField(newLen)],
             !.lastValueLen = newLen]

(* The uncompressed image encode() hands to deflate for a sorted list, and *)
(* whether the loop wrote through a null lastValueLenPtr.                  *)
Serialize(sorted) ==
  LET acc == FoldLeft(EncodeStep,
                      [img |-> <<0>>, numHeaders |-> 0, lenPos |-> 0,
                       lastValueLen |-> 0, lastCode |-> HTTP_HEADER_OTHER,
                       lastName |-> <<>>, fault |-> FALSE],
                      sorted)
  IN [img |-> [acc.img EXCEPT ![1] = SizeField(acc.numHeaders)], fault |-> acc.fault]

-----------------------------------------------------------------------------
(* Decoding side.  A piece is a HeaderPiece: its bytes and whether it was  *)
(* produced by splitting a NUL-joined value (multiValued).                 *)
Piece(str, multi) == [str |-> str, multi |-> multi]

(* Mutant of ValidName: the uppercase test is left out.                   *)
ValidNameNoCase(str) == \A k \in DOMAIN str : str[k] \in 32..126

(* A name is valid when every byte is in 0x20..0x7e and is not A-Z.       *)
ValidName(str) == \A k \in DOMAIN str : str[k] \in 32..126 \ 65..90

(* The NUL-separated segments of a value, in order.                        *)
RECURSIVE SplitAtNul(_)
SplitAtNul(s) ==
  IF \A k \in DOMAIN s : s[k] # NUL THEN <<s>>
  ELSE LET k == CHOOSE k \in DOMAIN s : s[k] = NUL /\ \A j \in 1..(k - 1) : s[j] # NUL
       IN <<SubSeq(s, 1, k - 1)>> \o SplitAtNul(SubSeq(s, k + 1, Len(s)))

(* The value branch of parseNameValues: a value without NUL is kept as it  *)
(* is; otherwise its first segment stays in the value piece and every      *)
(* later segment adds a (name, segment) pair flagged multiValued, counted  *)
(* in expandedHeaderLineBytes.  Any empty segment is EMPTY_HEADER_VALUE.   *)
ExpandValue(name, value) ==
  LET segs == SplitAtNul(value)
  IN IF Len(segs) = 1 THEN [err |-> "none", pieces |-> <<Piece(value, FALSE)>>, expanded |-> 0]
     ELSE IF \E k \in DOMAIN segs : segs[k] = <<>>
     THEN [err |-> "EMPTY_HEADER_VALUE", pieces |-> <<>>, expanded |-> 0]
     ELSE [err |-> "none",
           pieces |-> <<Piece(segs[1], FALSE)>> \o
                      FlattenSeq([k \in 1..(Len(segs) - 1) |->
                                   <<Piece(name, TRUE), Piece(segs[k + 1], TRUE)>>]),
           expanded |-> FoldLeft(LAMBDA x, s : x + Len(s) + Len(name), 0,
                                 SubSeq(segs, 2, Len(segs)))]

Failed(e) == [err |-> e, pieces |-> <<>>, expanded |-> 0]

(* The loop of parseNameValues over slots i .. bound-1 from cursor pos.    *)
(* A read past the end of the image throws std::out_of_range, which        *)
(* decode() turns into BAD_ENCODING; the non-contiguous branch first      *)
(* allocates len bytes, then pulls them from a single buffer, and so       *)
(* throws exactly when they are missing.  An allocation the process cannot *)
(* satisfy throws std::bad_alloc out of the noexcept decode(): TERMINATE.  *)
RECURSIVE ParseSlots(_, _, _, _, _)
ParseSlots(img, pos, i, bound, acc) ==
  IF i >= bound THEN acc
  ELSE IF pos > Len(img) THEN Failed("BAD_ENCODING")
  ELSE LET len == img[pos]
           str == SubSeq(img, pos + 1, pos + len)
           isName == i % 2 = 0
       IN IF len = 0 /\ isName THEN Failed("EMPTY_HEADER_NAME")
          ELSE IF Len(img) - pos < len
          THEN Failed(IF len > MaxAlloc THEN "TERMINATE" ELSE "BAD_ENCODING")
          ELSE IF isName
          THEN IF ~ValidName(str) THEN Failed("INVALID_HEADER_VALUE")
               ELSE ParseSlots(img, pos + 1 + len, i + 1, bound,
                               [acc EXCEPT !.pieces = Append(@, Piece(str, FALSE)),
                                           !.name = str])
          ELSE LET v == ExpandValue(acc.name, str)
               IN IF v.err # "none" THEN Failed(v.err)
                  ELSE ParseSlots(img, pos + 1 + len, i + 1, bound,
                                  [acc EXCEPT !.pieces = @ \o v.pieces,
                                              !.expanded = @ + v.expanded])

(* Mutant of ParseNameValues: the loop walks numNV slots, not numNV * 2.   *)
ParseNameValuesSingleSlot(img) ==
  IF img = <<>> THEN Failed("BAD_ENCODING")
  ELSE LET r == ParseSlots(img, 2, 0, img[1] % CounterModulus,
                           [err |-> "none", pieces |-> <<>>, expanded |-> 0, name |-> <<>>])
       IN [err |-> r.err, pieces |-> r.pieces, expanded |-> r.expanded]

(* parseNameValues: read numNV, then walk numNV * 2 (a uint32_t) slots.    *)
ParseNameValues(img) ==
  IF img = <<>> THEN Failed("BAD_ENCODING")
  ELSE LET r == ParseSlots(img, 2, 0, (img[1] * 2) % CounterModulus,
                           [err |-> "none", pieces |-> <<>>, expanded |-> 0, name |-> <<>>])
       IN [err |-> r.err, pieces |-> r.pieces, expanded |-> r.expanded]

(* The part of decode() after inflation: parse, then the expanded cap.     *)
DecodeImage(img) ==
  LET r == ParseNameValues(img)
  IN IF r.err # "none" THEN r
     ELSE IF r.expanded > MaxExpanded THEN Failed("HEADERS_TOO_LARGE")
     ELSE r
=============================================================================
