---------------------------- MODULE GzipHeaderCodec ----------------------------
(***************************************************************************)
(* One direction of a SPDY connection's header compression: the sending    *)
(* peer's deflate stream, the frames in transit, and the receiving         *)
(* GzipHeaderCodec's decode() with its persistent inflater_.               *)
(*                                                                         *)
(* DEFLATE is its LZ77 layer (module Deflate): a frame carries the tokens  *)
(* its image compressed to against the sender's window (the dictionary, if *)
(* primed, then every image sent before); inflate expands them against    *)
(* the receiver's window.  A stream primed with a dictionary makes the     *)
(* first inflate() return Z_NEED_DICT.                                     *)
(***************************************************************************)
EXTENDS HeaderBlock

CONSTANTS
  Peers,            \* the kinds of sending peer a run considers
  Version,          \* the connection's SPDY version (selects the dictionary)
  OtherDicts,       \* dictionaries of other versions a foreign peer may use
  NoDict,           \* stream not primed: compression level Z_NO_COMPRESSION
  DictBytes,        \* the bytes of the version's preload dictionary
  Inputs,           \* header lists handed to encode() (sequences of MakeHeader)
  ForeignEntries,   \* wire entries a foreign SPDY encoder may send
  RawImages,        \* crafted uncompressed images a hostile peer may deflate
  MaxUncompressed,  \* maxUncompressed_ of the receiving codec
  MaxFrames,        \* bound on the frames the sender sends
  MallocSlack,      \* bytes an allocation may get beyond the size asked for
  NeighbourCalls    \* [size, need] of other codecs' calls on the receiving thread

ASSUME MaxUncompressed \in Nat /\ MaxFrames \in Nat /\ MallocSlack \subseteq Nat

VARIABLES
  peer,         \* "proxygen": the sender runs encode(); "foreign": another encoder
  senderDict,   \* the dictionary the sender's deflater was primed with, or NoDict
  deflater,     \* the sender's deflater_: every image compressed so far, in order
  encodedSize,  \* the sender's encodedSize_.uncompressed
  chan,         \* header blocks in transit, in order (the connection is TCP)
  inflater,     \* the receiver's inflater_: [hist, dictSet]
  outHeaders,   \* the receiver's outHeaders_
  decodedSize,  \* the receiver's decodedSize_.uncompressed
  last,         \* the last decode(): the block and the result it returned
  closed,       \* the receiving session closed the connection after an error
  crashed,      \* the sending process died writing through a null pointer
  sent,         \* number of blocks sent
  scratch       \* capacity of the receiving thread's header buffer (0: none yet)

vars == <<peer, senderDict, deflater, encodedSize, chan, inflater, outHeaders,
          decodedSize, last, closed, crashed, sent, scratch>>

Dicts == {Version} \cup OtherDicts
Errors == {"BAD_ENCODING", "INFLATE_DICTIONARY", "HEADERS_TOO_LARGE",
           "EMPTY_HEADER_NAME", "EMPTY_HEADER_VALUE", "INVALID_HEADER_VALUE"}
(* What a decode() can end in: a HeaderDecodeError, or std::terminate.     *)
Outcomes == Errors \cup {"TERMINATE"}
NoDecode == [kind |-> "none"]

Lz == INSTANCE Deflate

(* The bytes a deflate stream's window holds: the dictionary it was primed *)
(* with, then every image it carried, in order.                            *)
Window(primed, hist) == (IF primed THEN DictBytes ELSE <<>>) \o FlattenSeq(hist)

(* The image a non-proxygen encoder sends for a list of wire entries.     *)
WireImage(E) ==
  <<SizeField(Len(E))>> \o
  FlattenSeq([k \in DOMAIN E |-> <<SizeField(Len(E[k].name))>> \o E[k].name
                                   \o <<SizeField(Len(E[k].value))>> \o E[k].value])

(* A compressed block: its tokens against the sender's window (stored    *)
(* bytes on an unprimed, Z_NO_COMPRESSION stream), the priming dictionary, *)
(* and whether it opens the stream, carrying the zlib header that deflate() *)
(* writes on its first output; img, hdrs and entries record what the       *)
(* sender started from (history only, for the properties).                 *)
Block(kind, img, hdrs, entries) ==
  [kind |-> kind,
   tokens |-> IF senderDict = NoDict THEN Lz!Stored(img)
              ELSE Lz!Compress(Window(TRUE, deflater), img),
   dict |-> senderDict, first |-> deflater = <<>>,
   img |-> img, hdrs |-> hdrs, entries |-> entries]

TypeOK ==
  /\ peer \in {"proxygen", "foreign"}
  /\ senderDict \in Dicts \cup {NoDict}
  /\ deflater \in Seq(Seq(Int))
  /\ encodedSize \in Nat
  /\ chan \in Seq([kind : {"encode", "foreign", "raw", "garbage", "empty"}, img : Seq(Int),
                   tokens : Seq([dist : Nat, len : Nat, byte : Int]), dict : Dicts \cup {NoDict},
                   first : BOOLEAN,
                   hdrs : Seq([code : Int, name : Seq(Int), value : Seq(Int)]),
                   entries : Seq([name : Seq(Int), value : Seq(Int)])])
  /\ inflater \in [hist : Seq(Seq(Int)), dictSet : BOOLEAN]
  /\ outHeaders \in Seq([str : Seq(Int), multi : BOOLEAN])
  /\ decodedSize \in Nat
  /\ last = NoDecode \/ last.err \in Outcomes \cup {"none"}
  /\ closed \in BOOLEAN
  /\ crashed \in BOOLEAN
  /\ sent \in 0..MaxFrames
  /\ scratch \in Nat

(* The sender is a GzipHeaderCodec (primed by getZlibContext unless the   *)
(* level is Z_NO_COMPRESSION) or another implementation, whose dictionary *)
(* may be any version's.  The receiver's inflater_ is a fresh clone.       *)
Init ==
  /\ peer \in Peers
  /\ senderDict \in IF peer = "proxygen" THEN {Version, NoDict} ELSE Dicts \cup {NoDict}
  /\ deflater = <<>>
  /\ encodedSize = 0
  /\ chan = <<>>
  /\ inflater = [hist |-> <<>>, dictSet |-> FALSE]
  /\ outHeaders = <<>>
  /\ decodedSize = 0
  /\ last = NoDecode
  /\ closed = FALSE
  /\ crashed = FALSE
  /\ sent = 0
  /\ scratch = 0

-----------------------------------------------------------------------------
(* GzipHeaderCodec::encode(headers): sort, serialize, deflate with        *)
(* Z_SYNC_FLUSH (the window keeps the image), record encodedSize_.        *)
Encode(H) ==
  /\ peer = "proxygen"
  /\ ~crashed
  /\ sent < MaxFrames
  /\ \E sorted \in SortOutcomes(H) :
       LET s == Serialize(sorted) IN
       IF s.fault
       THEN /\ crashed' = TRUE
            /\ UNCHANGED <<chan, deflater, encodedSize, sent>>
       ELSE /\ chan' = Append(chan, Block("encode", s.img, H, <<>>))
            /\ deflater' = Append(deflater, s.img)
            /\ encodedSize' = Len(s.img)
            /\ sent' = sent + 1
            /\ UNCHANGED crashed
  /\ UNCHANGED <<peer, senderDict, inflater, outHeaders, decodedSize, last, closed, scratch>>

(* A foreign encoder compressing the entries on the same kind of stream.  *)
ForeignEncode(E) ==
  /\ peer = "foreign"
  /\ sent < MaxFrames
  /\ chan' = Append(chan, Block("foreign", WireImage(E), <<>>, E))
  /\ deflater' = Append(deflater, WireImage(E))
  /\ sent' = sent + 1
  /\ UNCHANGED <<peer, senderDict, encodedSize, inflater, outHeaders, decodedSize,
                 last, closed, crashed, scratch>>

(* A hostile peer deflating an image of its own making on the stream:    *)
(* a count field that disagrees with the entries, or lengths running past *)
(* the end of the image.                                                   *)
ForeignEncodeRaw(img) ==
  /\ peer = "foreign"
  /\ sent < MaxFrames
  /\ chan' = Append(chan, Block("raw", img, <<>>, <<>>))
  /\ deflater' = Append(deflater, img)
  /\ sent' = sent + 1
  /\ UNCHANGED <<peer, senderDict, encodedSize, inflater, outHeaders, decodedSize,
                 last, closed, crashed, scratch>>

(* Mutant of ForeignSend: the bound on blocks sent is not checked.        *)
ForeignSendUnbounded(kind) ==
  /\ peer = "foreign"
  /\ chan' = Append(chan, Block(kind, <<>>, <<>>, <<>>))
  /\ sent' = sent + 1
  /\ UNCHANGED <<peer, senderDict, deflater, encodedSize, inflater, outHeaders,
                 decodedSize, last, closed, crashed, scratch>>

(* A foreign peer sends bytes that are not DEFLATE data, or an empty      *)
(* header block (length 0).                                                *)
ForeignSend(kind) ==
  /\ peer = "foreign"
  /\ sent < MaxFrames
  /\ chan' = Append(chan, Block(kind, <<>>, <<>>, <<>>))
  /\ sent' = sent + 1
  /\ UNCHANGED <<peer, senderDict, deflater, encodedSize, inflater, outHeaders,
                 decodedSize, last, closed, crashed, scratch>>

-----------------------------------------------------------------------------
(* The thread's header buffer after getStaticHeaderBufSpace(size), given  *)
(* its capacity cap (0: the thread has none yet): reused and cleared if it *)
(* holds size bytes, else replaced by a new IOBuf whose capacity the       *)
(* allocator may round up.                                                 *)
BufSpace(cap, size) ==
  IF cap > 0 /\ size <= cap THEN {cap} ELSE {size + s : s \in MallocSlack}

(* IOBuf::reserve(0, need) on the cleared buffer: reallocated when its    *)
(* tailroom is short.                                                      *)
Reserve(cap, need) ==
  IF need <= cap THEN {cap} ELSE {need + s : s \in MallocSlack}

(* Another codec's encode() or decode() on the receiving thread (the      *)
(* session's egress codec, or another session on the same event base):    *)
(* getStaticHeaderBufSpace with its own maxUncompressed_, then encode's   *)
(* reserve of its serialized size (need 0 for a decode).                  *)
NeighbourCall(c) ==
  /\ \E b \in BufSpace(scratch, c.size) : scratch' \in Reserve(b, c.need)
  /\ UNCHANGED <<peer, senderDict, deflater, encodedSize, chan, inflater, outHeaders,
                 decodedSize, last, closed, crashed, sent>>

ScratchFill(cap, n) ==
  CASE n <= cap -> [cap |-> cap, err |-> IF n > MaxUncompressed THEN "HEADERS_TOO_LARGE" ELSE "none"]
    [] cap > MaxUncompressed -> [cap |-> cap, err |-> "HEADERS_TOO_LARGE"]
    [] OTHER -> [cap |-> 2 * cap, err |-> "HEADERS_TOO_LARGE"]

(* Mutant of Inflate: the inflater records which dictionary it was given  *)
(* instead of whether it has one.                                          *)
InflateDictRecord(b, cap) ==
  LET dictSet == inflater.dictSet \/ (b.first /\ b.dict # NoDict)
      out == Lz!Decompress(Window(dictSet, inflater.hist), b.tokens)
      fill == ScratchFill(cap, Len(out.img))
  IN CASE b.kind = "garbage" -> [err |-> "BAD_ENCODING", cap |-> cap]
       [] b.first # (inflater.hist = <<>>) -> [err |-> "BAD_ENCODING", cap |-> cap]
       [] b.first /\ b.dict # NoDict /\ b.dict # Version
            -> [err |-> "INFLATE_DICTIONARY", cap |-> cap]
       [] ~out.ok -> [err |-> "BAD_ENCODING", cap |-> cap]
       [] fill.err # "none" -> fill
       [] OTHER -> [err |-> "none", img |-> out.img, dictSet |-> b.dict, cap |-> cap]

(* The inflate loop of decode() into the thread's buffer of capacity cap: *)
(* inflate() reads the zlib header at the start of the stream and only     *)
(* there (a block that opens the stream reaching an inflater that is past  *)
(* it, or the reverse, fails the header or block-type check); its FDICT   *)
(* flag makes the first block of a primed stream return Z_NEED_DICT,      *)
(* answered by inflateSetDictionary, which fails unless the dictionary is *)
(* this version's; any other non-zero return is BAD_ENCODING (a distance   *)
(* past the window); the bytes written are checked against               *)
(* maxUncompressed_.                                                       *)
(* cap is the buffer's capacity when decode() returns.                    *)
Inflate(b, cap) ==
  LET dictSet == inflater.dictSet \/ (b.first /\ b.dict # NoDict)
      out == Lz!Decompress(Window(dictSet, inflater.hist), b.tokens)
      fill == ScratchFill(cap, Len(out.img))
  IN CASE b.kind = "garbage" -> [err |-> "BAD_ENCODING", cap |-> cap]
       [] b.first # (inflater.hist = <<>>) -> [err |-> "BAD_ENCODING", cap |-> cap]
       [] b.first /\ b.dict # NoDict /\ b.dict # Version
            -> [err |-> "INFLATE_DICTIONARY", cap |-> cap]
       [] ~out.ok -> [err |-> "BAD_ENCODING", cap |-> cap]
       [] fill.err # "none" -> fill
       [] OTHER -> [err |-> "none", img |-> out.img, dictSet |-> dictSet, cap |-> cap]

(* GzipHeaderCodec::decode(cursor, length) on the next block.  An empty   *)
(* block returns at once; otherwise the block is inflated, decodedSize_   *)
(* recorded, and the image parsed.  On an error the session closes the    *)
(* connection (the inflater_ is left undefined).                          *)
Decode ==
  /\ ~closed
  /\ chan # <<>>
  /\ LET b == Head(chan) IN
     IF b.kind = "empty"
     THEN /\ last' = [kind |-> b.kind, block |-> b, err |-> "none"]
          /\ outHeaders' = <<>>
          /\ UNCHANGED <<inflater, decodedSize, closed, scratch>>
     ELSE \E cap \in BufSpace(scratch, MaxUncompressed) :
          LET i == Inflate(b, cap) IN
          /\ scratch' = i.cap
          /\ IF i.err # "none"
             THEN /\ last' = [kind |-> b.kind, block |-> b, err |-> i.err]
                  /\ outHeaders' = <<>>
                  /\ closed' = TRUE
                  /\ UNCHANGED <<inflater, decodedSize>>
             ELSE LET r == DecodeImage(i.img) IN
                  /\ inflater' = [hist |-> Append(inflater.hist, i.img), dictSet |-> i.dictSet]
                  /\ decodedSize' = Len(i.img)
                  /\ last' = [kind |-> b.kind, block |-> b, err |-> r.err]
                  /\ outHeaders' = r.pieces
                  /\ closed' = (r.err # "none")
  /\ chan' = Tail(chan)
  /\ UNCHANGED <<peer, senderDict, deflater, encodedSize, crashed, sent>>

-----------------------------------------------------------------------------
(* What the spec (sections 4.F, 6, 7) says a decode must return, defined  *)
(* from the wire entries rather than by walking the image.                 *)

(* The segments of a value between NULs, in order.                         *)
SpecSegments(v) ==
  LET cuts == <<0>> \o SetToSortSeq({k \in DOMAIN v : v[k] = NUL}, <)
                    \o <<Len(v) + 1>>
  IN [j \in 1..(Len(cuts) - 1) |-> SubSeq(v, cuts[j] + 1, cuts[j + 1] - 1)]

SpecNameOK(n) == \A k \in DOMAIN n : n[k] >= 32 /\ n[k] <= 126 /\ ~(n[k] >= 65 /\ n[k] <= 90)

(* The error the spec names for one entry, or "none".                      *)
SpecEntryError(e) ==
  CASE e.name = <<>> -> "EMPTY_HEADER_NAME"
    [] ~SpecNameOK(e.name) -> "INVALID_HEADER_VALUE"
    [] \E j \in DOMAIN SpecSegments(e.value) : SpecSegments(e.value)[j] = <<>>
         -> "EMPTY_HEADER_VALUE"
    [] OTHER -> "none"

(* |name| + |segment| over every segment after the first.                  *)
SpecExpanded(E) ==
  FoldLeft(LAMBDA x, e : x + (Len(SpecSegments(e.value)) - 1) * Len(e.name)
                           + Len(e.value) - (Len(SpecSegments(e.value)) - 1)
                           - Len(SpecSegments(e.value)[1]),
           0, E)

(* The verdict for a block a foreign peer sent on a stream primed with    *)
(* dict: none for an empty block, else the first error in wire order, else *)
(* the caps.                                                               *)
SpecVerdict(b) ==
  LET bad == {k \in DOMAIN b.entries : SpecEntryError(b.entries[k]) # "none"} IN
  CASE b.kind = "empty" -> "none"
    [] b.kind = "garbage" -> "BAD_ENCODING"
    [] b.dict \in OtherDicts -> "INFLATE_DICTIONARY"
    [] Len(b.img) > MaxUncompressed -> "HEADERS_TOO_LARGE"
    [] bad # {} -> SpecEntryError(b.entries[Min(bad)])
    [] SpecExpanded(b.entries) > MaxExpanded -> "HEADERS_TOO_LARGE"
    [] OTHER -> "none"

(* The names and values a successful decode returns, in wire order: each  *)
(* entry's name with each of its value's segments.                         *)
SpecStrings(E) ==
  FlattenSeq([k \in DOMAIN E |->
    FlattenSeq([j \in DOMAIN SpecSegments(E[k].value) |->
                  <<E[k].name, SpecSegments(E[k].value)[j]>>])])

Strings(pieces) == [k \in DOMAIN pieces |-> pieces[k].str]

(* The (name, value) pairs of a piece list, and of an encode() input with *)
(* its names lowercased.                                                   *)
PairsOf(pieces) == [k \in 1..(Len(pieces) \div 2) |-> <<pieces[2 * k - 1].str, pieces[2 * k].str>>]
InputPairs(H) == [k \in DOMAIN H |-> <<ToLowerAscii(H[k].name), H[k].value>>]

-----------------------------------------------------------------------------
(* Round trip over a persistent stream (spec section 8): every block that *)
(* this code's encode() produced is decoded by the peer's decode(), on the *)
(* windows both keep across blocks and after the deferred dictionary load, *)
(* into the encoded headers with names lowercased and merged duplicates    *)
(* re-expanded (as a bag: the sort does not keep their order).             *)
EncodedBlocksRoundTrip ==
  last # NoDecode /\ last.kind = "encode" =>
    /\ last.err = "none"
    /\ ToBag(PairsOf(outHeaders)) = ToBag(InputPairs(last.block.hdrs))

(* The values of one name, in the order a pair list carries them.         *)
ValuesOf(pairs, n) == [k \in 1..Len(SelectSeq(pairs, LAMBDA q : q[1] = n)) |->
                         SelectSeq(pairs, LAMBDA q : q[1] = n)[k][2]]

(* encode() writes the image through raw pointers (dst, lastValueLenPtr) *)
(* with no bounds check, into a buffer reserved from an estimate taken     *)
(* before the sort's duplicates are merged (GzipHeaderCodec.cpp 147-163):   *)
(* every image encode() sends fits the space it reserved.  A size field    *)
(* counts as one byte here, the tightest case: a merge saves 2W + |name|    *)
(* bytes of the estimate and spends one NUL.                                *)
EncodeStaysInReservation ==
  \A i \in DOMAIN chan : chan[i].kind = "encode" => Len(chan[i].img) <= ReserveBound(chan[i].hdrs)

(* Spec section 8, round-trip law: the values of a repeated header are    *)
(* merged and re-expanded "preserving relative order across duplicates"   *)
(* (a Set-Cookie list keeps its order), whatever order std::sort leaves    *)
(* them in.                                                                 *)
DuplicateOrderPreserved ==
  last # NoDecode /\ last.kind = "encode" /\ last.err = "none" =>
    \A n \in {q[1] : q \in Range(InputPairs(last.block.hdrs))} :
      ValuesOf(PairsOf(outHeaders), n) = ValuesOf(InputPairs(last.block.hdrs), n)

(* decode() of what another encoder sent returns exactly the error or the *)
(* pieces the spec prescribes: no headers for an empty block, dictionary  *)
(* mismatch, garbage, the maxUncompressed_ cap, name and value validation *)
(* in wire order, the expanded-bytes cap, and NUL-joined values split into *)
(* repeated pairs.                                                         *)
ForeignBlocksDecodeAsSpecified ==
  last # NoDecode /\ last.kind \in {"foreign", "garbage", "empty"} =>
    /\ last.err = SpecVerdict(last.block)
    /\ last.err = "none" => Strings(outHeaders) = SpecStrings(last.block.entries)

EntryNames(pieces) ==
  [k \in {j \in 1..(Len(pieces) \div 2) : ~pieces[2 * j - 1].multi} |-> pieces[2 * k - 1].str]

(* encode() combines the values of headers with the same name because     *)
(* "the SPDY spec prohibits any header name from appearing more than once  *)
(* in the Name/Value list" (GzipHeaderCodec.cpp 136-139): no two entries   *)
(* of an encoded block carry the same name.                                *)
EncodedNamesUnique ==
  last # NoDecode /\ last.kind = "encode" /\ last.err = "none" =>
    \A j, k \in DOMAIN EntryNames(outHeaders) :
      j # k => EntryNames(outHeaders)[j] # EntryNames(outHeaders)[k]

(* Spec 4.F: the parser reads the count N and then 2N length-prefixed    *)
(* slots, so a decode() that succeeds returns exactly the N entries the    *)
(* block declares; it never silently skips declared entries (the loop     *)
(* bound numNV * 2 of parseNameValues is a uint32_t).                      *)
DecodedCountMatchesDeclared ==
  last # NoDecode /\ last.kind # "empty" /\ last.err = "none" =>
    Cardinality(DOMAIN EntryNames(outHeaders)) = last.block.img[1]

(* decode() is noexcept and reports malformed input as an error (spec     *)
(* section 7): no length a peer writes makes it take the process down.    *)
NoDecodeTerminates == last = NoDecode \/ last.err # "TERMINATE"

(* The sending process never writes a value length through the null      *)
(* lastValueLenPtr of encode().                                            *)
NoNullLengthWrite == ~crashed

-----------------------------------------------------------------------------
Next ==
  \/ \E H \in Inputs : Encode(H)
  \/ \E E \in ForeignEntries : ForeignEncode(E)
  \/ \E kind \in {"garbage", "empty"} : ForeignSend(kind)
  \/ \E img \in RawImages : ForeignEncodeRaw(img)
  \/ Decode
  \/ \E c \in NeighbourCalls : NeighbourCall(c)

Spec == Init /\ [][Next]_vars /\ WF_vars(Decode)
=============================================================================
