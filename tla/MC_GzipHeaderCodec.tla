-------------------------- MODULE MC_GzipHeaderCodec --------------------------
(* Instantiation of GzipHeaderCodec for TLC: one-letter names and values, *)
(* "h" standing for a common header (code 2, like Host), "A" an           *)
(* uppercase name of no common header, "\x1f" a control byte.             *)
EXTENDS GzipHeaderCodec

MC_a == <<97>>
MC_A == <<65>>
MC_b == <<98>>
MC_h == <<104>>
MC_H == <<72>>
MC_ctl == <<31>>
MC_x == <<120>>
MC_y == <<121>>

MC_CommonHeaderCodes == MC_h :> 2

(* The preload dictionary, like SPDY's a run of length-prefixed common   *)
(* names: here the one name h.                                            *)
MC_DictBytes == <<1>> \o MC_h

(* Every list of up to two headers over names A, b, h and values x, y,    *)
(* and lists of three where a name repeats apart, next to itself, or      *)
(* three times: duplicates, uppercase names and a common header occur.    *)
MC_Headers == {MakeHeader(n, v) : n \in {MC_A, MC_b, MC_h}, v \in {MC_x, MC_y}}
MC_Inputs ==
  BoundedSeq(MC_Headers, 2) \cup
  { <<MakeHeader(MC_h, MC_x), MakeHeader(MC_A, MC_y), MakeHeader(MC_h, MC_y)>>,
    <<MakeHeader(MC_b, MC_x), MakeHeader(MC_b, MC_y), MakeHeader(MC_A, MC_x)>>,
    <<MakeHeader(MC_A, MC_x), MakeHeader(MC_A, MC_y), MakeHeader(MC_A, MC_x)>> }

(* Wire entries of a foreign encoder: a valid one, a NUL-joined value of  *)
(* two and of three segments, empty segments at the start, the end and    *)
(* the middle, an empty, an uppercase and a control-byte name.            *)
MC_Entry(n, v) == [name |-> n, value |-> v]
MC_ForeignEntryKinds ==
  { MC_Entry(MC_a, MC_x), MC_Entry(MC_b, MC_x \o <<0>> \o MC_y),
    MC_Entry(MC_a, MC_x \o <<0>> \o MC_y \o <<0>> \o MC_x),
    MC_Entry(MC_a, <<0>> \o MC_x), MC_Entry(MC_a, MC_x \o <<0>>),
    MC_Entry(MC_a, MC_x \o <<0, 0>> \o MC_y),
    MC_Entry(<<>>, MC_x), MC_Entry(MC_A, MC_x), MC_Entry(MC_ctl, MC_x) }
MC_ForeignEntries == BoundedSeq(MC_ForeignEntryKinds, 2)

(* Two spellings of one name: an uncommon one (A, a) and a common one     *)
(* (H, h), which share a code but not their bytes.                        *)
MC_CaseInputs ==
  { <<MakeHeader(MC_A, MC_x), MakeHeader(MC_a, MC_y)>>,
    <<MakeHeader(MC_H, MC_x), MakeHeader(MC_h, MC_y)>> }

(* A repeated header one of whose values is empty (legal in HTTP/1.1).    *)
MC_EmptyValueInputs == { <<MakeHeader(MC_h, MC_x), MakeHeader(MC_h, <<>>)>> }

(* A header list with an empty name.                                       *)
MC_EmptyNameInputs == { <<MakeHeader(MC_b, MC_x), MakeHeader(<<>>, MC_y)>> }

(* A foreign entry whose whole value is empty, next to the others.        *)
MC_ForeignEmptyValueEntries ==
  BoundedSeq(MC_ForeignEntryKinds \cup {MC_Entry(MC_a, <<>>)}, 1)

(* Crafted images: a count above the entries present, a count of zero in *)
(* front of an entry, a value length running past the end of the image.   *)
MC_RawImages == { <<2, 1, 97, 1, 120>>, <<0, 1, 97, 1, 120>>, <<1, 1, 97, 9, 120>> }

(* A count of half the counter's range (2^31 for the uint32_t numNV * 2,   *)
(* scaled to 8 of 16) and one above it, in front of a single entry.        *)
MC_WrapImages == { <<8, 1, 97, 1, 120>>, <<9, 1, 97, 1, 120>> }

(* Other codecs on the receiving thread: one whose maxUncompressed_ is    *)
(* below the receiver's (its decode() leaves a smaller buffer), and an     *)
(* encode() with the receiver's cap whose serialized size needs more.     *)
MC_NeighbourCalls == {[size |-> 9, need |-> 13]}

=============================================================================
