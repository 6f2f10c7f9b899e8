------------------------------- MODULE Deflate -------------------------------
(***************************************************************************)
(* The LZ77 layer of DEFLATE, the part of zlib whose state outlives a      *)
(* header block.  With Z_SYNC_FLUSH every block is a run of tokens, each   *)
(* a literal byte or a back-reference (distance, length) into the sliding  *)
(* window: the preset dictionary and every byte the stream carried before. *)
(* The Huffman coding and block framing around the tokens are left out:    *)
(* they reproduce the tokens exactly whatever the window holds.            *)
(*                                                                         *)
(* A literal is [dist |-> 0, len |-> 1, byte |-> b]; a reference has       *)
(* dist > 0.  The compressor is greedy (longest match, nearest first, of   *)
(* at least MIN_MATCH bytes), as deflate_fast at low levels is.  inflate() *)
(* checks only that a distance stays inside the window it has ("invalid    *)
(* distance too far back"); it cannot tell which bytes the sender meant.   *)
(***************************************************************************)
EXTENDS Integers, Sequences, Functions

MIN_MATCH == 3

(* How many bytes from position k of buf repeat those dist positions back: *)
(* up to the first mismatch, or to the end of buf.                          *)
MatchLen(buf, k, dist) ==
  LET miss == {i \in 0..(Len(buf) - k) : buf[k + i] # buf[k + i - dist]}
  IN IF miss = {} THEN Len(buf) - k + 1 ELSE CHOOSE i \in miss : \A j \in miss : i <= j

(* The longest match for position k over the distances 1 .. k-1, the      *)
(* nearest one among equally long matches (len 0 when there is none).      *)
LongestMatch(buf, k) ==
  LET len == [d \in 1..(k - 1) |-> MatchLen(buf, k, d)]
      best == IF k = 1 THEN 0 ELSE CHOOSE l \in Range(len) : \A d \in 1..(k - 1) : len[d] <= l
  IN IF best = 0 THEN [dist |-> 0, len |-> 0]
     ELSE [dist |-> CHOOSE d \in 1..(k - 1) : len[d] = best /\ \A e \in 1..(d - 1) : len[e] < best,
           len |-> best]

(* One step of the greedy tokenizer at s.k: a back-reference when the    *)
(* longest match has MIN_MATCH bytes, else a literal.                      *)
CompressStep(buf, s) ==
  LET m == LongestMatch(buf, s.k) IN
  IF m.len >= MIN_MATCH
  THEN [k |-> s.k + m.len, tokens |-> Append(s.tokens, [dist |-> m.dist, len |-> m.len, byte |-> 0])]
  ELSE [k |-> s.k + 1, tokens |-> Append(s.tokens, [dist |-> 0, len |-> 1, byte |-> buf[s.k]])]

(* n steps of the tokenizer from s, stopping at the end of buf.  The steps *)
(* run in order; the count is halved so that the nesting stays           *)
(* logarithmic in the length of the block.                                 *)
RECURSIVE CompressSteps(_, _, _)
CompressSteps(buf, s, n) ==
  CASE s.k > Len(buf) \/ n = 0 -> s
    [] n = 1 -> CompressStep(buf, s)
    [] OTHER -> CompressSteps(buf, CompressSteps(buf, s, n \div 2), n - n \div 2)

(* deflate() of img on a stream whose window holds the bytes window.       *)
Compress(window, img) ==
  CompressSteps(window \o img, [k |-> Len(window) + 1, tokens |-> <<>>], Len(img)).tokens

(* deflate() at Z_NO_COMPRESSION: stored blocks, every byte a literal and *)
(* no reference into the window.                                           *)
Stored(img) == [i \in DOMAIN img |-> [dist |-> 0, len |-> 1, byte |-> img[i]]]

(* A back-reference copies byte by byte, so it may overlap its own output: *)
(* the last dist bytes repeat until len bytes are copied.                  *)
CopyBack(out, dist, len) ==
  out \o [i \in 1..len |-> out[Len(out) - dist + 1 + ((i - 1) % dist)]]

(* inflate() applying tokens lo .. hi in order to the output so far, the  *)
(* range halved as in CompressSteps; ok turns FALSE at the first distance  *)
(* beyond the output, and nothing after it is applied.                     *)
RECURSIVE Expand(_, _, _, _)
Expand(r, tokens, lo, hi) ==
  CASE ~r.ok \/ lo > hi -> r
    [] lo = hi /\ tokens[lo].dist = 0 -> [r EXCEPT !.out = Append(@, tokens[lo].byte)]
    [] lo = hi /\ tokens[lo].dist > Len(r.out) -> [r EXCEPT !.ok = FALSE]
    [] lo = hi -> [r EXCEPT !.out = CopyBack(@, tokens[lo].dist, tokens[lo].len)]
    [] OTHER -> Expand(Expand(r, tokens, lo, (lo + hi) \div 2), tokens, (lo + hi) \div 2 + 1, hi)

(* inflate() of a block on a stream whose window holds window: the bytes   *)
(* it produces, or ok = FALSE (Z_DATA_ERROR) for a distance too far back.   *)
Decompress(window, tokens) ==
  LET r == Expand([ok |-> TRUE, out |-> window], tokens, 1, Len(tokens))
  IN [ok |-> r.ok, img |-> SubSeq(r.out, Len(window) + 1, Len(r.out))]
=============================================================================
