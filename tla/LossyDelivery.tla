---------------------------- MODULE LossyDelivery ----------------------------
(***************************************************************************)
(* GzipHeaderCodec's header blocks delivered by a session that may skip a  *)
(* block or hand two blocks to decode() in the opposite order (spec        *)
(* section 8, "stream persistence").  decode() has no sequence number or   *)
(* checksum of its own: it learns of a desynchronized stream only through  *)
(* inflate()'s return code (GzipHeaderCodec.cpp 281).                      *)
(***************************************************************************)
EXTENDS GzipHeaderCodec

CONSTANT MaxFaults   \* how many blocks the session may lose or reorder

ASSUME MaxFaults \in Nat

VARIABLE faults

lossyVars == <<vars, faults>>

LossyInit == Init /\ faults = 0

(* A block in transit never reaches decode().                              *)
LoseBlock ==
  /\ faults < MaxFaults
  /\ \E k \in DOMAIN chan : chan' = RemoveAt(chan, k)
  /\ faults' = faults + 1
  /\ UNCHANGED <<peer, senderDict, deflater, encodedSize, inflater, outHeaders,
                 decodedSize, last, closed, crashed, sent, scratch>>

(* Two adjacent blocks in transit reach decode() swapped.                  *)
SwapBlocks ==
  /\ faults < MaxFaults
  /\ \E k \in 1..(Len(chan) - 1) :
       chan' = [chan EXCEPT ![k] = chan[k + 1], ![k + 1] = chan[k]]
  /\ faults' = faults + 1
  /\ UNCHANGED <<peer, senderDict, deflater, encodedSize, inflater, outHeaders,
                 decodedSize, last, closed, crashed, sent, scratch>>

(* Spec section 8: a block decoded after a lost or reordered one yields   *)
(* BadEncoding.  So decode() never reports success with headers other     *)
(* than the ones that block was encoded from.                              *)
NoSilentCorruption ==
  last # NoDecode /\ last.kind = "encode" /\ last.err = "none" =>
    ToBag(PairsOf(outHeaders)) = ToBag(InputPairs(last.block.hdrs))

LossyNext ==
  \/ Next /\ UNCHANGED faults
  \/ LoseBlock
  \/ SwapBlocks

LossySpec == LossyInit /\ [][LossyNext]_lossyVars /\ WF_lossyVars(Decode /\ UNCHANGED faults)
=============================================================================
