-------------------------- MODULE MC_LossyDelivery --------------------------
(* LossyDelivery for TLC, with the byte strings of MC_GzipHeaderCodec.     *)
EXTENDS LossyDelivery, MC_GzipHeaderCodec

(* Two single-header lists with different names and values.               *)
MC_LossInputs == { <<MakeHeader(MC_b, MC_x)>>, <<MakeHeader(MC_h, MC_y)>> }
=============================================================================
