--------------------------- MODULE MCNvdataFlash ---------------------------
(* Instances of NvdataFlash: blobs of two bits, every image but the one    *)
(* that looks erased.                                                      *)
EXTENDS NvdataFlash, TLC

MCBits == {"b0", "b1"}
MCImages == SUBSET MCBits \ {MCBits}
=============================================================================
