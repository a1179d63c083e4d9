--------------------------- MODULE MCDecoderLend ---------------------------
(* Instances of DecoderLend for TLC.                                       *)
EXTENDS DecoderLend

CONSTANTS t1, t2, t3

OneDecoder == <<"nvjpeg">>
VulkanAndNvjpeg == <<"huffVk", "nvjpeg">>
=============================================================================
