----------------------------- MODULE MCPcmQueue -----------------------------
(* PcmQueue with a two-frame chunk, a queue of two chunks and periods that *)
(* can be longer than the whole queue, as 48000 frames are than 7680.      *)
EXTENDS PcmQueue

=============================================================================
