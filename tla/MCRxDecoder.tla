---------------------------- MODULE MCRxDecoder -----------------------------
(* RxDecoder as each of the three receivers, with one or two delivering    *)
(* threads, two parameter sets and a decoder that holds one packet and two *)
(* frames.                                                                 *)
EXTENDS RxDecoder

=============================================================================
