------------------------------ MODULE MCUdpTest -----------------------------
(* UdpTest with sequence numbers of two bits: a stream long enough to wrap *)
(* and to lose more in a row than the numbers can tell.                    *)
EXTENDS UdpTest

=============================================================================
