---------------------------- MODULE MCUltraOutput ---------------------------
(* UltraOutput with two sizes, one or two colours and one or two AVH       *)
(* flows.  Nothing else is bounded: every call of the device may fail at   *)
(* any time.                                                               *)
EXTENDS UltraOutput

=============================================================================
